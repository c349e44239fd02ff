-------------------------- MODULE FamilyCrawlProofs --------------------------
(***************************************************************************)
(* Proofs about FamilyCrawl, for every set of numbers, jobs, projects and  *)
(* settings.  Whatever the jobs and the people do, the tables stay whole   *)
(* and no job asks for a number twice.  What a single job promises needs   *)
(* providers that answer consistently: Orderly and Agreed below.           *)
(***************************************************************************)
EXTENDS FamilyCrawl, FiniteSetTheorems, SequenceTheorems, TLAPS

\* A provider lists the number it names the record by among its documents (google.go:165,
\* uspto.go:402) and makes no document of a patent its neighbour (both leave out the number
\* asked for, google.go:208, uspto.go:979; that no other document of the same patent is
\* among its relations is assumed), and every stored record is found under its own number.
Orderly(g) ==
    /\ \A n \in DOMAIN g.world :
           /\ g.world[n].number \in g.world[n].docs
           /\ \A i \in DOMAIN g.world[n].rels : g.world[n].rels[i].to \notin g.world[n].docs
    /\ \A r \in g.stored.rec : g.stored.doc[r] = r

\* Of two numbers either both belong to an invention or neither does: Same(x, y).
Invention(w, n) == w[n].docs \union {w[n].number}

Same(x, y) == \A i \in Inventions : x \in i <=> y \in i

\* Providers agree on which numbers are one invention, and so do the stored tables.
Agreed(g) ==
    /\ \A n, m \in DOMAIN g.world :
           Invention(g.world, n) \intersect Invention(g.world, m) # {}
               => Invention(g.world, n) = Invention(g.world, m)
    /\ \A x \in Numbers : g.stored.doc[x] # NoNumber =>
           \A n \in DOMAIN g.world :
               x \in Invention(g.world, n) <=> g.stored.doc[x] \in Invention(g.world, n)

(***************************************************************************)
(* What a job's state means, phase by phase.                               *)
(***************************************************************************)
Resting == {"idle", "done", "failed", "aborted"}
Holding == {"relations", "resolve", "weigh", "merge", "link", "save"}
Working == Holding \union {"unfetched", "stub"}

Fits(s) ==
    /\ s.pc = "relations" => s.queue # <<>> /\ s.kinds # <<>>
    /\ s.pc \in Working => s.number \in Numbers
    /\ s.pc = "weigh" => s.keep \in Numbers \/ (s.keep = NoNumber /\ s.left # {})
    /\ s.pc \in {"merge", "link", "save", "read", "promote"} => s.keep \in Numbers
    /\ s.pc = "merge" => s.keep \notin s.left

Bounded(s) ==
    /\ s.ingested <= NodeBudget /\ s.depth <= DepthLimit
    /\ s.pc \in Working => s.ingested < NodeBudget
    /\ \A i \in DOMAIN s.queue : s.queue[i].depth <= DepthLimit

\* What waits in the queue waits once and was not asked for yet.
QueueIsNew(s) ==
    /\ s.pc \notin Resting => s.tried \subseteq s.seen
    /\ \A i \in DOMAIN s.queue : s.queue[i].number \in s.seen \ s.tried
    /\ \A i, j \in DOMAIN s.queue : s.queue[i].number = s.queue[j].number => i = j

Good(s) == s \in JobStates /\ Fits(s) /\ Bounded(s) /\ QueueIsNew(s)

JobsOK == TypeOK /\ Integral(db) /\ \A c \in Crawls : Good(crawl[c])

Rooted == \A c \in Crawls : crawl[c].pc # "idle" => Root[c] # NoNumber

IInv == JobsOK /\ Rooted

(***************************************************************************)
(* One job alone.                                                          *)
(***************************************************************************)
Answers(d) == \A r \in d.rec : d.doc[r] = r

Candidates(s) == {s.number} \union s.docs

\* Of the records that are compared the one kept so far has a body if any has.
BodyKept(s, d, seen) ==
    /\ s.best = 1 <=> s.keep \in d.cached
    /\ \A x \in seen : x \in d.cached => s.keep \in d.cached

\* Of a node that was not begun nothing is left over from the one before it.
Fresh(s) ==
    /\ s.pc = "next" => s.rels = <<>>
    /\ s.pc \in {"next", "relations"} => s.found = {}
    /\ s.pc \in {"next", "relations", "resolve"} => s.keep = NoNumber
    /\ s.pc \in {"next", "relations", "resolve", "weigh", "merge"} => s.stubs = {} /\ s.edges = {}

\* What is known of the records of the candidates, in each phase.
Held(s, d) ==
    /\ Fresh(s)
    /\ s.pc \in Holding =>
           /\ s.number \in s.docs
           /\ \A i \in DOMAIN s.rels : s.rels[i].to \in s.docs => d.doc[s.rels[i].to] # NoNumber
    /\ s.pc = "resolve" =>
           /\ s.left \subseteq Candidates(s) /\ s.found \subseteq d.rec
           /\ \A x \in Candidates(s) \ s.left : d.doc[x] \in s.found \union {NoNumber}
    /\ s.pc = "weigh" =>
           /\ s.left \subseteq s.found /\ s.found \subseteq d.rec
           /\ \A x \in Candidates(s) : d.doc[x] \in s.found \union {NoNumber}
           /\ IF s.keep = NoNumber THEN s.left = s.found
              ELSE s.keep \in s.found /\ BodyKept(s, d, s.found \ s.left)
    /\ s.pc = "merge" =>
           /\ s.left \union {s.keep} \subseteq d.rec /\ s.keep \notin s.left
           /\ \A x \in Candidates(s) : d.doc[x] \in s.left \union {s.keep, NoNumber}
           /\ \A x \in s.left : x \in d.cached => s.keep \in d.cached
    /\ s.pc \in {"link", "save"} =>
           /\ s.keep \in d.rec \union {s.number}
           /\ \A x \in Candidates(s) : d.doc[x] \in {s.keep, NoNumber}
           /\ \A x \in s.stubs : x \notin s.docs /\ d.doc[x] = NoNumber
           /\ \A e \in s.edges : e[1] = s.keep /\ e[2] \in d.rec \union s.stubs
    /\ s.pc = "stub" => d.doc[s.number] = NoNumber
    /\ s.pc # "aborted"

AtTheEnd(s, d, root) ==
    s.pc \in {"read", "promote"} => d.doc[root] = s.keep /\ s.keep \in d.rec

AloneInv ==
    /\ adding = Nothing
    /\ Answers(db)
    /\ \A c \in Crawls : Held(crawl[c], db) /\ AtTheEnd(crawl[c], db, Root[c])

SteadyInv == Alone /\ Orderly(given) => AloneInv

(***************************************************************************)
(* Records and the inventions they stand for.                              *)
(***************************************************************************)
OneInvention(s) ==
    /\ s.pc = "next" => s.found = {} /\ s.left = {} /\ s.keep = NoNumber
    /\ s.pc \in Holding =>
           \A x \in s.docs \union s.found \union s.left \union ({s.keep} \ {NoNumber}) :
               Same(x, s.number)

Known(d) == \A x \in Numbers : d.doc[x] # NoNumber => Same(x, d.doc[x])

InventionInv == Agreed(given) => Known(db) /\ \A c \in Crawls : OneInvention(crawl[c])

(***************************************************************************)
(* The store: what RecordStoreProofs shows of its transactions, here.      *)
(***************************************************************************)
Store == INSTANCE RecordStoreProofs WITH
    Batches <- {}, MaxCalls <- 0, reply <- [op |-> "none", ok |-> TRUE], calls <- 0

Whole(d) == d \in Databases /\ Integral(d)

LEMMA StoreAssumptions == Store!NoNumberAssumption /\ Store!BatchesAssumption
BY NoNumberAssumption DEF Store!NoNumberAssumption, Store!BatchesAssumption

LEMMA SameWhole == \A d : Whole(d) <=> Store!Whole(d)
BY DEF Whole, Store!Whole, Databases, Store!Databases, Integral, Store!Integral,
       ReviewStates, Store!ReviewStates, AutoStates, Store!AutoStates, NoState, Store!NoState

LEMMA NodeIsWhole ==
    ASSUME NEW d, Whole(d), NEW b \in NodeBatches, CanSaveNode(d, b)
    PROVE  Whole(AfterSaveNode(d, b))
<1>1. Store!Whole(d) /\ b \in Store!NodeBatches /\ Store!CanSaveNode(d, b)
    BY SameWhole DEF NodeBatches, Store!NodeBatches, CanSaveNode, Store!CanSaveNode, Owner, Store!Owner
<1>2. Store!Whole(Store!AfterSaveNode(d, b))
    BY <1>1, StoreAssumptions, Store!NodeIsWhole, Zenon
<1> QED BY <1>2, SameWhole DEF AfterSaveNode, Store!AfterSaveNode, Owner, Store!Owner,
           DocAfterNode, Store!DocAfterNode

LEMMA MergeIsWhole ==
    ASSUME NEW d, Whole(d), NEW keep \in Numbers, NEW absorb \in Numbers, keep # absorb,
           CanMerge(d, keep, absorb)
    PROVE  Whole(AfterMerge(d, keep, absorb))
<1>1. Store!Whole(d) /\ Store!CanMerge(d, keep, absorb)
    BY SameWhole DEF CanMerge, Store!CanMerge
<1>2. Store!Whole(Store!AfterMerge(d, keep, absorb))
    BY <1>1, StoreAssumptions, Store!MergeIsWhole, Zenon
<1> QED BY <1>2, SameWhole DEF AfterMerge, Store!AfterMerge, MergedEdges, Store!MergedEdges,
           Folded, Store!Folded, MergedState, Store!MergedState, AutoStates, Store!AutoStates,
           NoState, Store!NoState

LEMMA SoftDeleteIsWhole ==
    ASSUME NEW d, Whole(d), NEW ns \in SUBSET Numbers
    PROVE  Whole(AfterSoftDelete(d, ns))
<1>1. Store!Whole(Store!AfterSoftDelete(d, ns))
    BY SameWhole, StoreAssumptions, Store!SoftDeleteIsWhole, Zenon
<1>2. \A e, gone : Store!Purged(e, gone) = Purged(e, gone)
    BY DEF Purged, Store!Purged, NoState, Store!NoState
<1>3. \A e, gone : Store!Orphans(e, gone) = Orphans(e, gone)
    BY DEF Orphans, Store!Orphans
<1>4. Store!Demoted(d, ns) = Demoted(d, ns)
    BY DEF Demoted, Store!Demoted, NoState, Store!NoState
<1> QED BY <1>1, <1>2, <1>3, <1>4, SameWhole DEF AfterSoftDelete, Store!AfterSoftDelete

LEMMA SavePatentIsWhole ==
    ASSUME NEW d, Whole(d), NEW n \in Numbers, NEW cached \in BOOLEAN
    PROVE  Whole(AfterSavePatent(d, n, cached))
<1>1. Store!Whole(Store!AfterSavePatent(d, n, cached))
    BY SameWhole, StoreAssumptions, Store!SavePatentIsWhole, Zenon
<1> QED BY <1>1, SameWhole DEF AfterSavePatent, Store!AfterSavePatent

LEMMA SaveDocumentIsWhole ==
    ASSUME NEW d, Whole(d), NEW r \in Numbers, NEW x \in Numbers, CanSaveDocument(d, r)
    PROVE  Whole(AfterSaveDocument(d, r, x))
<1>1. Store!Whole(Store!AfterSaveDocument(d, r, x))
    BY SameWhole, StoreAssumptions, Store!SaveDocumentIsWhole, Zenon
    DEF CanSaveDocument, Store!CanSaveDocument
<1> QED BY <1>1, SameWhole DEF AfterSaveDocument, Store!AfterSaveDocument

LEMMA SetStatesIsWhole ==
    ASSUME NEW d, Whole(d), NEW p, NEW ns, NEW to \in ReviewStates
    PROVE  Whole(AfterSetReviewStates(d, p, ns, to))
<1>1. Store!Whole(Store!AfterSetReviewStates(d, p, ns, to))
    BY SameWhole, StoreAssumptions, Store!SetStatesIsWhole, Zenon
    DEF ReviewStates, Store!ReviewStates, AutoStates, Store!AutoStates
<1> QED BY <1>1, SameWhole DEF AfterSetReviewStates, Store!AfterSetReviewStates,
           NoState, Store!NoState

LEMMA AddMembershipIsWhole ==
    ASSUME NEW d, Whole(d), NEW p \in Projects, NEW n \in Numbers, NEW to \in ReviewStates,
           CanAddMembership(d, n)
    PROVE  Whole(AfterAddMembership(d, p, n, to))
<1>1. Store!Whole(Store!AfterAddMembership(d, p, n, to))
    BY SameWhole, StoreAssumptions, Store!AddMembershipIsWhole, Zenon
    DEF ReviewStates, Store!ReviewStates, AutoStates, Store!AutoStates,
        CanAddMembership, Store!CanAddMembership
<1> QED BY <1>1, SameWhole DEF AfterAddMembership, Store!AfterAddMembership, NoState, Store!NoState

LEMMA RecordsAreNumbers ==
    ASSUME NEW d, Whole(d), NEW n \in Numbers
    PROVE  /\ RecordOf(d, n) \in Numbers \union {NoNumber}
           /\ RecordFor(d, n) \in Numbers
           /\ DocumentsOf(d, n) \in SUBSET Numbers
BY DEF Whole, Databases, RecordOf, RecordFor, DocumentsOf

(***************************************************************************)
(* The states of a job.                                                    *)
(***************************************************************************)
LEMMA GivenTypes ==
    ASSUME given \in Settings
    PROVE  /\ Whole(given.stored)
           /\ \A c \in Crawls : Root[c] \in Numbers \union {NoNumber}
           /\ DepthLimit \in Nat /\ NodeBudget \in Nat \ {0}
           /\ given.force \subseteq BOOLEAN
           /\ \A n \in DOMAIN World : /\ n \in Numbers
                                      /\ World[n].number \in Numbers
                                      /\ World[n].docs \in SUBSET Numbers
                                      /\ World[n].rels \in Seq([to : Numbers, kind : Kinds])
<1> DEFINE Answer == [number : Numbers, docs : SUBSET Numbers, rels : Seq([to : Numbers, kind : Kinds])]
<1>1. /\ DOMAIN given.world \subseteq Numbers
      /\ given.world \in [DOMAIN given.world -> Answer]
      /\ given.root \in [Crawls -> DOMAIN given.world \union {NoNumber}]
      /\ given.depth \in Nat /\ given.budget \in Nat \ {0}
      /\ given.force \in SUBSET BOOLEAN
      /\ given.stored \in Databases /\ Integral(given.stored)
    BY SettingsAssumption, Zenon
<1>2. \A c \in Crawls : given.root[c] \in Numbers \union {NoNumber}
    BY <1>1
<1>3. \A n \in DOMAIN given.world : given.world[n] \in Answer
    BY <1>1, Zenon
<1>4. \A n \in DOMAIN given.world : /\ n \in Numbers
                                  /\ given.world[n].number \in Numbers
                                  /\ given.world[n].docs \in SUBSET Numbers
                                  /\ given.world[n].rels \in Seq([to : Numbers, kind : Kinds])
    BY <1>1, <1>3
<1> QED BY <1>1, <1>2, <1>4 DEF Whole, Root, World, DepthLimit, NodeBudget

Queues   == Seq([number : Numbers, depth : Nat])
RelLists == Seq([to : Numbers, kind : Kinds])

LEMMA IdleIsGood ==
    ASSUME given \in Settings PROVE Good(Idle)
<1>1. Idle \in JobStates
    BY DEF Idle, JobStates, Phases
<1> QED BY <1>1, GivenTypes DEF Good, Idle, Fits, Bounded, QueueIsNew, Resting, Working, Holding

\* A state with one field changed within its type.
LEMMA FieldUpdates ==
    ASSUME NEW s \in JobStates
    PROVE  /\ \A v \in Phases : [s EXCEPT !.pc = v] \in JobStates
           /\ \A v \in BOOLEAN : [s EXCEPT !.force = v] \in JobStates
           /\ \A v \in Queues : [s EXCEPT !.queue = v] \in JobStates
           /\ \A v \in SUBSET Numbers : [s EXCEPT !.seen = v] \in JobStates
           /\ \A v \in Nat : [s EXCEPT !.ingested = v] \in JobStates
           /\ \A v \in Numbers \union {NoNumber} : [s EXCEPT !.number = v] \in JobStates
           /\ \A v \in Nat : [s EXCEPT !.depth = v] \in JobStates
           /\ \A v \in SUBSET Numbers : [s EXCEPT !.docs = v] \in JobStates
           /\ \A v \in RelLists : [s EXCEPT !.rels = v] \in JobStates
           /\ \A v \in Seq(Kinds) : [s EXCEPT !.kinds = v] \in JobStates
           /\ \A v \in SUBSET Numbers : [s EXCEPT !.left = v] \in JobStates
           /\ \A v \in SUBSET Numbers : [s EXCEPT !.found = v] \in JobStates
           /\ \A v \in Numbers \union {NoNumber} : [s EXCEPT !.keep = v] \in JobStates
           /\ \A v \in {0, 1} : [s EXCEPT !.best = v] \in JobStates
           /\ \A v \in SUBSET Numbers : [s EXCEPT !.stubs = v] \in JobStates
           /\ \A v \in SUBSET (Numbers \X Numbers \X Kinds) : [s EXCEPT !.edges = v] \in JobStates
           /\ \A v \in SUBSET Numbers : [s EXCEPT !.tried = v] \in JobStates
           /\ \A v \in SUBSET Numbers : [s EXCEPT !.walked = v] \in JobStates
<1>1. /\ \A v \in Phases : [s EXCEPT !.pc = v] \in JobStates
      /\ \A v \in BOOLEAN : [s EXCEPT !.force = v] \in JobStates
      /\ \A v \in Queues : [s EXCEPT !.queue = v] \in JobStates
      /\ \A v \in SUBSET Numbers : [s EXCEPT !.seen = v] \in JobStates
      /\ \A v \in Nat : [s EXCEPT !.ingested = v] \in JobStates
      /\ \A v \in Numbers \union {NoNumber} : [s EXCEPT !.number = v] \in JobStates
    BY DEF JobStates, Queues, RelLists
<1>2. /\ \A v \in Nat : [s EXCEPT !.depth = v] \in JobStates
      /\ \A v \in SUBSET Numbers : [s EXCEPT !.docs = v] \in JobStates
      /\ \A v \in RelLists : [s EXCEPT !.rels = v] \in JobStates
      /\ \A v \in Seq(Kinds) : [s EXCEPT !.kinds = v] \in JobStates
      /\ \A v \in SUBSET Numbers : [s EXCEPT !.left = v] \in JobStates
      /\ \A v \in SUBSET Numbers : [s EXCEPT !.found = v] \in JobStates
    BY DEF JobStates, Queues, RelLists
<1>3. /\ \A v \in Numbers \union {NoNumber} : [s EXCEPT !.keep = v] \in JobStates
      /\ \A v \in {0, 1} : [s EXCEPT !.best = v] \in JobStates
      /\ \A v \in SUBSET Numbers : [s EXCEPT !.stubs = v] \in JobStates
      /\ \A v \in SUBSET (Numbers \X Numbers \X Kinds) : [s EXCEPT !.edges = v] \in JobStates
      /\ \A v \in SUBSET Numbers : [s EXCEPT !.tried = v] \in JobStates
      /\ \A v \in SUBSET Numbers : [s EXCEPT !.walked = v] \in JobStates
    BY DEF JobStates, Queues, RelLists
<1> QED BY <1>1, <1>2, <1>3, Zenon

LEMMA StoppedIsTyped ==
    ASSUME given \in Settings, NEW s \in JobStates, NEW pc \in Phases
    PROVE  Stopped(s, pc) \in JobStates
<1>1. Idle \in JobStates
    BY IdleIsGood DEF Good
<1>2. /\ s.force \in BOOLEAN /\ s.ingested \in Nat
      /\ s.tried \in SUBSET Numbers /\ s.walked \in SUBSET Numbers
    BY DEF JobStates
<1> QED BY <1>1, <1>2, FieldUpdates, Zenon DEF Stopped

LEMMA StoppedIsGood ==
    ASSUME given \in Settings, NEW s, Good(s), NEW pc \in Resting
    PROVE  Good(Stopped(s, pc))
<1>1. Stopped(s, pc) \in JobStates
    BY StoppedIsTyped DEF Good, Resting, Phases
<1> QED BY <1>1, GivenTypes DEF Good, Idle, Stopped, Fits, Bounded, QueueIsNew, Resting, Working, Holding

LEMMA NextIsGood ==
    ASSUME given \in Settings, NEW s, Good(s), s.pc \notin Resting
    PROVE  Good(ToNext(s))
<1>1. s \in JobStates /\ s.queue \in Queues /\ s.seen \in SUBSET Numbers /\ "next" \in Phases
    BY DEF Good, JobStates, Queues, Phases
<1>2. ToNext(s) \in JobStates
    BY <1>1, StoppedIsTyped, FieldUpdates, Zenon DEF ToNext
<1> QED BY <1>1, <1>2, GivenTypes DEF Good, ToNext, Stopped, Idle, Fits, Bounded, QueueIsNew, Resting, Working, Holding

LEMMA SequenceFacts ==
    ASSUME NEW T, NEW q \in Seq(T)
    PROVE  /\ q # <<>> =>
                  /\ 1 \in DOMAIN q /\ Head(q) = q[1] /\ Head(q) \in T /\ Tail(q) \in Seq(T)
                  /\ \A i \in DOMAIN Tail(q) :
                         /\ i + 1 \in DOMAIN q /\ i + 1 # 1 /\ Tail(q)[i] = q[i + 1]
                  /\ \A i, j \in DOMAIN Tail(q) : i + 1 = j + 1 => i = j
           /\ \A r \in Seq(T) : q \o r \in Seq(T)
OBVIOUS

LEMMA AppendFacts ==
    ASSUME NEW T, NEW q \in Seq(T), NEW v \in T
    PROVE  /\ Append(q, v) \in Seq(T)
           /\ \A i \in DOMAIN Append(q, v) :
                  \/ i \in DOMAIN q /\ Append(q, v)[i] = q[i]
                  \/ i = Len(q) + 1 /\ i \notin DOMAIN q /\ Append(q, v)[i] = v
OBVIOUS

\* The head of the queue is taken off and remembered as asked for.
LEMMA QueueTail ==
    ASSUME given \in Settings, NEW s, Good(s), s.queue # <<>>
    PROVE  LET head == Head(s.queue)
           IN  /\ head \in [number : Numbers, depth : Nat] /\ head.depth <= DepthLimit
               /\ head.number \in s.seen \ s.tried
               /\ Tail(s.queue) \in Queues
               /\ \A i \in DOMAIN Tail(s.queue) :
                      /\ i + 1 \in DOMAIN s.queue /\ Tail(s.queue)[i] = s.queue[i + 1]
                      /\ Tail(s.queue)[i].number # head.number
               /\ \A i, j \in DOMAIN Tail(s.queue) :
                      Tail(s.queue)[i].number = Tail(s.queue)[j].number => i = j
<1> DEFINE q == s.queue
           T == [number : Numbers, depth : Nat]
<1>1. q \in Seq(T)
    BY DEF Good, JobStates
<1>3. /\ \A i \in DOMAIN q : q[i].depth <= DepthLimit /\ q[i].number \in s.seen \ s.tried
      /\ \A i, j \in DOMAIN q : q[i].number = q[j].number => i = j
    BY DEF Good, Bounded, QueueIsNew
<1>0. q # <<>>
    OBVIOUS
<1> HIDE DEF T, q
<1>2. /\ 1 \in DOMAIN q /\ Head(q) = q[1] /\ Head(q) \in T /\ Tail(q) \in Seq(T)
      /\ \A i \in DOMAIN Tail(q) : i + 1 \in DOMAIN q /\ i + 1 # 1 /\ Tail(q)[i] = q[i + 1]
      /\ \A i, j \in DOMAIN Tail(q) : i + 1 = j + 1 => i = j
    BY <1>0, <1>1, SequenceFacts, Zenon
<1>4. \A i \in DOMAIN Tail(q) : Tail(q)[i].number # Head(q).number
    BY <1>2, <1>3, Zenon
<1>5. Head(q).number \in s.seen \ s.tried /\ Head(q).depth <= DepthLimit
    BY <1>2, <1>3, Zenon
<1>6. ASSUME NEW i \in DOMAIN Tail(q), NEW j \in DOMAIN Tail(q),
             Tail(q)[i].number = Tail(q)[j].number
      PROVE  i = j
    <2>1. q[i + 1].number = q[j + 1].number /\ i + 1 \in DOMAIN q /\ j + 1 \in DOMAIN q
        BY <1>2, <1>6, Zenon
    <2>2. i + 1 = j + 1
        BY <1>3, <2>1, Zenon
    <2> QED BY <1>2, <2>2, Zenon
<1> QED BY <1>2, <1>4, <1>5, <1>6, Zenon DEF T, q, Queues

LEMMA FetchedIsGood ==
    ASSUME given \in Settings, NEW s, Good(s), s.queue # <<>>, s.pc \in {"next", "relations"},
           s.ingested < NodeBudget,
           NEW res, res.number \in Numbers, res.docs \in SUBSET Numbers, res.rels \in RelLists
    PROVE  Good(Fetched(s, res))
<1> DEFINE head == Head(s.queue)
           t == Fetched(s, res)
<1>1. /\ s \in JobStates /\ Tail(s.queue) \in Queues
      /\ head.number \in Numbers /\ head.depth \in Nat /\ head.depth <= DepthLimit
    BY QueueTail DEF Good
<1>2. /\ s.tried \union {head.number} \in SUBSET Numbers
      /\ s.walked \union {head.number} \in SUBSET Numbers
      /\ {res.number} \union res.docs \in SUBSET Numbers
      /\ res.number \in Numbers \union {NoNumber}
      /\ "resolve" \in Phases
    BY <1>1 DEF JobStates, Phases
<1>4. t \in JobStates
    <2> DEFINE left == {res.number} \union res.docs
               tried == s.tried \union {head.number}
               walked == s.walked \union {head.number}
               q == Tail(s.queue)
    <2>1. t = [s EXCEPT !.pc = "resolve", !.queue = q, !.number = res.number,
                        !.depth = head.depth, !.docs = res.docs, !.rels = res.rels,
                        !.left = left, !.tried = tried, !.walked = walked]
        BY <1>1 DEF Fetched, JobStates
    <2>2. left \in SUBSET Numbers /\ tried \in SUBSET Numbers /\ walked \in SUBSET Numbers /\ q \in Queues
        BY <1>1, <1>2
    <2> DEFINE first == [s EXCEPT !.pc = "resolve", !.queue = q, !.number = res.number]
               second == [first EXCEPT !.depth = head.depth, !.docs = res.docs, !.rels = res.rels]
               third == [second EXCEPT !.left = left, !.tried = tried, !.walked = walked]
    <2>3. t = third
        BY <2>1, Zenon
    <2> HIDE DEF left, tried, walked, q, t
    <2>4. first \in JobStates
        BY <1>1, <1>2, <2>2, FieldUpdates, Zenon
    <2> HIDE DEF first
    <2>5. second \in JobStates
        BY <1>1, <2>4, FieldUpdates, Zenon
    <2> HIDE DEF second
    <2>6. third \in JobStates
        BY <2>2, <2>5, FieldUpdates, Zenon
    <2> QED BY <2>3, <2>6
<1>5. /\ t.pc = "resolve" /\ t.queue = Tail(s.queue) /\ t.number = res.number /\ t.depth = head.depth
      /\ t.ingested = s.ingested /\ t.seen = s.seen /\ t.tried = s.tried \union {head.number}
    BY <1>1 DEF Fetched, JobStates
<1> HIDE DEF t
<1>6. Fits(t)
    BY <1>5 DEF Fits
<1>7. Bounded(t)
    BY <1>1, <1>5, QueueTail DEF Good, Bounded
<1>8. QueueIsNew(t)
    BY <1>1, <1>5, QueueTail DEF Good, QueueIsNew, Resting
<1> QED BY <1>4, <1>6, <1>7, <1>8 DEF Good, t
(***************************************************************************)
(* Every step keeps JobsOK.                                                  *)
(***************************************************************************)
LEMMA GoodNow ==
    ASSUME JobsOK, NEW c \in Crawls
    PROVE  /\ given \in Settings /\ Whole(db) /\ Good(crawl[c])
           /\ crawl \in [Crawls -> JobStates]
BY DEF JobsOK, TypeOK, Whole

LEMMA JobBecomes ==
    ASSUME JobsOK, UNCHANGED <<given, people>>, NEW c \in Crawls, NEW t, Good(t), Become(c, t),
           Whole(db')
    PROVE  JobsOK'
<1>1. \A d \in Crawls : crawl'[d] = IF d = c THEN t ELSE crawl[d]
    BY GoodNow, Zenon DEF Become
<1>2. crawl' \in [Crawls -> JobStates]
    BY GoodNow DEF Become, Good
<1>3. \A d \in Crawls : Good(crawl'[d])
    BY <1>1, GoodNow, Zenon
<1>4. \A x : Good(x) => Good(x)'
    BY DEF Good, Bounded, NodeBudget, DepthLimit
<1>5. \A d \in Crawls : Good(crawl[d])'
    BY <1>3, <1>4 DEF Good, Bounded, NodeBudget, DepthLimit
<1>6. TypeOK'
    BY <1>2 DEF JobsOK, TypeOK, Whole, people
<1> QED BY <1>5, <1>6 DEF JobsOK, Whole

LEMMA EditKeepsJobs ==
    ASSUME JobsOK, UNCHANGED <<given, crawl>>, Whole(db'),
           adding' \in [number : Numbers, pc : {"patent", "document"}] \union {Nothing},
           edits' \in Nat
    PROVE  JobsOK'
BY DEF JobsOK, TypeOK, Whole, Good, Bounded, NodeBudget, DepthLimit

LEMMA StartKeeps ==
    ASSUME JobsOK, UNCHANGED given, NEW c \in Crawls, NEW force, StartCrawl(c, force)
    PROVE  JobsOK'
<1> DEFINE q == <<[number |-> Root[c], depth |-> 0]>>
           seen == {Root[c]}
           t == [Idle EXCEPT !.pc = "next", !.force = force, !.seen = seen, !.queue = q]
<1>1. force \in BOOLEAN /\ Root[c] \in Numbers /\ DepthLimit \in Nat /\ NodeBudget \in Nat \ {0}
    BY GivenTypes, GoodNow DEF StartCrawl
<1>2. q \in Queues /\ seen \in SUBSET Numbers /\ "next" \in Phases /\ Idle \in JobStates
    BY <1>1, IdleIsGood, GoodNow DEF Queues, Phases, Good
<1>3. t \in JobStates
    <2> HIDE DEF q, seen
    <2> QED BY <1>1, <1>2, FieldUpdates, Zenon
<1>4. t.pc = "next" /\ t.seen = seen /\ t.queue = q /\ t.tried = {} /\ t.ingested = 0 /\ t.depth = 0
    BY DEF Idle
<1>5. /\ DOMAIN q = {1} /\ q[1].number = Root[c] /\ q[1].depth = 0
    OBVIOUS
<1>6. Good(t)
    <2> HIDE DEF q, t
    <2> QED BY <1>1, <1>3, <1>4, <1>5 DEF Good, Fits, Bounded, QueueIsNew, Resting, Working, Holding
<1>7. Become(c, t) /\ UNCHANGED <<db, people>>
    BY DEF StartCrawl
<1> QED BY <1>6, <1>7, GoodNow, JobBecomes, Zenon

LEMMA FetchKeeps ==
    ASSUME JobsOK, UNCHANGED given, NEW c \in Crawls, Fetch(c)
    PROVE  JobsOK'
<1> DEFINE s == crawl[c]
           res == World[Head(s.queue).number]
<1>1. res.number \in Numbers /\ res.docs \in SUBSET Numbers /\ res.rels \in RelLists
    BY GivenTypes, GoodNow DEF Fetch, RelLists
<1>2. s.queue # <<>> /\ s.pc \in {"next", "relations"} /\ s.ingested < NodeBudget
    BY DEF Fetch, HasWork
<1>3. Become(c, Fetched(s, res)) /\ UNCHANGED <<db, people>>
    BY DEF Fetch
<1>4. Good(Fetched(s, res))
    BY <1>1, <1>2, GoodNow, FetchedIsGood
<1> QED BY <1>3, <1>4, GoodNow, JobBecomes, Zenon

LEMMA FetchFailsKeeps ==
    ASSUME JobsOK, UNCHANGED given, NEW c \in Crawls, FetchFails(c)
    PROVE  JobsOK'
<1> DEFINE s == crawl[c]
           head == Head(s.queue)
           q == Tail(s.queue)
           tried == s.tried \union {head.number}
           t == [s EXCEPT !.pc = "unfetched", !.queue = q, !.number = head.number, !.tried = tried]
<1>1. Good(s) /\ given \in Settings /\ s \in JobStates /\ s.tried \in SUBSET Numbers
    BY GoodNow DEF Good, JobStates
<1>2. s.queue # <<>> /\ s.pc = "next" /\ s.ingested < NodeBudget
    BY DEF FetchFails, HasWork
<1>3. /\ head.number \in Numbers /\ q \in Queues /\ tried \in SUBSET Numbers
      /\ "unfetched" \in Phases /\ head.number \in Numbers \union {NoNumber}
    BY <1>1, <1>2, QueueTail DEF Phases
<1>4. t \in JobStates
    <2> HIDE DEF q, tried, s, head
    <2> QED BY <1>1, <1>3, FieldUpdates, Zenon
<1>5. /\ t.pc = "unfetched" /\ t.queue = q /\ t.number = head.number /\ t.tried = tried
      /\ t.seen = s.seen /\ t.ingested = s.ingested /\ t.depth = s.depth
    BY <1>1 DEF JobStates
<1>6. Good(t)
    <2> HIDE DEF t
    <2>1. Fits(t)
        BY <1>3, <1>5 DEF Fits
    <2>2. Bounded(t)
        BY <1>1, <1>2, <1>5, QueueTail DEF Good, Bounded
    <2>3. QueueIsNew(t)
        BY <1>1, <1>2, <1>5, QueueTail DEF Good, QueueIsNew, Resting
    <2> QED BY <1>4, <2>1, <2>2, <2>3 DEF Good
<1>7. Good(Stopped(s, "failed"))
    BY <1>1, StoppedIsGood DEF Resting
<1>8. (Become(c, Stopped(s, "failed")) \/ Become(c, t)) /\ UNCHANGED <<db, people>>
    BY DEF FetchFails
<1> HIDE DEF t, s
<1> QED BY <1>6, <1>7, <1>8, GoodNow, JobBecomes, Zenon DEF s

LEMMA FetchStoredKeeps ==
    ASSUME JobsOK, UNCHANGED given, NEW c \in Crawls, FetchStored(c)
    PROVE  JobsOK'
<1> DEFINE s == crawl[c]
           r == RecordFor(db, Head(s.queue).number)
           docs == DocumentsOf(db, r)
           kinds == <<"cites", "cited_by", "parent", "child">>
           t == [s EXCEPT !.pc = "relations", !.number = r, !.docs = docs, !.kinds = kinds]
<1>1. Good(s) /\ given \in Settings /\ Whole(db) /\ s \in JobStates
    BY GoodNow DEF Good
<1>2. s.queue # <<>> /\ s.pc = "next" /\ s.ingested < NodeBudget
    BY DEF FetchStored, HasWork
<1>3. Head(s.queue).number \in Numbers
    BY <1>1, <1>2, QueueTail
<1>4. /\ r \in Numbers /\ r \in Numbers \union {NoNumber} /\ docs \in SUBSET Numbers
      /\ "relations" \in Phases
    BY <1>1, <1>3, RecordsAreNumbers DEF Phases
<1>5. kinds \in Seq(Kinds) /\ kinds # <<>>
    BY SettingsAssumption
<1>6. t \in JobStates
    <2> HIDE DEF s, r, docs, kinds
    <2> QED BY <1>1, <1>4, <1>5, FieldUpdates, Zenon
<1>7. /\ t.pc = "relations" /\ t.queue = s.queue /\ t.number = r /\ t.tried = s.tried
      /\ t.seen = s.seen /\ t.ingested = s.ingested /\ t.depth = s.depth /\ t.kinds = kinds
    BY <1>1 DEF JobStates
<1>8. Good(t)
    <2> HIDE DEF t, kinds, r
    <2> QED BY <1>1, <1>2, <1>4, <1>5, <1>6, <1>7
        DEF Good, Fits, Bounded, QueueIsNew, Resting, Working, Holding
<1>9. Become(c, t) /\ UNCHANGED <<db, people>>
    BY DEF FetchStored
<1> QED BY <1>1, <1>8, <1>9, JobBecomes, Zenon

LEMMA ArrayIsSequence ==
    ASSUME NEW T, NEW k \in Nat, NEW f \in [1..k -> T]
    PROVE  f \in Seq(T)
BY SeqDef

LEMMA RelationsName ==
    ASSUME NEW rels \in RelLists
    PROVE  \A i \in DOMAIN rels : rels[i].to \in Numbers
<1> DEFINE T == [to : Numbers, kind : Kinds]
<1>1. \A x \in T : x.to \in Numbers
    OBVIOUS
<1>2. rels \in Seq(T)
    BY DEF RelLists
<1> HIDE DEF T
<1>3. \A i \in DOMAIN rels : rels[i] \in T
    BY <1>2
<1> QED BY <1>1, <1>3

\* What one read returns is a list of relations.
LEMMA RowsAreRelations ==
    ASSUME Whole(db), NEW n, NEW kind \in Kinds, NEW rows \in RelationRows(n, kind) \union {<<>>}
    PROVE  /\ rows \in RelLists
           /\ \A i \in DOMAIN rows : \E e \in db.edge : rows[i].to = e[2]
<1> DEFINE ns == {e[2] : e \in {f \in db.edge : f[1] = n /\ f[3] = kind}}
<1>1. ns \subseteq Numbers /\ IsFiniteSet(ns) /\ \A x \in ns : \E e \in db.edge : x = e[2]
    <2>1. ns \subseteq Numbers
        BY DEF Whole, Databases
    <2>2. IsFiniteSet(Numbers)
        BY SettingsAssumption
    <2>3. IsFiniteSet(ns)
        BY <2>1, <2>2, FS_Subset, Zenon
    <2> QED BY <2>1, <2>3
<1>2. Cardinality(ns) \in Nat
    BY <1>1, FS_CardinalityType
<1> HIDE DEF ns
<1>3. CASE rows = <<>>
    BY <1>3 DEF RelLists
<1>4. CASE rows # <<>>
    <2>1. PICK far \in [1..Cardinality(ns) -> ns] :
              rows = [i \in DOMAIN far |-> [to |-> far[i], kind |-> kind]]
        BY <1>4 DEF RelationRows, Ascending, ns
    <2> DEFINE k == Cardinality(ns)
    <2> HIDE DEF k
    <2>2. rows \in [1..k -> [to : Numbers, kind : Kinds]] /\ k \in Nat
        BY <1>1, <1>2, <2>1 DEF k
    <2>3. rows \in RelLists
        BY <2>2, ArrayIsSequence, Zenon DEF RelLists
    <2>4. \A i \in DOMAIN rows : rows[i].to \in ns
        BY <2>1
    <2> QED BY <1>1, <2>3, <2>4, Zenon
<1> QED BY <1>3, <1>4

LEMMA ReadRelationsKeeps ==
    ASSUME JobsOK, UNCHANGED given, NEW c \in Crawls, ReadRelations(c)
    PROVE  JobsOK'
<1> DEFINE s == crawl[c]
           kinds == Tail(s.kinds)
<1>1. /\ Good(s) /\ given \in Settings /\ Whole(db) /\ s \in JobStates
      /\ s.kinds \in Seq(Kinds) /\ s.rels \in RelLists
    BY GoodNow DEF Good, JobStates, RelLists
<1>2. s.queue # <<>> /\ s.pc = "relations" /\ s.ingested < NodeBudget /\ s.number \in Numbers
    BY <1>1 DEF ReadRelations, Good, Fits, Bounded, Working, Holding
<1>3. Head(s.kinds) \in Kinds /\ kinds \in Seq(Kinds)
    BY <1>1, SequenceFacts, Zenon DEF ReadRelations, Good, Fits
<1>4. PICK rows \in RelationRows(Head(s.queue).number, Head(s.kinds)) \union {<<>>} :
          LET read == [s EXCEPT !.kinds = kinds, !.rels = @ \o rows]
          IN  Become(c, IF read.kinds # <<>> THEN read ELSE Fetched(read, read))
    BY Zenon DEF ReadRelations
<1> DEFINE rels == s.rels \o rows
           t == [s EXCEPT !.kinds = kinds, !.rels = rels]
<1>5. rels \in RelLists
    <2>1. rows \in RelLists
        BY <1>1, <1>3, <1>4, RowsAreRelations, Zenon
    <2> DEFINE T == [to : Numbers, kind : Kinds]
    <2>2. s.rels \in Seq(T) /\ rows \in Seq(T)
        BY <1>1, <2>1 DEF RelLists
    <2> HIDE DEF T
    <2>3. rels \in Seq(T)
        BY <2>2, SequenceFacts, Zenon
    <2> QED BY <2>3 DEF T, RelLists
<1>6. t \in JobStates
    <2> HIDE DEF kinds, rels, s
    <2> QED BY <1>1, <1>3, <1>5, FieldUpdates, Zenon
<1>7. /\ t.pc = s.pc /\ t.queue = s.queue /\ t.number = s.number /\ t.tried = s.tried
      /\ t.seen = s.seen /\ t.ingested = s.ingested /\ t.depth = s.depth
      /\ t.kinds = kinds /\ t.docs = s.docs /\ t.rels = rels
    BY <1>1 DEF JobStates
<1>8. Become(c, IF kinds # <<>> THEN t ELSE Fetched(t, t)) /\ UNCHANGED <<db, people>>
    BY <1>4, <1>7 DEF ReadRelations
<1>9. t.number \in Numbers /\ t.docs \in SUBSET Numbers /\ t.rels \in RelLists
    BY <1>2, <1>5, <1>7, <1>1 DEF JobStates
<1> HIDE DEF t, kinds, rels, s
<1>10. CASE kinds # <<>>
    <2>1. Good(t)
        BY <1>1, <1>2, <1>6, <1>7, <1>10 DEF Good, Fits, Bounded, QueueIsNew, Resting, Working, Holding
    <2> QED BY <1>1, <1>8, <1>10, <2>1, JobBecomes, Zenon
<1>11. CASE kinds = <<>>
    <2> DEFINE v == [t EXCEPT !.pc = "next"]
    <2>1. v \in JobStates
        BY <1>6, FieldUpdates, Zenon DEF Phases
    <2>2. /\ v.pc = "next" /\ v.queue = s.queue /\ v.tried = s.tried /\ v.number = s.number
          /\ v.seen = s.seen /\ v.ingested = s.ingested /\ v.depth = s.depth
        BY <1>6, <1>7 DEF JobStates
    <2>3. Fetched(v, t) = Fetched(t, t)
        BY <1>6 DEF Fetched, JobStates
    <2> HIDE DEF v
    <2>4. Good(v)
        BY <1>1, <1>2, <2>1, <2>2 DEF Good, Fits, Bounded, QueueIsNew, Resting, Working, Holding
    <2>5. v.queue # <<>> /\ v.pc \in {"next", "relations"} /\ v.ingested < NodeBudget
        BY <1>2, <2>2
    <2>6. Good(Fetched(t, t))
        BY <1>1, <1>9, <2>3, <2>4, <2>5, FetchedIsGood, Zenon
    <2> QED BY <1>1, <1>8, <1>11, <2>6, JobBecomes, Zenon
<1> QED BY <1>10, <1>11

\* A job that goes on at its node, or reads its root, leaves its queue as it is.
LEMMA GoesOn ==
    ASSUME given \in Settings, NEW s, Good(s), s.pc \notin Resting,
           NEW t \in JobStates, t.queue = s.queue, t.seen = s.seen, t.tried = s.tried,
           t.ingested = s.ingested, t.depth = s.depth,
           t.pc \notin Resting, t.pc \in Working => s.pc \in Working, Fits(t)
    PROVE  Good(t)
BY DEF Good, Bounded, QueueIsNew

LEMMA LookUpUnfetchedKeeps ==
    ASSUME JobsOK, UNCHANGED given, NEW c \in Crawls, LookUpUnfetched(c)
    PROVE  JobsOK'
<1> DEFINE s == crawl[c]
           t == [s EXCEPT !.pc = "stub"]
<1>1. Good(s) /\ given \in Settings /\ Whole(db) /\ s \in JobStates /\ s.pc = "unfetched"
    BY GoodNow DEF Good, LookUpUnfetched
<1>2. UNCHANGED <<db, people>> /\ (Become(c, ToNext(s)) \/ Become(c, t))
    BY DEF LookUpUnfetched
<1>3. /\ t.pc = "stub" /\ t.queue = s.queue /\ t.seen = s.seen /\ t.tried = s.tried
      /\ t.ingested = s.ingested /\ t.depth = s.depth /\ t.number = s.number
    BY <1>1 DEF JobStates
<1>4. t \in JobStates
    BY <1>1, FieldUpdates, Zenon DEF Phases
<1>5. Good(t)
    <2> HIDE DEF t, s
    <2>1. Fits(t)
        BY <1>1, <1>3 DEF Good, Fits, Working
    <2> QED BY <1>1, <1>3, <1>4, <2>1, GoesOn DEF Resting, Working
<1>6. Good(ToNext(s))
    BY <1>1, NextIsGood DEF Resting
<1> QED BY <1>1, <1>2, <1>5, <1>6, JobBecomes, Zenon

LEMMA SaveStubKeeps ==
    ASSUME JobsOK, UNCHANGED given, NEW c \in Crawls, SaveStub(c)
    PROVE  JobsOK'
<1> DEFINE s == crawl[c]
<1>1. Good(s) /\ given \in Settings /\ Whole(db) /\ s.pc = "stub" /\ s.number \in Numbers
    BY GoodNow DEF Good, SaveStub, Fits, Working
<1>2. LoneStub(s.number) \in NodeBatches /\ CanSaveNode(db, LoneStub(s.number))
    BY <1>1 DEF LoneStub, NodeBatches, CanSaveNode
<1>3. Whole(db')
    BY <1>1, <1>2, NodeIsWhole, Zenon DEF SaveStub
<1>4. Good(ToNext(s)) /\ UNCHANGED people /\ Become(c, ToNext(s))
    BY <1>1, NextIsGood DEF Resting, SaveStub
<1> QED BY <1>3, <1>4, JobBecomes, Zenon

LEMMA CancelKeeps ==
    ASSUME JobsOK, UNCHANGED given, NEW c \in Crawls, Cancel(c)
    PROVE  JobsOK'
<1> DEFINE pc == IF crawl[c].pc = "promote" THEN "done" ELSE "failed"
<1>1. pc \in Resting /\ Become(c, Stopped(crawl[c], pc)) /\ UNCHANGED <<db, people>>
    BY DEF Cancel, Resting
<1>2. Good(Stopped(crawl[c], pc)) /\ Whole(db')
    BY <1>1, GoodNow, StoppedIsGood
<1> QED BY <1>1, <1>2, JobBecomes, Zenon

LEMMA ResolveCandidateKeeps ==
    ASSUME JobsOK, UNCHANGED given, NEW c \in Crawls, ResolveCandidate(c)
    PROVE  JobsOK'
<1> DEFINE s == crawl[c]
           n == CHOOSE x \in s.left : TRUE
           left == s.left \ {n}
           found == s.found \union ({RecordOf(db, n)} \ {NoNumber})
           t == [s EXCEPT !.left = left, !.found = found]
<1>1. Good(s) /\ given \in Settings /\ Whole(db) /\ s \in JobStates /\ s.pc = "resolve"
    BY GoodNow DEF Good, ResolveCandidate
<1>2. n \in Numbers
    BY <1>1 DEF JobStates, ResolveCandidate
<1>3. left \in SUBSET Numbers /\ found \in SUBSET Numbers
    BY <1>1, <1>2, RecordsAreNumbers DEF JobStates
<1>4. t \in JobStates
    <2> HIDE DEF left, found, s
    <2> QED BY <1>1, <1>3, FieldUpdates, Zenon
<1>5. /\ t.pc = "resolve" /\ t.queue = s.queue /\ t.seen = s.seen /\ t.tried = s.tried
      /\ t.ingested = s.ingested /\ t.depth = s.depth /\ t.number = s.number
    BY <1>1 DEF JobStates
<1>6. Become(c, t) /\ UNCHANGED <<db, people>>
    BY Zenon DEF ResolveCandidate
<1> HIDE DEF t, s
<1>7. Fits(t)
    BY <1>1, <1>5 DEF Good, Fits, Working, Holding
<1>8. Good(t)
    BY <1>1, <1>4, <1>5, <1>7, GoesOn DEF Resting
<1> QED BY <1>1, <1>6, <1>8, JobBecomes, Zenon

LEMMA AllResolvedKeeps ==
    ASSUME JobsOK, UNCHANGED given, NEW c \in Crawls, AllResolved(c)
    PROVE  JobsOK'
<1> DEFINE s == crawl[c]
           t == [s EXCEPT !.pc = "link", !.keep = s.number]
           u == [s EXCEPT !.pc = "weigh", !.left = s.found]
<1>1. /\ Good(s) /\ given \in Settings /\ Whole(db) /\ s \in JobStates /\ s.pc = "resolve"
      /\ s.number \in Numbers /\ s.found \in SUBSET Numbers
      /\ s.keep \in Numbers \union {NoNumber}
    BY GoodNow DEF Good, AllResolved, Fits, Working, Holding, JobStates
<1>2. t \in JobStates /\ u \in JobStates
    BY <1>1, FieldUpdates, Zenon DEF Phases
<1>3. /\ t.pc = "link" /\ t.queue = s.queue /\ t.seen = s.seen /\ t.tried = s.tried
      /\ t.ingested = s.ingested /\ t.depth = s.depth /\ t.number = s.number /\ t.keep = s.number
    BY <1>1 DEF JobStates
<1>4. /\ u.pc = "weigh" /\ u.queue = s.queue /\ u.seen = s.seen /\ u.tried = s.tried
      /\ u.ingested = s.ingested /\ u.depth = s.depth /\ u.number = s.number
      /\ u.keep = s.keep /\ u.left = s.found
    BY <1>1 DEF JobStates
<1>5. /\ UNCHANGED <<db, people>>
      /\ Become(c, IF s.found = {} THEN t ELSE u)
    BY Zenon DEF AllResolved
<1> HIDE DEF t, u, s
<1>6. Good(t)
    <2>1. Fits(t)
        BY <1>1, <1>3 DEF Fits
    <2> QED BY <1>1, <1>2, <1>3, <2>1, GoesOn DEF Resting, Working, Holding
<1>7. s.found # {} => Good(u)
    <2>1. s.found # {} => Fits(u)
        BY <1>1, <1>4 DEF Fits
    <2> QED BY <1>1, <1>2, <1>4, <2>1, GoesOn DEF Resting, Working, Holding
<1> QED BY <1>1, <1>5, <1>6, <1>7, JobBecomes, Zenon

LEMMA WeighKeeps ==
    ASSUME JobsOK, UNCHANGED given, NEW c \in Crawls, Weigh(c)
    PROVE  JobsOK'
<1> DEFINE s == crawl[c]
           n == CHOOSE x \in s.left : TRUE
           left == s.left \ {n}
           best == Richness(n)
           t == [s EXCEPT !.left = left, !.keep = n, !.best = best]
           u == [s EXCEPT !.left = left]
<1>1. /\ Good(s) /\ given \in Settings /\ Whole(db) /\ s \in JobStates /\ s.pc = "weigh"
      /\ s.number \in Numbers
    BY GoodNow DEF Good, Weigh, Fits, Working, Holding
<1>2. n \in Numbers /\ n \in Numbers \union {NoNumber} /\ left \in SUBSET Numbers /\ best \in {0, 1}
    BY <1>1 DEF JobStates, Weigh, Richness
<1>3. t \in JobStates /\ u \in JobStates
    <2> HIDE DEF left, best, n, s
    <2> QED BY <1>1, <1>2, FieldUpdates, Zenon
<1>4. /\ t.pc = "weigh" /\ t.queue = s.queue /\ t.seen = s.seen /\ t.tried = s.tried
      /\ t.ingested = s.ingested /\ t.depth = s.depth /\ t.number = s.number /\ t.keep = n
    BY <1>1 DEF JobStates
<1>5. /\ u.pc = "weigh" /\ u.queue = s.queue /\ u.seen = s.seen /\ u.tried = s.tried
      /\ u.ingested = s.ingested /\ u.depth = s.depth /\ u.number = s.number
      /\ u.keep = s.keep
    BY <1>1 DEF JobStates
<1>6. /\ UNCHANGED <<db, people>>
      /\ Become(c, IF Wins(n, best, s.keep, s.best) THEN t ELSE u)
    BY Zenon DEF Weigh
<1>7. ~Wins(n, best, s.keep, s.best) => s.keep \in Numbers
    BY <1>1 DEF Wins, JobStates
<1> HIDE DEF t, u, s, n, best
<1>8. Good(t)
    <2>1. Fits(t)
        BY <1>1, <1>2, <1>4 DEF Fits
    <2> QED BY <1>1, <1>3, <1>4, <2>1, GoesOn DEF Resting
<1>9. ~Wins(n, best, s.keep, s.best) => Good(u)
    <2>1. ~Wins(n, best, s.keep, s.best) => Fits(u)
        BY <1>1, <1>5, <1>7 DEF Fits
    <2> QED BY <1>1, <1>3, <1>5, <2>1, GoesOn DEF Resting
<1> QED BY <1>1, <1>6, <1>8, <1>9, JobBecomes, Zenon

LEMMA AllWeighedKeeps ==
    ASSUME JobsOK, UNCHANGED given, NEW c \in Crawls, AllWeighed(c)
    PROVE  JobsOK'
<1> DEFINE s == crawl[c]
           left == s.found \ {s.keep}
           t == [s EXCEPT !.pc = "merge", !.left = left]
<1>1. /\ Good(s) /\ given \in Settings /\ Whole(db) /\ s \in JobStates /\ s.pc = "weigh"
      /\ s.number \in Numbers /\ s.keep \in Numbers
    BY GoodNow DEF Good, AllWeighed, Fits, Working, Holding
<1>2. left \in SUBSET Numbers /\ s.keep \notin left
    BY <1>1 DEF JobStates
<1>3. t \in JobStates
    <2> HIDE DEF left, s
    <2> QED BY <1>1, <1>2, FieldUpdates, Zenon DEF Phases
<1>4. /\ t.pc = "merge" /\ t.queue = s.queue /\ t.seen = s.seen /\ t.tried = s.tried
      /\ t.ingested = s.ingested /\ t.depth = s.depth /\ t.number = s.number
      /\ t.keep = s.keep /\ t.left = left
    BY <1>1 DEF JobStates
<1>5. Become(c, t) /\ UNCHANGED <<db, people>>
    BY Zenon DEF AllWeighed
<1> HIDE DEF t, s, left
<1>6. Good(t)
    <2>1. Fits(t)
        BY <1>1, <1>2, <1>4 DEF Fits
    <2> QED BY <1>1, <1>3, <1>4, <2>1, GoesOn DEF Resting, Working, Holding
<1> QED BY <1>1, <1>5, <1>6, JobBecomes, Zenon

LEMMA MergeDuplicateKeeps ==
    ASSUME JobsOK, UNCHANGED given, NEW c \in Crawls, MergeDuplicate(c)
    PROVE  JobsOK'
<1> DEFINE s == crawl[c]
           n == CHOOSE x \in s.left : TRUE
           left == s.left \ {n}
           t == [s EXCEPT !.left = left]
<1>1. /\ Good(s) /\ given \in Settings /\ Whole(db) /\ s \in JobStates /\ s.pc = "merge"
      /\ s.number \in Numbers /\ s.keep \in Numbers /\ s.keep \notin s.left
    BY GoodNow DEF Good, MergeDuplicate, Fits, Working, Holding
<1>2. n \in Numbers /\ n # s.keep /\ left \in SUBSET Numbers
    BY <1>1 DEF JobStates, MergeDuplicate
<1>3. t \in JobStates
    <2> HIDE DEF left, s
    <2> QED BY <1>1, <1>2, FieldUpdates, Zenon
<1>4. /\ t.pc = "merge" /\ t.queue = s.queue /\ t.seen = s.seen /\ t.tried = s.tried
      /\ t.ingested = s.ingested /\ t.depth = s.depth /\ t.number = s.number
      /\ t.keep = s.keep /\ t.left = left
    BY <1>1 DEF JobStates
<1>5. /\ UNCHANGED people
      /\ \/ CanMerge(db, s.keep, n) /\ db' = AfterMerge(db, s.keep, n) /\ Become(c, t)
         \/ UNCHANGED db /\ Become(c, Stopped(s, "aborted"))
    BY Zenon DEF MergeDuplicate
<1>6. Whole(db')
    <2> HIDE DEF t, s, n
    <2>1. CASE UNCHANGED db
        BY <1>1, <2>1
    <2>2. CASE CanMerge(db, s.keep, n) /\ db' = AfterMerge(db, s.keep, n)
        BY <1>1, <1>2, <2>2, MergeIsWhole, Zenon
    <2> QED BY <1>5, <2>1, <2>2
<1>7. Good(Stopped(s, "aborted"))
    BY <1>1, StoppedIsGood DEF Resting
<1>8. Good(t)
    <2> HIDE DEF t, s, n
    <2>1. Fits(t)
        BY <1>1, <1>4 DEF Fits
    <2> QED BY <1>1, <1>3, <1>4, <2>1, GoesOn DEF Resting
<1> HIDE DEF t, s, n
<1> QED BY <1>5, <1>6, <1>7, <1>8, JobBecomes, Zenon DEF s

LEMMA AllMergedKeeps ==
    ASSUME JobsOK, UNCHANGED given, NEW c \in Crawls, AllMerged(c)
    PROVE  JobsOK'
<1> DEFINE s == crawl[c]
           t == [s EXCEPT !.pc = "link"]
<1>1. /\ Good(s) /\ given \in Settings /\ Whole(db) /\ s \in JobStates /\ s.pc = "merge"
      /\ s.number \in Numbers /\ s.keep \in Numbers
    BY GoodNow DEF Good, AllMerged, Fits, Working, Holding
<1>2. t \in JobStates
    BY <1>1, FieldUpdates, Zenon DEF Phases
<1>3. /\ t.pc = "link" /\ t.queue = s.queue /\ t.seen = s.seen /\ t.tried = s.tried
      /\ t.ingested = s.ingested /\ t.depth = s.depth /\ t.number = s.number /\ t.keep = s.keep
    BY <1>1 DEF JobStates
<1>4. Become(c, t) /\ UNCHANGED <<db, people>>
    BY DEF AllMerged
<1> HIDE DEF t, s
<1>5. Good(t)
    <2>1. Fits(t)
        BY <1>1, <1>3 DEF Fits
    <2> QED BY <1>1, <1>2, <1>3, <2>1, GoesOn DEF Resting, Working, Holding
<1> QED BY <1>1, <1>4, <1>5, JobBecomes, Zenon

LEMMA LinkNeighbourKeeps ==
    ASSUME JobsOK, UNCHANGED given, NEW c \in Crawls, LinkNeighbour(c)
    PROVE  JobsOK'
<1> DEFINE s == crawl[c]
           rel == Head(s.rels)
           rels == Tail(s.rels)
           stubs == IF RecordOf(db, rel.to) = NoNumber THEN s.stubs \union {rel.to} ELSE s.stubs
           edges == s.edges \union {<<s.keep, FarEnd(rel.to), rel.kind>>}
           queue == Queued(s, rel)
           seen == s.seen \union {rel.to}
           t == [s EXCEPT !.rels = rels, !.stubs = stubs, !.edges = edges, !.queue = queue,
                          !.seen = seen]
<1>1. /\ Good(s) /\ given \in Settings /\ Whole(db) /\ s \in JobStates /\ s.pc = "link"
      /\ s.number \in Numbers /\ s.keep \in Numbers /\ s.queue \in Queues /\ s.depth \in Nat
      /\ s.rels \in RelLists /\ s.rels # <<>>
    BY GoodNow DEF Good, LinkNeighbour, Fits, Working, Holding, JobStates, Queues, RelLists
<1>2. rel \in [to : Numbers, kind : Kinds] /\ rels \in RelLists
    <2> DEFINE T == [to : Numbers, kind : Kinds]
    <2>1. s.rels \in Seq(T) /\ s.rels # <<>>
        BY <1>1 DEF RelLists
    <2> HIDE DEF T, s
    <2>2. rel \in T /\ rels \in Seq(T)
        BY <2>1, SequenceFacts, Zenon
    <2> QED BY <2>2 DEF T, RelLists
<1>3. rel.to \in Numbers /\ rel.kind \in Kinds /\ FarEnd(rel.to) \in Numbers
    <2> HIDE DEF rel
    <2> QED BY <1>1, <1>2, RecordsAreNumbers DEF FarEnd
<1>4. /\ stubs \in SUBSET Numbers /\ seen \in SUBSET Numbers
      /\ edges \in SUBSET (Numbers \X Numbers \X Kinds)
    <2> HIDE DEF rel
    <2> QED BY <1>1, <1>3 DEF JobStates
<1> DEFINE far == [number |-> rel.to, depth |-> s.depth + 1]
<1>5. \/ queue = s.queue
      \/ /\ queue = Append(s.queue, far) /\ rel.to \notin s.seen /\ s.depth < DepthLimit
         /\ far \in [number : Numbers, depth : Nat] /\ far.number = rel.to /\ far.depth = s.depth + 1
    BY <1>1, <1>3 DEF Queued
<1>6. /\ queue \in Queues
      /\ \A i \in DOMAIN queue :
             \/ i \in DOMAIN s.queue /\ queue[i] = s.queue[i]
             \/ /\ i = Len(s.queue) + 1 /\ i \notin DOMAIN s.queue /\ queue[i] = far
                /\ far.number = rel.to /\ rel.to \notin s.seen
                /\ far.depth = s.depth + 1 /\ s.depth < DepthLimit
    <2>1. CASE queue = s.queue
        BY <1>1, <2>1
    <2>2. CASE queue # s.queue
        <3> DEFINE T == [number : Numbers, depth : Nat]
        <3>1. s.queue \in Seq(T) /\ far \in T /\ queue = Append(s.queue, far)
            BY <1>1, <1>5, <2>2 DEF Queues
        <3> HIDE DEF T, s, queue, far
        <3>2. /\ queue \in Seq(T)
              /\ \A i \in DOMAIN queue :
                     \/ i \in DOMAIN s.queue /\ queue[i] = s.queue[i]
                     \/ i = Len(s.queue) + 1 /\ i \notin DOMAIN s.queue /\ queue[i] = far
            BY <3>1, AppendFacts
        <3> QED BY <1>5, <2>2, <3>2 DEF T, Queues
    <2> QED BY <2>1, <2>2
<1>7. t \in JobStates
    <2> HIDE DEF rels, stubs, edges, queue, seen, s
    <2> QED BY <1>1, <1>2, <1>4, <1>6, FieldUpdates, Zenon
<1>8. /\ t.pc = "link" /\ t.queue = queue /\ t.seen = seen /\ t.tried = s.tried
      /\ t.ingested = s.ingested /\ t.depth = s.depth /\ t.number = s.number /\ t.keep = s.keep
    BY <1>1 DEF JobStates
<1>9. Become(c, t) /\ UNCHANGED <<db, people>>
    BY Zenon DEF LinkNeighbour
<1> HIDE DEF t, s, rel, rels, stubs, edges, queue, far
<1>10. Fits(t)
    BY <1>1, <1>8 DEF Fits
<1>11. Bounded(t)
    <2>1. /\ DepthLimit \in Nat /\ s.ingested <= NodeBudget /\ s.ingested < NodeBudget
          /\ s.depth <= DepthLimit /\ \A i \in DOMAIN s.queue : s.queue[i].depth <= DepthLimit
        BY <1>1, GivenTypes DEF Good, Bounded, Working, Holding
    <2>2. \A i \in DOMAIN queue : queue[i].depth <= DepthLimit
        BY <1>1, <1>6, <2>1
    <2> QED BY <1>8, <2>1, <2>2 DEF Bounded
<1>12. QueueIsNew(t)
    <2>1. /\ s.tried \subseteq s.seen
          /\ \A i \in DOMAIN s.queue : s.queue[i].number \in s.seen \ s.tried
          /\ \A i, j \in DOMAIN s.queue : s.queue[i].number = s.queue[j].number => i = j
        BY <1>1 DEF Good, QueueIsNew, Resting
    <2>2. s.seen \subseteq seen /\ rel.to \in seen
        BY DEF seen
    <2>3. \A i \in DOMAIN queue : queue[i].number \in seen \ s.tried
        BY <1>6, <2>1, <2>2
    <2>4. ASSUME NEW i \in DOMAIN queue, NEW j \in DOMAIN queue, queue[i].number = queue[j].number
          PROVE  i = j
        BY <1>6, <2>1, <2>4
    <2> QED BY <1>8, <2>1, <2>2, <2>3, <2>4 DEF QueueIsNew
<1> QED BY <1>1, <1>7, <1>9, <1>10, <1>11, <1>12, JobBecomes, Zenon DEF Good

LEMMA AllLinkedKeeps ==
    ASSUME JobsOK, UNCHANGED given, NEW c \in Crawls, AllLinked(c)
    PROVE  JobsOK'
<1> DEFINE s == crawl[c]
           t == [s EXCEPT !.pc = "save"]
<1>1. /\ Good(s) /\ given \in Settings /\ Whole(db) /\ s \in JobStates /\ s.pc = "link"
      /\ s.number \in Numbers /\ s.keep \in Numbers
    BY GoodNow DEF Good, AllLinked, Fits, Working, Holding
<1>2. t \in JobStates
    BY <1>1, FieldUpdates, Zenon DEF Phases
<1>3. /\ t.pc = "save" /\ t.queue = s.queue /\ t.seen = s.seen /\ t.tried = s.tried
      /\ t.ingested = s.ingested /\ t.depth = s.depth /\ t.number = s.number /\ t.keep = s.keep
    BY <1>1 DEF JobStates
<1>4. Become(c, t) /\ UNCHANGED <<db, people>>
    BY DEF AllLinked
<1> HIDE DEF t, s
<1>5. Good(t)
    <2>1. Fits(t)
        BY <1>1, <1>3 DEF Fits
    <2> QED BY <1>1, <1>2, <1>3, <2>1, GoesOn DEF Resting, Working, Holding
<1> QED BY <1>1, <1>4, <1>5, JobBecomes, Zenon

LEMMA SaveNodeKeeps ==
    ASSUME JobsOK, UNCHANGED given, NEW c \in Crawls, SaveNode(c)
    PROVE  JobsOK'
<1> DEFINE s == crawl[c]
           u == ToNext(s)
           t == [u EXCEPT !.ingested = @ + 1]
<1>1. /\ Good(s) /\ given \in Settings /\ Whole(db) /\ s \in JobStates /\ s.pc = "save"
      /\ s.keep \in Numbers /\ s.ingested < NodeBudget
    BY GoodNow DEF Good, SaveNode, Fits, Bounded, Working, Holding
<1>2. Good(u) /\ u \in JobStates /\ u.pc = "next" /\ u.ingested = s.ingested /\ u.ingested \in Nat
    <2>1. Good(u)
        BY <1>1, NextIsGood DEF Resting
    <2>2. u \in JobStates
        BY <2>1 DEF Good
    <2>3. u.pc = "next" /\ u.ingested = s.ingested
        BY DEF ToNext, Stopped, Idle
    <2>4. s.ingested \in Nat
        BY <1>1 DEF JobStates
    <2> QED BY <2>1, <2>2, <2>3, <2>4
<1>3. /\ UNCHANGED people
      /\ \/ CanSaveNode(db, Node(s)) /\ db' = AfterSaveNode(db, Node(s)) /\ Become(c, t)
         \/ UNCHANGED db /\ Become(c, Stopped(s, "aborted"))
    BY Zenon DEF SaveNode
<1>4. Node(s) \in NodeBatches
    BY <1>1 DEF Node, NodeBatches, JobStates
<1>5. Whole(db')
    <2> HIDE DEF s, t
    <2> QED BY <1>1, <1>3, <1>4, NodeIsWhole, Zenon
<1>6. Good(Stopped(s, "aborted"))
    BY <1>1, StoppedIsGood DEF Resting
<1> HIDE DEF u
<1>7. /\ t \in JobStates /\ t.pc = "next" /\ t.ingested = s.ingested + 1 /\ t.queue = u.queue
      /\ t.seen = u.seen /\ t.tried = u.tried /\ t.depth = u.depth
    <2>1. u.ingested + 1 \in Nat
        BY <1>2
    <2>2. t \in JobStates
        BY <1>2, <2>1, FieldUpdates, Zenon
    <2>3. t.pc = "next" /\ t.ingested = s.ingested + 1
        BY <1>2 DEF JobStates
    <2>4. t.queue = u.queue /\ t.seen = u.seen
        BY <1>2 DEF JobStates
    <2>5. t.tried = u.tried /\ t.depth = u.depth
        BY <1>2 DEF JobStates
    <2> QED BY <2>2, <2>3, <2>4, <2>5
<1> HIDE DEF t
<1>8. Good(t)
    <2>1. NodeBudget \in Nat
        BY <1>1, GivenTypes
    <2>2. Fits(t) /\ Bounded(t)
        BY <1>1, <1>2, <1>7, <2>1 DEF Good, Fits, Bounded, Working, Holding, JobStates
    <2>3. QueueIsNew(t)
        BY <1>2, <1>7 DEF Good, QueueIsNew
    <2> QED BY <1>7, <2>2, <2>3 DEF Good
<1> HIDE DEF s
<1> QED BY <1>3, <1>5, <1>6, <1>8, JobBecomes, Zenon DEF s

LEMMA LookUpRootKeeps ==
    ASSUME JobsOK, Rooted, UNCHANGED given, NEW c \in Crawls, LookUpRoot(c)
    PROVE  JobsOK'
<1> DEFINE s == crawl[c]
           r == RecordOf(db, Root[c])
           t == [s EXCEPT !.pc = "read", !.keep = r]
<1>1. Good(s) /\ given \in Settings /\ Whole(db) /\ s \in JobStates /\ s.pc = "next"
    BY GoodNow DEF Good, LookUpRoot
<1>2. \/ Become(c, Stopped(s, "failed")) /\ UNCHANGED <<db, people>>
      \/ Become(c, t) /\ r # NoNumber /\ UNCHANGED <<db, people>>
    BY Zenon DEF LookUpRoot
<1>3. Good(Stopped(s, "failed"))
    BY <1>1, StoppedIsGood DEF Resting
<1>4. ASSUME NEW x \in Numbers
      PROVE  Good([s EXCEPT !.pc = "read", !.keep = x])
    <2> DEFINE u == [s EXCEPT !.pc = "read", !.keep = x]
    <2>1. u \in JobStates
        BY <1>1, FieldUpdates, Zenon DEF Phases
    <2>2. /\ u.pc = "read" /\ u.queue = s.queue /\ u.seen = s.seen /\ u.tried = s.tried
          /\ u.ingested = s.ingested /\ u.depth = s.depth /\ u.keep = x
        BY <1>1 DEF JobStates
    <2> HIDE DEF u, s
    <2>3. Fits(u)
        BY <2>2 DEF Fits, Working, Holding
    <2>4. Good(u)
        BY <1>1, <2>1, <2>2, <2>3, GoesOn DEF Resting, Working, Holding
    <2> QED BY <2>4 DEF u
<1>5. r # NoNumber => r \in Numbers
    <2>1. Root[c] \in Numbers
        BY <1>1, GivenTypes DEF Rooted
    <2> QED BY <1>1, <2>1 DEF Whole, Databases, RecordOf
<1> QED BY <1>1, <1>2, <1>3, <1>4, <1>5, JobBecomes, Zenon

LEMMA ReadRootKeeps ==
    ASSUME JobsOK, UNCHANGED given, NEW c \in Crawls, ReadRoot(c)
    PROVE  JobsOK'
<1> DEFINE s == crawl[c]
           r == RecordFor(db, s.keep)
           t == [s EXCEPT !.pc = "promote", !.keep = r]
<1>1. /\ Good(s) /\ given \in Settings /\ Whole(db) /\ s \in JobStates /\ s.pc = "read"
      /\ s.keep \in Numbers
    BY GoodNow DEF Good, ReadRoot, Fits
<1>2. /\ UNCHANGED <<db, people>>
      /\ Become(c, Stopped(s, "failed")) \/ Become(c, Stopped(s, "done")) \/ Become(c, t)
    BY Zenon DEF ReadRoot
<1>3. Good(Stopped(s, "failed")) /\ Good(Stopped(s, "done"))
    BY <1>1, StoppedIsGood DEF Resting
<1>4. r \in Numbers /\ r \in Numbers \union {NoNumber}
    BY <1>1, RecordsAreNumbers
<1>5. t \in JobStates
    <2> HIDE DEF r, s
    <2> QED BY <1>1, <1>4, FieldUpdates, Zenon DEF Phases
<1>6. /\ t.pc = "promote" /\ t.queue = s.queue /\ t.seen = s.seen /\ t.tried = s.tried
      /\ t.ingested = s.ingested /\ t.depth = s.depth /\ t.keep = r
    BY <1>1 DEF JobStates
<1> HIDE DEF t, r
<1>7. Good(t)
    <2> HIDE DEF s
    <2>1. Fits(t)
        BY <1>4, <1>6 DEF Fits, Working, Holding
    <2> QED BY <1>1, <1>5, <1>6, <2>1, GoesOn DEF Resting, Working, Holding
<1> QED BY <1>1, <1>2, <1>3, <1>7, JobBecomes, Zenon

LEMMA PromoteRootKeeps ==
    ASSUME JobsOK, UNCHANGED given, NEW c \in Crawls, PromoteRoot(c)
    PROVE  JobsOK'
<1> DEFINE s == crawl[c]
<1>1. Good(s) /\ given \in Settings /\ Whole(db) /\ s.pc = "promote" /\ s.keep \in Numbers
    BY GoodNow DEF Good, PromoteRoot, Fits
<1>2. BareRecord(s.keep) \in NodeBatches /\ CanSaveNode(db, BareRecord(s.keep))
    BY <1>1 DEF BareRecord, NodeBatches, CanSaveNode
<1>3. Whole(db')
    BY <1>1, <1>2, NodeIsWhole, Zenon DEF PromoteRoot
<1>4. Good(Stopped(s, "done")) /\ UNCHANGED people /\ Become(c, Stopped(s, "done"))
    BY <1>1, StoppedIsGood DEF Resting, PromoteRoot
<1> QED BY <1>3, <1>4, JobBecomes, Zenon

LEMMA PeopleKeep ==
    ASSUME JobsOK, UNCHANGED given,
           \/ \E n \in DOMAIN World : LookUpToAdd(n)
           \/ AddPatent
           \/ AddDocument
           \/ \E p \in Projects, n \in Numbers, state \in ReviewStates : Curate(p, n, state)
           \/ \E n \in Numbers : SoftDelete(n)
    PROVE  JobsOK'
<1> DEFINE Addings == [number : Numbers, pc : {"patent", "document"}] \union {Nothing}
<1>1. given \in Settings /\ Whole(db) /\ adding \in Addings /\ edits \in Nat
    BY DEF JobsOK, TypeOK, Whole
<1>2. ASSUME NEW n \in DOMAIN World, LookUpToAdd(n)
      PROVE  JobsOK'
    <2>1. n \in Numbers
        BY <1>1, GivenTypes
    <2> QED BY <1>1, <1>2, <2>1, EditKeepsJobs DEF LookUpToAdd, Edit
<1>3. CASE AddPatent
    <2>1. adding.number \in Numbers /\ [adding EXCEPT !.pc = "document"] \in Addings
        BY <1>1, <1>3 DEF AddPatent, Nothing
    <2>2. Whole(db')
        BY <1>1, <1>3, <2>1, SavePatentIsWhole, Zenon DEF AddPatent
    <2> QED BY <1>1, <1>3, <2>1, <2>2, EditKeepsJobs DEF AddPatent
<1>4. CASE AddDocument
    <2>1. adding.number \in Numbers
        BY <1>1, <1>4 DEF AddDocument, Nothing
    <2>2. Whole(db')
        BY <1>1, <1>4, <2>1, SaveDocumentIsWhole, Zenon DEF AddDocument
    <2> QED BY <1>1, <1>4, <2>2, EditKeepsJobs DEF AddDocument
<1>5. ASSUME NEW p \in Projects, NEW n \in Numbers, NEW state \in ReviewStates, Curate(p, n, state)
      PROVE  JobsOK'
    <2>1. Whole(AfterAddMembership(db, p, n, state))
        BY <1>1, <1>5, AddMembershipIsWhole, Zenon DEF Curate, CanAddMembership
    <2>2. Whole(db')
        BY <1>5, <2>1, SetStatesIsWhole, Zenon DEF Curate
    <2> QED BY <1>1, <1>5, <2>2, EditKeepsJobs DEF Curate, Edit
<1>6. ASSUME NEW n \in Numbers, SoftDelete(n)
      PROVE  JobsOK'
    <2>1. {n} \in SUBSET Numbers
        OBVIOUS
    <2>2. Whole(db')
        BY <1>1, <1>6, <2>1, SoftDeleteIsWhole, Zenon DEF SoftDelete
    <2> QED BY <1>1, <1>6, <2>2, EditKeepsJobs DEF SoftDelete, Edit
<1> QED BY <1>2, <1>3, <1>4, <1>5, <1>6, Zenon

\* A step of a job that has begun and not ended is a step of that job alone.
LEMMA JobSteps ==
    ASSUME NEW c \in Crawls, CrawlStep(c) \/ Cancel(c)
    PROVE  crawl[c].pc \notin Resting /\ UNCHANGED people /\ \E t : Become(c, t)
BY Zenon DEF CrawlStep, Cancel, Resting, Fetch, FetchFails, FetchStored, ReadRelations, LookUpUnfetched,
    SaveStub, ResolveCandidate, AllResolved, Weigh, AllWeighed, MergeDuplicate, AllMerged,
    LinkNeighbour, AllLinked, SaveNode, LookUpRoot, ReadRoot, PromoteRoot

LEMMA CrawlStepKeeps ==
    ASSUME JobsOK, Rooted, UNCHANGED given, NEW c \in Crawls, CrawlStep(c)
    PROVE  JobsOK'
BY FetchKeeps, FetchFailsKeeps, FetchStoredKeeps, ReadRelationsKeeps, LookUpUnfetchedKeeps,
   SaveStubKeeps, ResolveCandidateKeeps, AllResolvedKeeps, WeighKeeps, AllWeighedKeeps,
   MergeDuplicateKeeps, AllMergedKeeps, LinkNeighbourKeeps, AllLinkedKeeps, SaveNodeKeeps,
   LookUpRootKeeps, ReadRootKeeps, PromoteRootKeeps, Zenon DEF CrawlStep

LEMMA InitIsOK == Init => IInv
<1> SUFFICES ASSUME Init PROVE IInv
    OBVIOUS
<1>1. given \in Settings /\ db = given.stored /\ Whole(db)
    BY GivenTypes DEF Init
<1>2. Good(Idle) /\ Idle.pc = "idle"
    BY <1>1, IdleIsGood DEF Idle
<1>3. \A c \in Crawls : crawl[c] = Idle
    BY DEF Init
<1>4. crawl \in [Crawls -> JobStates]
    BY <1>2 DEF Init, Good
<1> QED BY <1>1, <1>2, <1>3, <1>4 DEF Init, IInv, JobsOK, Rooted, TypeOK, Whole

LEMMA StepKeeps == IInv /\ [Next /\ UNCHANGED given]_<<given, vars>> => IInv'
<1> SUFFICES ASSUME IInv, [Next /\ UNCHANGED given]_<<given, vars>>
             PROVE  IInv'
    OBVIOUS
<1>1. JobsOK /\ Rooted /\ \A c \in Crawls : crawl[c].pc = "idle" \/ Root[c] # NoNumber
    BY DEF IInv, Rooted
<1>2. CASE UNCHANGED <<given, vars>>
    BY <1>1, <1>2 DEF vars, IInv, JobsOK, Rooted, TypeOK, Good, Bounded, NodeBudget, DepthLimit, Root
<1>3. ASSUME UNCHANGED given, NEW c \in Crawls, CrawlStep(c) \/ Cancel(c)
      PROVE  IInv'
    <2>1. JobsOK'
        BY <1>1, <1>3, CrawlStepKeeps, CancelKeeps, Zenon
    <2>2. PICK t : Become(c, t)
        BY <1>3, JobSteps, Zenon
    <2>3. \A d \in Crawls : d # c => crawl'[d] = crawl[d]
        BY <2>2, GoodNow, <1>1 DEF Become
    <2>4. crawl[c].pc # "idle"
        BY <1>3, JobSteps, Zenon DEF Resting
    <2> QED BY <1>1, <1>3, <2>1, <2>3, <2>4 DEF IInv, Rooted, Root
<1>4. ASSUME UNCHANGED given, NEW c \in Crawls, NEW force \in BOOLEAN, StartCrawl(c, force)
      PROVE  IInv'
    <2>1. JobsOK'
        BY <1>1, <1>4, StartKeeps, Zenon
    <2>2. \A d \in Crawls : d # c => crawl'[d] = crawl[d]
        BY <1>1, <1>4, GoodNow DEF StartCrawl, Become
    <2> QED BY <1>1, <1>4, <2>1, <2>2 DEF IInv, Rooted, Root, StartCrawl
<1>5. ASSUME UNCHANGED given, JobsOK', UNCHANGED crawl
      PROVE  IInv'
    BY <1>1, <1>5 DEF IInv, Rooted, Root
<1> DEFINE Person == \/ \E n \in DOMAIN World : LookUpToAdd(n)
                     \/ AddPatent
                     \/ AddDocument
                     \/ \E p \in Projects, n \in Numbers, state \in ReviewStates : Curate(p, n, state)
                     \/ \E n \in Numbers : SoftDelete(n)
<1>6. Person => UNCHANGED crawl
    BY Zenon DEF LookUpToAdd, AddPatent, AddDocument, Curate, SoftDelete
<1>7. CASE UNCHANGED given /\ Person
    <2>1. JobsOK'
        BY <1>1, <1>7, PeopleKeep
    <2> QED BY <1>5, <1>6, <1>7, <2>1
<1>8. UNCHANGED <<given, vars>> \/ (UNCHANGED given /\ Next)
    OBVIOUS
<1> HIDE DEF Person
<1>9. Next => \/ \E c \in Crawls : CrawlStep(c) \/ Cancel(c)
              \/ \E c \in Crawls, force \in BOOLEAN : StartCrawl(c, force)
              \/ Person
    BY Zenon DEF Next, Person
<1> QED BY <1>2, <1>3, <1>4, <1>7, <1>8, <1>9, Zenon

\* Who moves a job.
LEMMA OwnStep ==
    ASSUME JobsOK, [Next /\ UNCHANGED given]_<<given, vars>>, NEW c \in Crawls, crawl'[c] # crawl[c]
    PROVE  CrawlStep(c) \/ Cancel(c) \/ \E force \in BOOLEAN : StartCrawl(c, force)
<1>1. crawl' # crawl
    OBVIOUS
<1>2. PICK d \in Crawls : CrawlStep(d) \/ Cancel(d) \/ \E force \in BOOLEAN : StartCrawl(d, force)
    BY <1>1, Zenon DEF vars, Next, LookUpToAdd, AddPatent, AddDocument, Curate, SoftDelete
<1>3. PICK t : Become(d, t)
    BY <1>2, JobSteps, Zenon DEF StartCrawl
<1>4. d = c
    BY <1>3, GoodNow DEF Become
<1> QED BY <1>2, <1>4

THEOREM Invariance == Spec => []IInv
BY InitIsOK, StepKeeps, PTL DEF Spec

\* Whatever the jobs and the people do, every variable keeps its type: a job never
\* merges, links or saves under a number it has not found (crawl.go:530-600).
THEOREM TypesHold == Spec => []TypeOK
<1>1. IInv => TypeOK
    BY DEF IInv, JobsOK
<1> QED BY <1>1, Invariance, PTL

\* However the calls of the jobs and of the people interleave, every row that names a
\* record names one there is (the foreign keys of schema.sql).
THEOREM TablesStayWhole == Spec => []ReferentialIntegrity
<1>1. IInv => ReferentialIntegrity
    BY DEF IInv, JobsOK, ReferentialIntegrity
<1> QED BY <1>1, Invariance, PTL

\* No job goes deeper than its limit or saves more nodes than its budget, however many
\* jobs share the tables (crawl.go:264-266, 480-487).
THEOREM LimitsHold == Spec => []WithinLimits
<1>1. IInv => WithinLimits
    BY DEF IInv, JobsOK, Good, Bounded, WithinLimits
<1> QED BY <1>1, Invariance, PTL

\* A job asks for each number once, though many edges lead to it: what waits in its
\* queue was never asked for (crawl.go:478-488).
THEOREM AskedOnce == Spec => NumbersAreTriedOnce
<1> DEFINE Once == \A c \in Crawls :
                      crawl[c].pc = "next" /\ crawl'[c].pc \in {"resolve", "relations", "unfetched"} =>
                          Head(crawl[c].queue).number \notin crawl[c].tried
<1>1. IInv /\ [Next /\ UNCHANGED given]_<<given, vars>> => Once
    <2> SUFFICES ASSUME IInv, [Next /\ UNCHANGED given]_<<given, vars>>, NEW c \in Crawls,
                        crawl[c].pc = "next", crawl'[c].pc \in {"resolve", "relations", "unfetched"}
                 PROVE  Head(crawl[c].queue).number \notin crawl[c].tried
        OBVIOUS
    <2>1. JobsOK /\ Good(crawl[c]) /\ given \in Settings
        BY GoodNow DEF IInv
    <2>2. CASE crawl[c].queue # <<>>
        BY <2>1, <2>2, QueueTail
    <2>3. CASE crawl[c].queue = <<>>
        <3>1. ~HasWork(crawl[c])
            BY <2>3 DEF HasWork
        <3>2. crawl'[c] # crawl[c]
            OBVIOUS
        <3>3. CrawlStep(c) \/ Cancel(c)
            <4>1. CrawlStep(c) \/ Cancel(c) \/ \E force \in BOOLEAN : StartCrawl(c, force)
                BY <2>1, <3>2, OwnStep, Zenon
            <4>2. (\E force \in BOOLEAN : StartCrawl(c, force)) => crawl[c].pc = "idle"
                BY Zenon DEF StartCrawl
            <4> QED BY <4>1, <4>2
        <3>4. LookUpRoot(c) \/ Cancel(c)
            BY <3>1, <3>3, Zenon DEF CrawlStep, Fetch, FetchFails, FetchStored, ReadRelations,
               LookUpUnfetched, SaveStub, ResolveCandidate, AllResolved, Weigh, AllWeighed,
               MergeDuplicate, AllMerged, LinkNeighbour, AllLinked, SaveNode, ReadRoot, PromoteRoot
        <3> DEFINE r == RecordOf(db, Root[c])
                   u == [crawl[c] EXCEPT !.pc = "read", !.keep = r]
        <3>5. /\ Stopped(crawl[c], "failed").pc = "failed" /\ Stopped(crawl[c], "done").pc = "done"
              /\ u.pc = "read"
            BY <2>1 DEF Stopped, Idle, Good, JobStates
        <3>6. \/ Become(c, Stopped(crawl[c], "failed")) \/ Become(c, Stopped(crawl[c], "done"))
              \/ Become(c, u)
            BY <3>4, Zenon DEF LookUpRoot, Cancel
        <3> HIDE DEF u
        <3> QED BY <2>1, <3>5, <3>6, GoodNow DEF Become
    <2> QED BY <2>2, <2>3
<1> QED BY <1>1, Invariance, PTL DEF Spec, NumbersAreTriedOnce

(***************************************************************************)
(* One job alone: what it finds out about its node stays true until the    *)
(* node is saved.                                                          *)
(***************************************************************************)
Steady == JobsOK /\ Rooted /\ Alone /\ Orderly(given) /\ AloneInv

LEMMA SteadyNow ==
    ASSUME Steady, NEW c \in Crawls
    PROVE  /\ given \in Settings /\ Whole(db) /\ Good(crawl[c]) /\ crawl[c] \in JobStates
           /\ Answers(db) /\ Held(crawl[c], db) /\ AtTheEnd(crawl[c], db, Root[c])
           /\ crawl[c].pc # "idle" => Root[c] # NoNumber
BY GoodNow DEF Steady, AloneInv, Rooted, Good

LEMMA HeldAtRest ==
    ASSUME NEW s, NEW d, NEW root, s.pc = "idle"
    PROVE  Held(s, d) /\ AtTheEnd(s, d, root)
BY DEF Held, Fresh, AtTheEnd, Holding

LEMMA SteadyBecomes ==
    ASSUME Steady, UNCHANGED <<given, people>>, NEW c \in Crawls, Root[c] # NoNumber,
           NEW t, Become(c, t), Answers(db'), Held(t, db'), AtTheEnd(t, db', Root[c])
    PROVE  AloneInv'
<1>1. \A d \in Crawls : crawl'[d] = IF d = c THEN t ELSE crawl[d]
    BY GoodNow, Zenon DEF Steady, Become
<1>2. \A d \in Crawls : d # c => Root[d] = NoNumber
    BY DEF Steady, Alone
<1>3. \A d \in Crawls : d # c => crawl[d].pc = "idle"
    BY <1>2 DEF Steady, Rooted
<1>4. \A d \in Crawls : Held(crawl'[d], db') /\ AtTheEnd(crawl'[d], db', Root[d])
    BY <1>1, <1>3, HeldAtRest, Zenon
<1>5. adding' = Nothing
    BY DEF Steady, AloneInv, people
<1>6. Root' = Root
    BY DEF Root
<1> QED BY <1>4, <1>5, <1>6 DEF AloneInv

\* A job that stops or turns to the next number holds nothing.
LEMMA NothingIsHeld ==
    ASSUME given \in Settings, NEW s, NEW d, NEW root, NEW pc \in {"next", "done", "failed"}
    PROVE  /\ Held(Stopped(s, pc), d) /\ AtTheEnd(Stopped(s, pc), d, root)
           /\ Held(ToNext(s), d) /\ AtTheEnd(ToNext(s), d, root)
BY DEF Stopped, ToNext, Idle, Held, Fresh, AtTheEnd, Holding

LEMMA StartIsSteady ==
    ASSUME Steady, UNCHANGED given, NEW c \in Crawls, NEW force, StartCrawl(c, force)
    PROVE  AloneInv'
<1> DEFINE q == <<[number |-> Root[c], depth |-> 0]>>
           t == [Idle EXCEPT !.pc = "next", !.force = force, !.seen = {Root[c]}, !.queue = q]
<1>1. Become(c, t) /\ UNCHANGED <<db, people>> /\ Root[c] # NoNumber
    BY DEF StartCrawl
<1>2. /\ t.pc = "next" /\ t.rels = <<>> /\ t.found = {} /\ t.keep = NoNumber
      /\ t.stubs = {} /\ t.edges = {}
    BY DEF Idle
<1> HIDE DEF t
<1>3. Held(t, db) /\ AtTheEnd(t, db, Root[c])
    BY <1>2 DEF Held, Fresh, AtTheEnd, Holding
<1>4. Answers(db)
    BY DEF Steady, AloneInv
<1> QED BY <1>1, <1>3, <1>4, SteadyBecomes, Zenon

LEMMA FetchIsSteady ==
    ASSUME Steady, UNCHANGED given, NEW c \in Crawls, Fetch(c)
    PROVE  AloneInv'
<1> DEFINE s == crawl[c]
           n == Head(s.queue).number
           res == World[n]
           t == Fetched(s, res)
<1>1. /\ s \in JobStates /\ Held(s, db) /\ Answers(db) /\ s.pc = "next" /\ Root[c] # NoNumber
      /\ n \in DOMAIN World
    BY SteadyNow DEF Fetch
<1>2. Become(c, t) /\ UNCHANGED <<db, people>>
    BY DEF Fetch
<1>3. res.number \in res.docs /\ \A i \in DOMAIN res.rels : res.rels[i].to \notin res.docs
    BY <1>1 DEF Steady, Orderly, World
<1>4. /\ t.pc = "resolve" /\ t.number = res.number /\ t.docs = res.docs /\ t.rels = res.rels
      /\ t.left = {res.number} \union res.docs /\ t.found = s.found /\ t.keep = s.keep
      /\ t.stubs = s.stubs /\ t.edges = s.edges
    BY <1>1 DEF Fetched, JobStates
<1> HIDE DEF t, res, s
<1>5. Held(t, db) /\ AtTheEnd(t, db, Root[c])
    BY <1>1, <1>3, <1>4 DEF Held, Fresh, AtTheEnd, Candidates
<1> QED BY <1>1, <1>2, <1>5, SteadyBecomes, Zenon

LEMMA FetchStoredIsSteady ==
    ASSUME Steady, UNCHANGED given, NEW c \in Crawls, FetchStored(c)
    PROVE  AloneInv'
<1> DEFINE s == crawl[c]
           r == RecordFor(db, Head(s.queue).number)
           docs == DocumentsOf(db, r)
           kinds == <<"cites", "cited_by", "parent", "child">>
           t == [s EXCEPT !.pc = "relations", !.number = r, !.docs = docs, !.kinds = kinds]
<1>1. /\ s \in JobStates /\ Held(s, db) /\ Answers(db) /\ s.pc = "next" /\ Root[c] # NoNumber
      /\ Whole(db) /\ r \in db.cached
    BY SteadyNow DEF FetchStored, FromStore, IsCached
<1>2. Become(c, t) /\ UNCHANGED <<db, people>>
    BY DEF FetchStored
<1>3. r \in docs
    BY <1>1 DEF Whole, Databases, Integral, Answers, DocumentsOf
<1>4. /\ t.pc = "relations" /\ t.number = r /\ t.docs = docs /\ t.rels = s.rels
      /\ t.found = s.found /\ t.keep = s.keep /\ t.stubs = s.stubs /\ t.edges = s.edges
    BY <1>1 DEF JobStates
<1> HIDE DEF t, docs, r, s
<1>5. t.rels = <<>> /\ Fresh(t)
    BY <1>1, <1>4 DEF Held, Fresh
<1>6. Held(t, db) /\ AtTheEnd(t, db, Root[c])
    BY <1>3, <1>4, <1>5 DEF Held, AtTheEnd
<1> QED BY <1>1, <1>2, <1>6, SteadyBecomes, Zenon

LEMMA ConcatFacts ==
    ASSUME NEW T, NEW q \in Seq(T), NEW r \in Seq(T), NEW i \in DOMAIN (q \o r)
    PROVE  \/ i \in DOMAIN q /\ (q \o r)[i] = q[i]
           \/ \E j \in DOMAIN r : (q \o r)[i] = r[j]
<1>1. i \in 1..(Len(q) + Len(r)) /\ Len(q) \in Nat /\ Len(r) \in Nat
    OBVIOUS
<1>2. CASE i <= Len(q)
    BY <1>1, <1>2
<1>3. CASE i > Len(q)
    <2>1. i - Len(q) \in DOMAIN r /\ (q \o r)[i] = r[i - Len(q)]
        BY <1>1, <1>3
    <2> QED BY <2>1
<1> QED BY <1>1, <1>2, <1>3

LEMMA ReadRelationsIsSteady ==
    ASSUME Steady, UNCHANGED given, NEW c \in Crawls, ReadRelations(c)
    PROVE  AloneInv'
<1> DEFINE s == crawl[c]
           kinds == Tail(s.kinds)
<1>1. /\ s \in JobStates /\ Held(s, db) /\ Answers(db) /\ s.pc = "relations" /\ Root[c] # NoNumber
      /\ Whole(db) /\ s.rels \in RelLists /\ s.kinds \in Seq(Kinds) /\ s.kinds # <<>>
    BY SteadyNow DEF ReadRelations, Good, Fits, JobStates, RelLists
<1>2. Head(s.kinds) \in Kinds
    BY <1>1, SequenceFacts, Zenon
<1>3. PICK rows \in RelationRows(Head(s.queue).number, Head(s.kinds)) \union {<<>>} :
          LET read == [s EXCEPT !.kinds = kinds, !.rels = @ \o rows]
          IN  Become(c, IF read.kinds # <<>> THEN read ELSE Fetched(read, read))
    BY Zenon DEF ReadRelations
<1> DEFINE rels == s.rels \o rows
           t == [s EXCEPT !.kinds = kinds, !.rels = rels]
           u == Fetched(t, t)
<1>4. UNCHANGED <<db, people>> /\ (Become(c, t) \/ Become(c, u))
    BY <1>3 DEF ReadRelations
<1> HIDE DEF s
<1>5. rows \in RelLists /\ \A i \in DOMAIN rows : \E e \in db.edge : rows[i].to = e[2]
    <2> DEFINE n == Head(s.queue).number
               kind == Head(s.kinds)
    <2>1. Whole(db) /\ kind \in Kinds /\ rows \in RelationRows(n, kind) \union {<<>>}
        BY <1>1, <1>2, <1>3, Zenon DEF s
    <2> HIDE DEF n, kind
    <2> QED BY <2>1, RowsAreRelations
<1>6. \A i \in DOMAIN rows : db.doc[rows[i].to] # NoNumber
    BY <1>1, <1>5, NoNumberAssumption DEF Whole, Databases, Integral, Answers
<1>7. \A i \in DOMAIN rels : rels[i].to \in s.docs => db.doc[rels[i].to] # NoNumber
    <2>1. ASSUME NEW i \in DOMAIN rels
          PROVE  \/ i \in DOMAIN s.rels /\ rels[i] = s.rels[i]
                 \/ \E j \in DOMAIN rows : rels[i] = rows[j]
        <3> DEFINE T == [to : Numbers, kind : Kinds]
        <3>1. s.rels \in Seq(T) /\ rows \in Seq(T)
            BY <1>1, <1>5 DEF RelLists
        <3> HIDE DEF T, s
        <3> QED BY <3>1, ConcatFacts
    <2>2. \A i \in DOMAIN s.rels : s.rels[i].to \in s.docs => db.doc[s.rels[i].to] # NoNumber
        BY <1>1 DEF Held, Holding
    <2> HIDE DEF rels, s
    <2> QED BY <1>6, <2>1, <2>2
<1>8. /\ t.pc = "relations" /\ t.number = s.number /\ t.docs = s.docs /\ t.rels = rels
      /\ t.found = s.found /\ t.keep = s.keep /\ t.stubs = s.stubs /\ t.edges = s.edges
    BY <1>1 DEF JobStates
<1>9. /\ u.pc = "resolve" /\ u.number = s.number /\ u.docs = s.docs /\ u.rels = rels
      /\ u.left = {s.number} \union s.docs
      /\ u.found = s.found /\ u.keep = s.keep /\ u.stubs = s.stubs /\ u.edges = s.edges
    BY <1>1 DEF Fetched, JobStates
<1> HIDE DEF t, u, rels
<1>10. /\ s.number \in s.docs /\ s.found = {} /\ s.keep = NoNumber /\ s.stubs = {} /\ s.edges = {}
    BY <1>1 DEF Held, Fresh, Holding
<1>11. Held(t, db) /\ AtTheEnd(t, db, Root[c])
    BY <1>7, <1>8, <1>10 DEF Held, Fresh, AtTheEnd
<1>12. Held(u, db) /\ AtTheEnd(u, db, Root[c])
    BY <1>7, <1>9, <1>10 DEF Held, Fresh, AtTheEnd, Candidates
<1> QED BY <1>1, <1>4, <1>11, <1>12, SteadyBecomes, Zenon

LEMMA FetchFailsIsSteady ==
    ASSUME Steady, UNCHANGED given, NEW c \in Crawls, FetchFails(c)
    PROVE  AloneInv'
<1> DEFINE s == crawl[c]
           n == Head(s.queue).number
           q == Tail(s.queue)
           tried == s.tried \union {n}
           t == [s EXCEPT !.pc = "unfetched", !.queue = q, !.number = n, !.tried = tried]
<1>1. /\ s \in JobStates /\ Held(s, db) /\ Answers(db) /\ s.pc = "next" /\ Root[c] # NoNumber
      /\ given \in Settings
    BY SteadyNow DEF FetchFails
<1>2. UNCHANGED <<db, people>> /\ (Become(c, Stopped(s, "failed")) \/ Become(c, t))
    BY DEF FetchFails
<1>3. t.pc = "unfetched"
    BY <1>1 DEF JobStates
<1> HIDE DEF t
<1>4. Held(t, db) /\ AtTheEnd(t, db, Root[c])
    BY <1>3 DEF Held, Fresh, AtTheEnd, Holding
<1>5. Held(Stopped(s, "failed"), db) /\ AtTheEnd(Stopped(s, "failed"), db, Root[c])
    BY <1>1, NothingIsHeld
<1> QED BY <1>1, <1>2, <1>4, <1>5, SteadyBecomes, Zenon

LEMMA UnfetchedIsSteady ==
    ASSUME Steady, UNCHANGED given, NEW c \in Crawls, LookUpUnfetched(c) \/ SaveStub(c)
    PROVE  AloneInv'
<1> DEFINE s == crawl[c]
           t == [s EXCEPT !.pc = "stub"]
<1>1. /\ s \in JobStates /\ Held(s, db) /\ Answers(db) /\ s.pc \in {"unfetched", "stub"}
      /\ Root[c] # NoNumber /\ given \in Settings /\ Whole(db) /\ s.number \in Numbers
    BY SteadyNow DEF LookUpUnfetched, SaveStub, Good, Fits, Working
<1>2. Held(ToNext(s), db) /\ AtTheEnd(ToNext(s), db, Root[c])
    BY <1>1, NothingIsHeld
<1>3. CASE LookUpUnfetched(c)
    <2>1. /\ UNCHANGED <<db, people>>
          /\ Become(c, ToNext(s)) \/ (db.doc[s.number] = NoNumber /\ Become(c, t))
        BY <1>3 DEF LookUpUnfetched, RecordOf
    <2>2. t.pc = "stub" /\ t.number = s.number
        BY <1>1 DEF JobStates
    <2> HIDE DEF t
    <2>3. db.doc[s.number] = NoNumber => Held(t, db) /\ AtTheEnd(t, db, Root[c])
        BY <2>2 DEF Held, Fresh, AtTheEnd, Holding
    <2> QED BY <1>1, <1>2, <2>1, <2>3, SteadyBecomes, Zenon
<1>4. CASE SaveStub(c)
    <2>1. db.doc[s.number] = NoNumber /\ db' = AfterSaveNode(db, LoneStub(s.number))
        BY <1>1, <1>4 DEF SaveStub, Held
    <2>2. db'.rec = db.rec \union {s.number}
        BY <1>1, <2>1 DEF AfterSaveNode, LoneStub, Owner, Whole, Databases
    <2>3. \A x \in Numbers : db'.doc[x] = IF x = s.number THEN x ELSE db.doc[x]
        BY <1>1, <2>1 DEF AfterSaveNode, LoneStub, DocAfterNode, Whole, Databases
    <2>4. Answers(db')
        BY <1>1, <2>2, <2>3 DEF Answers, Whole, Databases
    <2>5. Held(ToNext(s), db') /\ AtTheEnd(ToNext(s), db', Root[c])
        BY <1>1, NothingIsHeld
    <2> QED BY <1>1, <1>4, <2>4, <2>5, SteadyBecomes, Zenon DEF SaveStub
<1> QED BY <1>3, <1>4

LEMMA CancelIsSteady ==
    ASSUME Steady, UNCHANGED given, NEW c \in Crawls, Cancel(c)
    PROVE  AloneInv'
<1> DEFINE pc == IF crawl[c].pc = "promote" THEN "done" ELSE "failed"
<1>1. /\ pc \in {"next", "done", "failed"} /\ Become(c, Stopped(crawl[c], pc))
      /\ UNCHANGED <<db, people>> /\ Root[c] # NoNumber /\ given \in Settings /\ Answers(db)
    BY SteadyNow DEF Cancel
<1>2. Held(Stopped(crawl[c], pc), db) /\ AtTheEnd(Stopped(crawl[c], pc), db, Root[c])
    BY <1>1, NothingIsHeld
<1> QED BY <1>1, <1>2, SteadyBecomes, Zenon

LEMMA ResolveCandidateIsSteady ==
    ASSUME Steady, UNCHANGED given, NEW c \in Crawls, ResolveCandidate(c)
    PROVE  AloneInv'
<1> DEFINE s == crawl[c]
           n == CHOOSE x \in s.left : TRUE
           left == s.left \ {n}
           found == s.found \union ({RecordOf(db, n)} \ {NoNumber})
           t == [s EXCEPT !.left = left, !.found = found]
<1>1. /\ s \in JobStates /\ Held(s, db) /\ Answers(db) /\ s.pc = "resolve" /\ Root[c] # NoNumber
      /\ Whole(db) /\ n \in s.left /\ n \in Numbers
    BY SteadyNow DEF ResolveCandidate, JobStates
<1>2. Become(c, t) /\ UNCHANGED <<db, people>>
    BY Zenon DEF ResolveCandidate
<1>3. /\ t.pc = "resolve" /\ t.number = s.number /\ t.docs = s.docs /\ t.rels = s.rels
      /\ t.left = left /\ t.found = found /\ t.keep = s.keep /\ t.stubs = s.stubs /\ t.edges = s.edges
    BY <1>1 DEF JobStates
<1>4. found \subseteq db.rec
    BY <1>1 DEF Held, Whole, Integral, RecordOf
<1> HIDE DEF t, s, n
<1>5. \A x \in Candidates(t) \ t.left : db.doc[x] \in t.found \union {NoNumber}
    BY <1>1, <1>3 DEF Held, Candidates, RecordOf
<1>6. Held(t, db) /\ AtTheEnd(t, db, Root[c])
    BY <1>1, <1>3, <1>4, <1>5 DEF Held, Fresh, AtTheEnd, Candidates, Holding
<1> QED BY <1>1, <1>2, <1>6, SteadyBecomes, Zenon

LEMMA AllResolvedIsSteady ==
    ASSUME Steady, UNCHANGED given, NEW c \in Crawls, AllResolved(c)
    PROVE  AloneInv'
<1> DEFINE s == crawl[c]
           t == [s EXCEPT !.pc = "link", !.keep = s.number]
           u == [s EXCEPT !.pc = "weigh", !.left = s.found]
<1>1. /\ s \in JobStates /\ Held(s, db) /\ Answers(db) /\ s.pc = "resolve" /\ Root[c] # NoNumber
      /\ s.left = {}
    BY SteadyNow DEF AllResolved
<1>2. UNCHANGED <<db, people>> /\ Become(c, IF s.found = {} THEN t ELSE u)
    BY Zenon DEF AllResolved
<1>3. /\ t.pc = "link" /\ t.number = s.number /\ t.docs = s.docs /\ t.rels = s.rels
      /\ t.found = s.found /\ t.keep = s.number /\ t.stubs = s.stubs /\ t.edges = s.edges
    BY <1>1 DEF JobStates
<1>4. /\ u.pc = "weigh" /\ u.number = s.number /\ u.docs = s.docs /\ u.rels = s.rels
      /\ u.left = s.found /\ u.found = s.found /\ u.keep = s.keep
      /\ u.stubs = s.stubs /\ u.edges = s.edges
    BY <1>1 DEF JobStates
<1> HIDE DEF t, u, s
<1>5. s.found = {} => Held(t, db) /\ AtTheEnd(t, db, Root[c])
    BY <1>1, <1>3 DEF Held, Fresh, AtTheEnd, Candidates, Holding
<1>6. Held(u, db) /\ AtTheEnd(u, db, Root[c])
    BY <1>1, <1>4 DEF Held, Fresh, AtTheEnd, Candidates, Holding
<1> QED BY <1>1, <1>2, <1>5, <1>6, SteadyBecomes, Zenon

LEMMA WeighIsSteady ==
    ASSUME Steady, UNCHANGED given, NEW c \in Crawls, Weigh(c)
    PROVE  AloneInv'
<1> DEFINE s == crawl[c]
           n == CHOOSE x \in s.left : TRUE
           left == s.left \ {n}
           best == Richness(n)
           t == [s EXCEPT !.left = left, !.keep = n, !.best = best]
           u == [s EXCEPT !.left = left]
<1>1. /\ s \in JobStates /\ Held(s, db) /\ Answers(db) /\ s.pc = "weigh" /\ Root[c] # NoNumber
      /\ Whole(db) /\ n \in s.left /\ n \in Numbers
    BY SteadyNow DEF Weigh, JobStates
<1>2. /\ UNCHANGED <<db, people>>
      /\ Become(c, IF Wins(n, best, s.keep, s.best) THEN t ELSE u)
    BY Zenon DEF Weigh
<1>3. /\ t.pc = "weigh" /\ t.number = s.number /\ t.docs = s.docs /\ t.rels = s.rels
      /\ t.left = left /\ t.found = s.found /\ t.keep = n /\ t.best = best
      /\ t.stubs = s.stubs /\ t.edges = s.edges
    BY <1>1 DEF JobStates
<1>4. /\ u.pc = "weigh" /\ u.number = s.number /\ u.docs = s.docs /\ u.rels = s.rels
      /\ u.left = left /\ u.found = s.found /\ u.keep = s.keep /\ u.best = s.best
      /\ u.stubs = s.stubs /\ u.edges = s.edges
    BY <1>1 DEF JobStates
<1> HIDE DEF n
<1>5. /\ s.left \subseteq s.found /\ s.found \subseteq db.rec
      /\ IF s.keep = NoNumber THEN s.left = s.found
         ELSE s.keep \in s.found /\ BodyKept(s, db, s.found \ s.left)
      /\ s.best \in {0, 1}
    BY <1>1 DEF Held, JobStates
<1>6. best = IF n \in db.cached THEN 1 ELSE 0
    BY <1>1, <1>5 DEF Richness, IsCached, RecordFor, Answers
<1> HIDE DEF t, u, s, best
<1>7. Wins(n, best, s.keep, s.best) => BodyKept(t, db, t.found \ t.left)
    <2>1. t.best = 1 <=> t.keep \in db.cached
        BY <1>3, <1>6
    <2>2. CASE s.keep = NoNumber
        BY <1>3, <1>5, <2>1, <2>2 DEF BodyKept
    <2>3. CASE s.keep # NoNumber
        <3> SUFFICES ASSUME Wins(n, best, s.keep, s.best), NEW x \in t.found \ t.left, x \in db.cached
                     PROVE  t.keep \in db.cached
            BY <2>1 DEF BodyKept
        <3>1. x = n \/ s.best = 1
            BY <1>3, <1>5, <2>3 DEF BodyKept
        <3>2. s.best = 1 => best = 1
            BY <1>6, <2>3 DEF Wins
        <3> QED BY <1>3, <1>6, <3>1, <3>2
    <2> QED BY <2>2, <2>3
<1>8. ~Wins(n, best, s.keep, s.best) => s.keep # NoNumber /\ BodyKept(u, db, u.found \ u.left)
    <2> SUFFICES ASSUME ~Wins(n, best, s.keep, s.best)
                 PROVE  s.keep # NoNumber /\ BodyKept(u, db, u.found \ u.left)
        OBVIOUS
    <2>1. s.keep # NoNumber /\ (best = 1 => s.best = 1)
        BY <1>5, <1>6 DEF Wins
    <2>2. \A x \in u.found \ u.left : x \in s.found \ s.left \/ x = n
        BY <1>4
    <2> QED BY <1>4, <1>5, <1>6, <2>1, <2>2 DEF BodyKept
<1>9. /\ s.number \in s.docs /\ s.stubs = {} /\ s.edges = {}
      /\ \A i \in DOMAIN s.rels : s.rels[i].to \in s.docs => db.doc[s.rels[i].to] # NoNumber
      /\ \A x \in Candidates(s) : db.doc[x] \in s.found \union {NoNumber}
    BY <1>1 DEF Held, Fresh, Holding
<1>10. n # NoNumber /\ n \in s.found
    BY <1>1, <1>5, NoNumberAssumption
<1>11. Wins(n, best, s.keep, s.best) => Held(t, db) /\ AtTheEnd(t, db, Root[c])
    BY <1>3, <1>5, <1>7, <1>9, <1>10 DEF Held, Fresh, AtTheEnd, Candidates
<1>12. ~Wins(n, best, s.keep, s.best) => Held(u, db) /\ AtTheEnd(u, db, Root[c])
    BY <1>4, <1>5, <1>8, <1>9 DEF Held, Fresh, AtTheEnd, Candidates
<1> QED BY <1>1, <1>2, <1>11, <1>12, SteadyBecomes, Zenon

LEMMA AllWeighedIsSteady ==
    ASSUME Steady, UNCHANGED given, NEW c \in Crawls, AllWeighed(c)
    PROVE  AloneInv'
<1> DEFINE s == crawl[c]
           left == s.found \ {s.keep}
           t == [s EXCEPT !.pc = "merge", !.left = left]
<1>1. /\ s \in JobStates /\ Held(s, db) /\ Answers(db) /\ s.pc = "weigh" /\ Root[c] # NoNumber
      /\ s.left = {} /\ s.keep \in Numbers
    BY SteadyNow DEF AllWeighed, Good, Fits
<1>2. Become(c, t) /\ UNCHANGED <<db, people>>
    BY Zenon DEF AllWeighed
<1>3. /\ t.pc = "merge" /\ t.number = s.number /\ t.docs = s.docs /\ t.rels = s.rels
      /\ t.left = left /\ t.found = s.found /\ t.keep = s.keep
      /\ t.stubs = s.stubs /\ t.edges = s.edges
    BY <1>1 DEF JobStates
<1> HIDE DEF t, s
<1>4. s.keep # NoNumber /\ s.keep \in s.found /\ BodyKept(s, db, s.found) /\ s.found \subseteq db.rec
    BY <1>1, NoNumberAssumption DEF Held
<1>5. /\ s.number \in s.docs /\ s.stubs = {} /\ s.edges = {}
      /\ \A i \in DOMAIN s.rels : s.rels[i].to \in s.docs => db.doc[s.rels[i].to] # NoNumber
      /\ \A x \in Candidates(s) : db.doc[x] \in s.found \union {NoNumber}
    BY <1>1 DEF Held, Fresh, Holding
<1>6. Held(t, db) /\ AtTheEnd(t, db, Root[c])
    BY <1>3, <1>4, <1>5 DEF Held, Fresh, AtTheEnd, Candidates, BodyKept
<1> QED BY <1>1, <1>2, <1>6, SteadyBecomes, Zenon

LEMMA MergeDuplicateIsSteady ==
    ASSUME Steady, UNCHANGED given, NEW c \in Crawls, MergeDuplicate(c)
    PROVE  AloneInv'
<1> DEFINE s == crawl[c]
           n == CHOOSE x \in s.left : TRUE
           left == s.left \ {n}
           t == [s EXCEPT !.left = left]
           e == AfterMerge(db, s.keep, n)
<1>1. /\ s \in JobStates /\ Held(s, db) /\ Answers(db) /\ s.pc = "merge" /\ Root[c] # NoNumber
      /\ Whole(db) /\ n \in s.left /\ n \in Numbers /\ s.keep \in Numbers /\ s.keep # n
    BY SteadyNow DEF MergeDuplicate, JobStates, Good, Fits
<1>2. /\ s.left \union {s.keep} \subseteq db.rec /\ s.keep # NoNumber
      /\ \A x \in Candidates(s) : db.doc[x] \in s.left \union {s.keep, NoNumber}
      /\ \A x \in s.left : x \in db.cached => s.keep \in db.cached
      /\ s.keep \notin s.left /\ s.number \in s.docs /\ s.stubs = {} /\ s.edges = {}
      /\ \A i \in DOMAIN s.rels : s.rels[i].to \in s.docs => db.doc[s.rels[i].to] # NoNumber
    BY <1>1, NoNumberAssumption DEF Held, Fresh, Holding
<1>3. /\ UNCHANGED people /\ db' = e /\ Become(c, t)
    BY <1>1, <1>2, Zenon DEF MergeDuplicate, CanMerge
<1>4. /\ t.pc = "merge" /\ t.number = s.number /\ t.docs = s.docs /\ t.rels = s.rels
      /\ t.left = left /\ t.found = s.found /\ t.keep = s.keep
      /\ t.stubs = s.stubs /\ t.edges = s.edges
    BY <1>1 DEF JobStates
<1> HIDE DEF n
<1>5. /\ e.rec = db.rec \ {n} /\ e.cached = db.cached \ {n}
      /\ \A x \in Numbers : e.doc[x] = IF db.doc[x] = n THEN s.keep ELSE db.doc[x]
    BY DEF AfterMerge
<1> HIDE DEF t, e
<1>6. Answers(e)
    BY <1>1, <1>5 DEF Answers, Whole, Databases
<1>7. /\ \A x \in Candidates(s) : x \in Numbers
      /\ \A i \in DOMAIN s.rels : s.rels[i].to \in Numbers
    <2>1. /\ s.rels \in RelLists /\ s.docs \in SUBSET Numbers
        BY <1>1 DEF JobStates, RelLists
    <2> HIDE DEF s
    <2>2. \A x \in Candidates(s) : x \in Numbers
        BY <1>2, <2>1 DEF Candidates
    <2> QED BY <2>1, <2>2, RelationsName, Zenon
<1> HIDE DEF s
<1>8. /\ \A i \in DOMAIN t.rels : t.rels[i].to \in t.docs => e.doc[t.rels[i].to] # NoNumber
      /\ \A x \in Candidates(t) : e.doc[x] \in t.left \union {t.keep, NoNumber}
    BY <1>2, <1>4, <1>5, <1>7 DEF Candidates
<1>9. Held(t, e) /\ AtTheEnd(t, e, Root[c])
    BY <1>1, <1>2, <1>4, <1>5, <1>8 DEF Held, Fresh, AtTheEnd
<1> QED BY <1>1, <1>3, <1>6, <1>9, SteadyBecomes, Zenon

LEMMA AllMergedIsSteady ==
    ASSUME Steady, UNCHANGED given, NEW c \in Crawls, AllMerged(c) \/ AllLinked(c)
    PROVE  AloneInv'
<1> DEFINE s == crawl[c]
           t == [s EXCEPT !.pc = IF s.pc = "merge" THEN "link" ELSE "save"]
<1>1. /\ s \in JobStates /\ Held(s, db) /\ Answers(db) /\ Root[c] # NoNumber
      /\ s.pc = "link" \/ (s.pc = "merge" /\ s.left = {})
    BY SteadyNow DEF AllMerged, AllLinked
<1>4. Become(c, t) /\ UNCHANGED <<db, people>>
    <2>1. CASE AllMerged(c)
        BY <2>1 DEF AllMerged
    <2>2. CASE AllLinked(c)
        BY <2>2 DEF AllLinked
    <2> QED BY <2>1, <2>2
<1>2. /\ t.pc = (IF s.pc = "merge" THEN "link" ELSE "save")
      /\ t.number = s.number /\ t.docs = s.docs /\ t.rels = s.rels
      /\ t.left = s.left /\ t.found = s.found /\ t.keep = s.keep
      /\ t.stubs = s.stubs /\ t.edges = s.edges
    BY <1>1 DEF JobStates
<1> HIDE DEF t, s
<1>3. Held(t, db) /\ AtTheEnd(t, db, Root[c])
    BY <1>1, <1>2 DEF Held, Fresh, AtTheEnd, Candidates, Holding
<1> QED BY <1>1, <1>3, <1>4, SteadyBecomes, Zenon

LEMMA LinkNeighbourIsSteady ==
    ASSUME Steady, UNCHANGED given, NEW c \in Crawls, LinkNeighbour(c)
    PROVE  AloneInv'
<1> DEFINE s == crawl[c]
           rel == Head(s.rels)
           rels == Tail(s.rels)
           stubs == IF RecordOf(db, rel.to) = NoNumber THEN s.stubs \union {rel.to} ELSE s.stubs
           edges == s.edges \union {<<s.keep, FarEnd(rel.to), rel.kind>>}
           queue == Queued(s, rel)
           seen == s.seen \union {rel.to}
           t == [s EXCEPT !.rels = rels, !.stubs = stubs, !.edges = edges, !.queue = queue,
                          !.seen = seen]
<1>1. /\ s \in JobStates /\ Held(s, db) /\ Answers(db) /\ s.pc = "link" /\ Root[c] # NoNumber
      /\ Whole(db) /\ s.rels \in RelLists /\ s.rels # <<>>
    BY SteadyNow DEF LinkNeighbour, JobStates, RelLists
<1>2. Become(c, t) /\ UNCHANGED <<db, people>>
    BY Zenon DEF LinkNeighbour
<1>3. /\ t.pc = "link" /\ t.number = s.number /\ t.docs = s.docs /\ t.rels = rels
      /\ t.left = s.left /\ t.found = s.found /\ t.keep = s.keep
      /\ t.stubs = stubs /\ t.edges = edges
    BY <1>1 DEF JobStates
<1>4. /\ rel \in [to : Numbers, kind : Kinds] /\ 1 \in DOMAIN s.rels /\ rel = s.rels[1]
      /\ \A i \in DOMAIN rels : i + 1 \in DOMAIN s.rels /\ rels[i] = s.rels[i + 1]
    <2> DEFINE T == [to : Numbers, kind : Kinds]
    <2>1. s.rels \in Seq(T)
        BY <1>1 DEF RelLists
    <2> HIDE DEF T, s
    <2> QED BY <1>1, <2>1, SequenceFacts, Zenon DEF T
<1>5. /\ s.number \in s.docs
      /\ \A i \in DOMAIN s.rels : s.rels[i].to \in s.docs => db.doc[s.rels[i].to] # NoNumber
      /\ s.keep \in db.rec \union {s.number}
      /\ \A x \in Candidates(s) : db.doc[x] \in {s.keep, NoNumber}
      /\ \A x \in s.stubs : x \notin s.docs /\ db.doc[x] = NoNumber
      /\ \A e \in s.edges : e[1] = s.keep /\ e[2] \in db.rec \union s.stubs
    BY <1>1 DEF Held, Holding
<1> HIDE DEF t, s, rel, rels
<1>6. rel.to \in Numbers /\ (rel.to \in s.docs => db.doc[rel.to] # NoNumber)
    BY <1>4, <1>5
<1>7. \A x \in stubs : x \notin s.docs /\ db.doc[x] = NoNumber
    BY <1>5, <1>6 DEF RecordOf
<1>8. FarEnd(rel.to) \in db.rec \union stubs
    BY <1>1, <1>6 DEF FarEnd, RecordOf, Whole, Integral
<1>9. \A e \in edges : e[1] = s.keep /\ e[2] \in db.rec \union stubs
    BY <1>5, <1>8
<1>10. \A i \in DOMAIN rels : rels[i].to \in s.docs => db.doc[rels[i].to] # NoNumber
    BY <1>4, <1>5
<1> HIDE DEF stubs, edges
<1>11. Held(t, db) /\ AtTheEnd(t, db, Root[c])
    BY <1>3, <1>5, <1>7, <1>9, <1>10 DEF Held, Fresh, AtTheEnd, Candidates
<1> QED BY <1>1, <1>2, <1>11, SteadyBecomes, Zenon

LEMMA SaveNodeIsSteady ==
    ASSUME Steady, UNCHANGED given, NEW c \in Crawls, SaveNode(c)
    PROVE  AloneInv'
<1> DEFINE s == crawl[c]
           u == ToNext(s)
           t == [u EXCEPT !.ingested = @ + 1]
           b == Node(s)
           e == AfterSaveNode(db, b)
<1>1. /\ s \in JobStates /\ Held(s, db) /\ Answers(db) /\ s.pc = "save" /\ Root[c] # NoNumber
      /\ Whole(db) /\ s.keep \in Numbers /\ s.keep # NoNumber
    BY SteadyNow, NoNumberAssumption DEF SaveNode, Good, Fits
<1>2. /\ s.number \in s.docs /\ s.keep \in db.rec \union {s.number}
      /\ \A x \in Candidates(s) : db.doc[x] \in {s.keep, NoNumber}
      /\ \A x \in s.stubs : x \notin s.docs /\ db.doc[x] = NoNumber
      /\ \A f \in s.edges : f[1] = s.keep /\ f[2] \in db.rec \union s.stubs
    BY <1>1 DEF Held, Holding
<1>3. CanSaveNode(db, b)
    BY <1>1, <1>2 DEF CanSaveNode, Node, Owner
<1>4. UNCHANGED people /\ db' = e /\ Become(c, t)
    BY <1>3, Zenon DEF SaveNode
<1>5. /\ e.rec = db.rec \union {s.keep} \union s.stubs
      /\ \A x \in Numbers : e.doc[x] = IF x \in s.docs THEN s.keep
                                       ELSE IF x \in s.stubs /\ db.doc[x] = NoNumber THEN x
                                       ELSE db.doc[x]
    BY <1>1 DEF AfterSaveNode, Node, Owner, DocAfterNode, Whole, Databases
<1>6. s.stubs \subseteq Numbers /\ db.rec \subseteq Numbers
    BY <1>1 DEF JobStates, Whole, Databases
<1>7. t.pc = "next" /\ t.rels = <<>> /\ t.found = {} /\ t.keep = NoNumber /\ t.stubs = {} /\ t.edges = {}
    BY DEF ToNext, Stopped, Idle
<1> HIDE DEF t, s, b, e
<1>8. Answers(e)
    <2>1. \A x \in s.docs : db.doc[x] \in {s.keep, NoNumber}
        BY <1>2 DEF Candidates
    <2>2. \A r \in db.rec : db.doc[r] = r /\ r # NoNumber
        BY <1>1, <1>6, NoNumberAssumption DEF Answers
    <2>3. ASSUME NEW r \in db.rec
          PROVE  e.doc[r] = r
        BY <1>5, <1>6, <2>1, <2>2
    <2>4. s.keep \in db.rec \/ e.doc[s.keep] = s.keep
        BY <1>1, <1>2, <1>5
    <2>5. \A x \in s.stubs : e.doc[x] = x
        BY <1>2, <1>5, <1>6
    <2> QED BY <1>5, <2>3, <2>4, <2>5 DEF Answers
<1>9. Held(t, e) /\ AtTheEnd(t, e, Root[c])
    BY <1>7 DEF Held, Fresh, AtTheEnd, Holding
<1> QED BY <1>1, <1>4, <1>8, <1>9, SteadyBecomes, Zenon

LEMMA LookUpRootIsSteady ==
    ASSUME Steady, UNCHANGED given, NEW c \in Crawls, LookUpRoot(c)
    PROVE  AloneInv'
<1> DEFINE s == crawl[c]
           r == RecordOf(db, Root[c])
           t == [s EXCEPT !.pc = "read", !.keep = r]
<1>1. /\ s \in JobStates /\ Answers(db) /\ s.pc = "next" /\ Root[c] # NoNumber
      /\ Whole(db) /\ given \in Settings
    BY SteadyNow DEF LookUpRoot
<1>2. /\ UNCHANGED <<db, people>>
      /\ Become(c, Stopped(s, "failed")) \/ (r # NoNumber /\ Become(c, t))
    BY Zenon DEF LookUpRoot
<1>3. Held(Stopped(s, "failed"), db) /\ AtTheEnd(Stopped(s, "failed"), db, Root[c])
    BY <1>1, NothingIsHeld
<1>4. Root[c] \in Numbers
    BY <1>1, GivenTypes
<1>5. t.pc = "read" /\ t.keep = r
    BY <1>1 DEF JobStates
<1> HIDE DEF t
<1>6. r # NoNumber => Held(t, db) /\ AtTheEnd(t, db, Root[c])
    BY <1>1, <1>4, <1>5 DEF Held, Fresh, AtTheEnd, Holding, RecordOf, Whole, Integral
<1> QED BY <1>1, <1>2, <1>3, <1>6, SteadyBecomes, Zenon

\* The record of the root is read, and promoted, under its own number.
LEMMA RootIsRead ==
    ASSUME Steady, NEW c \in Crawls, crawl[c].pc \in {"read", "promote"}
    PROVE  /\ crawl[c].keep \in db.rec /\ crawl[c].keep # NoNumber /\ Root[c] \in Numbers
           /\ RecordFor(db, crawl[c].keep) = crawl[c].keep
           /\ RecordFor(db, Root[c]) = crawl[c].keep
<1> DEFINE s == crawl[c]
<1>1. /\ Answers(db) /\ AtTheEnd(s, db, Root[c]) /\ Root[c] # NoNumber /\ Whole(db)
      /\ given \in Settings
    BY SteadyNow
<1>2. Root[c] \in Numbers
    BY <1>1, GivenTypes
<1>3. s.keep \in db.rec /\ db.doc[Root[c]] = s.keep /\ db.doc[s.keep] = s.keep
    BY <1>1 DEF AtTheEnd, Answers
<1>4. s.keep # NoNumber
    BY <1>1, <1>3, NoNumberAssumption DEF Whole, Databases
<1> QED BY <1>2, <1>3, <1>4 DEF RecordFor

LEMMA ReadRootIsSteady ==
    ASSUME Steady, UNCHANGED given, NEW c \in Crawls, ReadRoot(c)
    PROVE  AloneInv'
<1> DEFINE s == crawl[c]
           r == RecordFor(db, s.keep)
           t == [s EXCEPT !.pc = "promote", !.keep = r]
<1>1. /\ s \in JobStates /\ Answers(db) /\ s.pc = "read" /\ Root[c] # NoNumber
      /\ Whole(db) /\ given \in Settings /\ AtTheEnd(s, db, Root[c])
    BY SteadyNow DEF ReadRoot
<1>2. r = s.keep
    BY <1>1, RootIsRead
<1>3. /\ UNCHANGED <<db, people>>
      /\ Become(c, Stopped(s, "failed")) \/ Become(c, Stopped(s, "done")) \/ Become(c, t)
    BY Zenon DEF ReadRoot
<1>4. /\ Held(Stopped(s, "failed"), db) /\ AtTheEnd(Stopped(s, "failed"), db, Root[c])
      /\ Held(Stopped(s, "done"), db) /\ AtTheEnd(Stopped(s, "done"), db, Root[c])
    BY <1>1, NothingIsHeld
<1>5. t.pc = "promote" /\ t.keep = r
    BY <1>1 DEF JobStates
<1> HIDE DEF t, r
<1>6. Held(t, db) /\ AtTheEnd(t, db, Root[c])
    BY <1>1, <1>2, <1>5 DEF Held, Fresh, AtTheEnd, Holding
<1> QED BY <1>1, <1>3, <1>4, <1>6, SteadyBecomes, Zenon

LEMMA PromoteRootIsSteady ==
    ASSUME Steady, UNCHANGED given, NEW c \in Crawls, PromoteRoot(c)
    PROVE  AloneInv' /\ IsCached(db', Root[c])
<1> DEFINE s == crawl[c]
           e == AfterSaveNode(db, BareRecord(s.keep))
<1>1. /\ s \in JobStates /\ Answers(db) /\ s.pc = "promote" /\ Root[c] # NoNumber
      /\ Whole(db) /\ given \in Settings
    BY SteadyNow DEF PromoteRoot
<1>2. s.keep \in db.rec /\ s.keep # NoNumber /\ Root[c] \in Numbers /\ RecordFor(db, Root[c]) = s.keep
    BY <1>1, RootIsRead
<1>3. e.rec = db.rec /\ e.cached = db.cached \union {s.keep} /\ \A x \in Numbers : e.doc[x] = db.doc[x]
    BY <1>1, <1>2 DEF AfterSaveNode, BareRecord, Owner, DocAfterNode, Whole, Databases
<1>4. db' = e /\ UNCHANGED people /\ Become(c, Stopped(s, "done"))
    BY DEF PromoteRoot
<1>5. Held(Stopped(s, "done"), e) /\ AtTheEnd(Stopped(s, "done"), e, Root[c])
    BY <1>1, NothingIsHeld
<1> HIDE DEF e
<1>6. Answers(e) /\ IsCached(e, Root[c])
    BY <1>1, <1>2, <1>3 DEF Answers, IsCached, RecordFor, Whole, Databases
<1> QED BY <1>1, <1>4, <1>5, <1>6, SteadyBecomes, Zenon

\* A person who only curates touches memberships alone.
LEMMA CurateIsSteady ==
    ASSUME Steady, UNCHANGED given, NEW p \in Projects, NEW n \in Numbers, NEW state \in ReviewStates,
           Curate(p, n, state)
    PROVE  AloneInv'
<1> DEFINE e == AfterAddMembership(db, p, n, state)
<1>1. Whole(db)
    BY DEF Steady, JobsOK, TypeOK, Whole
<1>2. e.rec = db.rec /\ e.cached = db.cached /\ e.doc = db.doc /\ Whole(e)
    <2>1. Whole(e)
        BY <1>1, AddMembershipIsWhole, Zenon DEF Curate, CanAddMembership
    <2> QED BY <1>1, <2>1 DEF AfterAddMembership, Whole, Databases
<1> HIDE DEF e
<1>3. db'.rec = e.rec /\ db'.cached = e.cached /\ db'.doc = e.doc
    BY <1>2 DEF Curate, AfterSetReviewStates, e, Whole, Databases
<1>4. UNCHANGED <<crawl, adding>> /\ adding = Nothing
    BY DEF Curate, Steady, AloneInv
<1>5. ASSUME NEW s, NEW root
      PROVE  /\ Held(s, db) => Held(s, db')
             /\ AtTheEnd(s, db, root) => AtTheEnd(s, db', root)
    BY <1>2, <1>3 DEF Held, AtTheEnd, BodyKept
<1>6. Answers(db')
    BY <1>2, <1>3 DEF Answers, Steady, AloneInv
<1>7. \A c \in Crawls : Held(crawl[c], db') /\ AtTheEnd(crawl[c], db', Root[c])
    BY <1>5, Zenon DEF Steady, AloneInv
<1> QED BY <1>4, <1>6, <1>7 DEF AloneInv, Root

LEMMA CrawlStepIsSteady ==
    ASSUME Steady, UNCHANGED given, NEW c \in Crawls, CrawlStep(c)
    PROVE  AloneInv'
BY FetchIsSteady, FetchFailsIsSteady, FetchStoredIsSteady, ReadRelationsIsSteady, UnfetchedIsSteady,
   ResolveCandidateIsSteady, AllResolvedIsSteady, WeighIsSteady, AllWeighedIsSteady,
   MergeDuplicateIsSteady, AllMergedIsSteady, LinkNeighbourIsSteady, SaveNodeIsSteady,
   LookUpRootIsSteady, ReadRootIsSteady, PromoteRootIsSteady, Zenon DEF CrawlStep

LEMMA InitIsSteady == Init => SteadyInv
<1> SUFFICES ASSUME Init, Orderly(given) PROVE AloneInv
    BY DEF SteadyInv
<1>1. \A c \in Crawls : crawl[c].pc = "idle"
    BY DEF Init, Idle
<1>2. \A c \in Crawls : Held(crawl[c], db) /\ AtTheEnd(crawl[c], db, Root[c])
    BY <1>1, HeldAtRest, Zenon
<1>3. Answers(db) /\ adding = Nothing
    BY DEF Init, Orderly, Answers
<1> QED BY <1>2, <1>3 DEF AloneInv

LEMMA SteadyStep ==
    IInv /\ SteadyInv /\ [Next /\ UNCHANGED given]_<<given, vars>> => SteadyInv'
<1> SUFFICES ASSUME IInv, SteadyInv, [Next /\ UNCHANGED given]_<<given, vars>>,
                    Alone', Orderly(given)'
             PROVE  AloneInv'
    BY DEF SteadyInv
<1>1. UNCHANGED given
    BY DEF vars
<1>2. Alone /\ Orderly(given)
    BY <1>1 DEF Alone, Root
<1>3. Steady
    BY <1>2 DEF IInv, SteadyInv, Steady
<1>4. CASE UNCHANGED <<given, vars>>
    BY <1>3, <1>4 DEF vars, Steady, AloneInv, Root
<1>5. CASE \E n \in DOMAIN World : LookUpToAdd(n)
    BY <1>2, <1>5 DEF LookUpToAdd, Edit, Alone
<1>6. CASE AddPatent \/ AddDocument
    BY <1>3, <1>6 DEF AddPatent, AddDocument, Steady, AloneInv, Nothing
<1>7. CASE \E n \in Numbers : SoftDelete(n)
    BY <1>2, <1>7 DEF SoftDelete, Edit, Alone
<1>8. UNCHANGED <<given, vars>> \/ Next
    OBVIOUS
<1> QED BY <1>1, <1>3, <1>4, <1>5, <1>6, <1>7, <1>8, CrawlStepIsSteady, CancelIsSteady,
           StartIsSteady, CurateIsSteady, Zenon DEF Next

THEOREM SteadyInductive == Spec => [](IInv /\ SteadyInv)
BY InitIsOK, StepKeeps, InitIsSteady, SteadyStep, PTL DEF Spec

LEMMA StaysOrderly ==
    /\ Orderly(given) /\ [Next /\ UNCHANGED given]_<<given, vars>> => Orderly(given)'
    /\ Agreed(given) /\ [Next /\ UNCHANGED given]_<<given, vars>> => Agreed(given)'
BY DEF vars

\* Where providers are orderly, one job leaves no second record of an invention behind,
\* however many numbers it goes under and whatever people decide meanwhile: every record
\* is found under its own number (crawl.go:550-600, schema.sql:14-15).
THEOREM OneRecordPerNumber ==
    Spec /\ Orderly(given) => []RecordsAnswerToTheirNumber
<1>1. SteadyInv /\ Orderly(given) => RecordsAnswerToTheirNumber
    BY DEF SteadyInv, AloneInv, Answers, RecordsAnswerToTheirNumber, RecordOf
<1> QED BY <1>1, SteadyInductive, StaysOrderly, PTL DEF Spec

\* Its merges and its batches find all they name: "a stub is created in the same batch
\* so the edge always resolves" (crawl.go:458-459).
THEOREM NothingIsRolledBack == Spec /\ Orderly(given) => []EveryNodeIsSaved
<1>1. SteadyInv /\ Orderly(given) => EveryNodeIsSaved
    BY DEF SteadyInv, AloneInv, Held, EveryNodeIsSaved
<1> QED BY <1>1, SteadyInductive, StaysOrderly, PTL DEF Spec

\* The only calls after which a job has succeeded.
LEMMA OnlyRootsEnd ==
    ASSUME JobsOK, NEW c \in Crawls, CrawlStep(c), crawl'[c].pc = "done"
    PROVE  ReadRoot(c) \/ PromoteRoot(c)
<1>1. crawl[c] \in JobStates
    BY GoodNow DEF Good
<1>2. \A t : Become(c, t) => t.pc = "done"
    BY GoodNow DEF Become
<1>3. ~ReadRelations(c)
    <2> SUFFICES ASSUME ReadRelations(c) PROVE FALSE
        OBVIOUS
    <2> DEFINE t(rows) == [crawl[c] EXCEPT !.kinds = Tail(@), !.rels = @ \o rows]
    <2>1. PICK rows : Become(c, IF t(rows).kinds # <<>> THEN t(rows) ELSE Fetched(t(rows), t(rows)))
        BY Zenon DEF ReadRelations
    <2>2. t(rows).pc = "relations" /\ Fetched(t(rows), t(rows)).pc = "resolve"
        BY <1>1 DEF ReadRelations, Fetched, JobStates
    <2> HIDE DEF t
    <2> QED BY <1>2, <2>1, <2>2
<1>4. ~Fetch(c)
    <2> DEFINE s == crawl[c]
           t == Fetched(s, World[Head(s.queue).number])
    <2>1. t.pc = "resolve"
        BY <1>1 DEF Fetched, JobStates
    <2>2. Fetch(c) => Become(c, t)
        BY Zenon DEF Fetch
    <2> HIDE DEF t
    <2> QED BY <1>2, <2>1, <2>2
<1>5. ~FetchFails(c)
    <2> DEFINE s == crawl[c]
           t == Stopped(s, "failed")
           u == [s EXCEPT !.pc = "unfetched", !.queue = Tail(s.queue), !.number = Head(s.queue).number,
                              !.tried = @ \union {Head(s.queue).number}]
    <2>1. t.pc = "failed" /\ u.pc = "unfetched"
        BY <1>1 DEF Stopped, Idle, JobStates
    <2>2. FetchFails(c) => Become(c, t) \/ Become(c, u)
        BY Zenon DEF FetchFails
    <2> HIDE DEF t, u
    <2> QED BY <1>2, <2>1, <2>2
<1>6. ~FetchStored(c)
    <2> DEFINE s == crawl[c]
           r == RecordFor(db, Head(s.queue).number)
           t == [s EXCEPT !.pc = "relations", !.number = r, !.docs = DocumentsOf(db, r),
                              !.kinds = <<"cites", "cited_by", "parent", "child">>]
    <2>1. t.pc = "relations"
        BY <1>1 DEF JobStates
    <2>2. FetchStored(c) => Become(c, t)
        BY Zenon DEF FetchStored
    <2> HIDE DEF t
    <2> QED BY <1>2, <2>1, <2>2
<1>7. ~LookUpUnfetched(c)
    <2> DEFINE s == crawl[c]
           t == ToNext(s)
           u == [s EXCEPT !.pc = "stub"]
    <2>1. t.pc = "next" /\ u.pc = "stub"
        BY <1>1 DEF ToNext, Stopped, Idle, JobStates
    <2>2. LookUpUnfetched(c) => Become(c, t) \/ Become(c, u)
        BY Zenon DEF LookUpUnfetched
    <2> HIDE DEF t, u
    <2> QED BY <1>2, <2>1, <2>2
<1>8. ~SaveStub(c)
    <2> DEFINE s == crawl[c]
           t == ToNext(s)
    <2>1. t.pc = "next"
        BY <1>1 DEF ToNext, Stopped, Idle
    <2>2. SaveStub(c) => Become(c, t)
        BY Zenon DEF SaveStub
    <2> HIDE DEF t
    <2> QED BY <1>2, <2>1, <2>2
<1>9. ~AllResolved(c)
    <2> DEFINE s == crawl[c]
           t == [s EXCEPT !.pc = "link", !.keep = s.number]
           u == [s EXCEPT !.pc = "weigh", !.left = s.found]
    <2>1. t.pc = "link" /\ u.pc = "weigh"
        BY <1>1 DEF JobStates
    <2>2. AllResolved(c) => Become(c, t) \/ Become(c, u)
        BY Zenon DEF AllResolved
    <2> HIDE DEF t, u
    <2> QED BY <1>2, <2>1, <2>2
<1>10. ~AllWeighed(c)
    <2> DEFINE s == crawl[c]
           t == [s EXCEPT !.pc = "merge", !.left = s.found \ {s.keep}]
    <2>1. t.pc = "merge"
        BY <1>1 DEF JobStates
    <2>2. AllWeighed(c) => Become(c, t)
        BY Zenon DEF AllWeighed
    <2> HIDE DEF t
    <2> QED BY <1>2, <2>1, <2>2
<1>11. ~AllMerged(c)
    <2> DEFINE s == crawl[c]
           t == [s EXCEPT !.pc = "link"]
    <2>1. t.pc = "link"
        BY <1>1 DEF JobStates
    <2>2. AllMerged(c) => Become(c, t)
        BY Zenon DEF AllMerged
    <2> HIDE DEF t
    <2> QED BY <1>2, <2>1, <2>2
<1>12. ~AllLinked(c)
    <2> DEFINE s == crawl[c]
           t == [s EXCEPT !.pc = "save"]
    <2>1. t.pc = "save"
        BY <1>1 DEF JobStates
    <2>2. AllLinked(c) => Become(c, t)
        BY Zenon DEF AllLinked
    <2> HIDE DEF t
    <2> QED BY <1>2, <2>1, <2>2
<1>13. ~SaveNode(c)
    <2> DEFINE s == crawl[c]
           t == Stopped(s, "aborted")
           u == [ToNext(s) EXCEPT !.ingested = @ + 1]
    <2>1. t.pc = "aborted" /\ u.pc = "next"
        BY <1>1 DEF ToNext, Stopped, Idle
    <2>2. SaveNode(c) => Become(c, t) \/ Become(c, u)
        BY Zenon DEF SaveNode
    <2> HIDE DEF t, u
    <2> QED BY <1>2, <2>1, <2>2
<1>14. ~LookUpRoot(c)
    <2> DEFINE s == crawl[c]
           t == Stopped(s, "failed")
           u == [s EXCEPT !.pc = "read", !.keep = RecordOf(db, Root[c])]
    <2>1. t.pc = "failed" /\ u.pc = "read"
        BY <1>1 DEF Stopped, Idle, JobStates
    <2>2. LookUpRoot(c) => Become(c, t) \/ Become(c, u)
        BY Zenon DEF LookUpRoot
    <2> HIDE DEF t, u
    <2> QED BY <1>2, <2>1, <2>2
<1>15. ~ResolveCandidate(c)
    <2> DEFINE s == crawl[c]
               n == CHOOSE x \in s.left : TRUE
               t == [s EXCEPT !.left = @ \ {n}, !.found = @ \union ({RecordOf(db, n)} \ {NoNumber})]
    <2> HIDE DEF n
    <2>1. t.pc = s.pc
        BY <1>1 DEF JobStates
    <2>2. ResolveCandidate(c) => Become(c, t) /\ s.pc = "resolve"
        BY Zenon DEF ResolveCandidate, n
    <2> HIDE DEF t
    <2> QED BY <1>2, <2>1, <2>2
<1>16. ~Weigh(c)
    <2> DEFINE s == crawl[c]
               n == CHOOSE x \in s.left : TRUE
               t == [s EXCEPT !.left = @ \ {n}, !.keep = n, !.best = Richness(n)]
               u == [s EXCEPT !.left = @ \ {n}]
    <2> HIDE DEF n
    <2>1. t.pc = s.pc /\ u.pc = s.pc
        BY <1>1 DEF JobStates
    <2>2. Weigh(c) => (Become(c, t) \/ Become(c, u)) /\ s.pc = "weigh"
        BY Zenon DEF Weigh, n
    <2> HIDE DEF t, u
    <2> QED BY <1>2, <2>1, <2>2
<1>17. ~MergeDuplicate(c)
    <2> DEFINE s == crawl[c]
               n == CHOOSE x \in s.left : TRUE
               t == [s EXCEPT !.left = @ \ {n}]
               u == Stopped(s, "aborted")
    <2> HIDE DEF n
    <2>1. t.pc = s.pc /\ u.pc = "aborted"
        BY <1>1 DEF JobStates, Stopped, Idle
    <2>2. MergeDuplicate(c) => (Become(c, t) \/ Become(c, u)) /\ s.pc = "merge"
        BY Zenon DEF MergeDuplicate, n
    <2> HIDE DEF t, u
    <2> QED BY <1>2, <2>1, <2>2
<1>18. ~LinkNeighbour(c)
    <2> DEFINE s == crawl[c]
               rel == Head(s.rels)
               stubs == IF RecordOf(db, rel.to) = NoNumber THEN s.stubs \union {rel.to} ELSE s.stubs
               t == [s EXCEPT !.rels = Tail(s.rels), !.stubs = stubs,
                              !.edges = @ \union {<<s.keep, FarEnd(rel.to), rel.kind>>},
                              !.queue = Queued(s, rel), !.seen = @ \union {rel.to}]
    <2>1. t.pc = s.pc
        BY <1>1 DEF JobStates
    <2>2. LinkNeighbour(c) => Become(c, t) /\ s.pc = "link"
        BY Zenon DEF LinkNeighbour
    <2> HIDE DEF t
    <2> QED BY <1>2, <2>1, <2>2
<1> QED BY <1>3, <1>4, <1>5, <1>6, <1>7, <1>8, <1>9, <1>10, <1>11, <1>12, <1>13, <1>14, <1>15, <1>16,
           <1>17, <1>18, Zenon DEF CrawlStep

\* A job on its own that reports success leaves its root fetched in full, as the end of
\* crawl ensures (crawl.go:381-399), unless the write that promotes it was refused.
THEOREM SuccessLeavesTheRoot == Spec /\ Orderly(given) => DoneMeansCached
<1> DEFINE Fine == \A c \in Crawls : Alone /\ crawl[c].pc # "done" /\ crawl'[c].pc = "done" =>
                       IsCached(db', Root[c]) \/ Cancel(c)
<1>1. IInv /\ SteadyInv /\ Orderly(given) /\ [Next /\ UNCHANGED given]_<<given, vars>> => [Fine]_vars
    <2> SUFFICES ASSUME IInv, SteadyInv, Orderly(given), [Next /\ UNCHANGED given]_<<given, vars>>,
                        NEW c \in Crawls, Alone, crawl[c].pc # "done", crawl'[c].pc = "done", ~Cancel(c)
                 PROVE  IsCached(db', Root[c])
        BY Zenon
    <2>1. Steady /\ JobsOK /\ UNCHANGED given
        BY DEF IInv, SteadyInv, Steady, vars
    <2>2. CrawlStep(c) \/ \E force \in BOOLEAN : StartCrawl(c, force)
        BY <2>1, OwnStep
    <2>3. CASE PromoteRoot(c)
        BY <2>1, <2>3, PromoteRootIsSteady
    <2>4. CASE ReadRoot(c)
        <3>1. /\ RecordFor(db, crawl[c].keep) = crawl[c].keep
              /\ RecordFor(db, Root[c]) = crawl[c].keep
            BY <2>1, <2>4, RootIsRead DEF ReadRoot
        <3>2. crawl[c] \in JobStates
            BY <2>1, GoodNow DEF Good
        <3> DEFINE r == RecordFor(db, crawl[c].keep)
                   u == [crawl[c] EXCEPT !.pc = "promote", !.keep = r]
        <3>3. Stopped(crawl[c], "failed").pc = "failed" /\ u.pc = "promote"
            BY <3>2 DEF Stopped, Idle, JobStates
        <3>4. /\ ~Become(c, Stopped(crawl[c], "failed")) /\ ~Become(c, u)
            BY <2>1, <3>3, GoodNow, Zenon DEF Become
        <3>5. /\ UNCHANGED db
              /\ Become(c, IF r \notin db.rec THEN Stopped(crawl[c], "failed")
                           ELSE IF r \in db.cached THEN Stopped(crawl[c], "done") ELSE u)
            BY <2>4, Zenon DEF ReadRoot
        <3> HIDE DEF r, u
        <3>6. r \in db.cached
            BY <3>4, <3>5
        <3>7. r = RecordFor(db, Root[c])
            BY <3>1 DEF r
        <3>8. IsCached(db, Root[c]) /\ db' = db
            BY <3>5, <3>6, <3>7, Zenon DEF IsCached
        <3> QED BY <3>8, Zenon
    <2>5. ASSUME NEW force, StartCrawl(c, force) PROVE FALSE
        <3> DEFINE t == [Idle EXCEPT !.pc = "next", !.force = force, !.seen = {Root[c]},
                                     !.queue = <<[number |-> Root[c], depth |-> 0]>>]
        <3>1. t.pc = "next"
            BY DEF Idle
        <3>2. Become(c, t)
            BY <2>5, Zenon DEF StartCrawl
        <3> HIDE DEF t
        <3> QED BY <2>1, <3>1, <3>2, GoodNow DEF Become
    <2> QED BY <2>1, <2>2, <2>3, <2>4, <2>5, OnlyRootsEnd, Zenon
<1> QED BY <1>1, SteadyInductive, StaysOrderly, PTL DEF Spec, DoneMeansCached

(***************************************************************************)
(* Several jobs among people: what a job holds belongs to one invention.   *)
(***************************************************************************)
Consistent == JobsOK /\ Agreed(given) /\ InventionInv

LEMMA ConsistentNow ==
    ASSUME Consistent, NEW c \in Crawls
    PROVE  /\ given \in Settings /\ Whole(db) /\ Good(crawl[c]) /\ crawl[c] \in JobStates
           /\ Known(db) /\ OneInvention(crawl[c])
BY GoodNow DEF Consistent, InventionInv, Good

\* Same relates numbers to themselves and on.
LEMMA SameIsEquivalence ==
    /\ \A x : Same(x, x)
    /\ \A x, y : Same(x, y) => Same(y, x)
    /\ \A x, y, z : Same(x, y) /\ Same(y, z) => Same(x, z)
BY DEF Same

LEMMA ConsistentBecomes ==
    ASSUME Consistent, UNCHANGED given, NEW c \in Crawls, NEW t, Become(c, t),
           OneInvention(t), Known(db')
    PROVE  InventionInv'
<1>1. \A d \in Crawls : crawl'[d] = IF d = c THEN t ELSE crawl[d]
    BY GoodNow, Zenon DEF Consistent, Become
<1>2. \A d \in Crawls : OneInvention(crawl'[d])
    BY <1>1, ConsistentNow, Zenon
<1>3. World' = World /\ Inventions' = Inventions
    BY DEF World, Inventions
<1>4. ASSUME NEW x, NEW y PROVE Same(x, y)' <=> Same(x, y)
    BY <1>3 DEF Same
<1>5. Known(db)'
    BY <1>4 DEF Known
<1>6. \A d \in Crawls : OneInvention(crawl[d])'
    BY <1>2, <1>4 DEF OneInvention
<1> QED BY <1>5, <1>6 DEF InventionInv

\* A job that stops or turns to the next number holds nothing.
LEMMA NothingIsTaken ==
    ASSUME NEW s, NEW pc \in {"next", "done", "failed", "aborted"}
    PROVE  OneInvention(Stopped(s, pc)) /\ OneInvention(ToNext(s))
BY DEF Stopped, ToNext, Idle, OneInvention, Holding

\* The documents a provider lists are one invention.
LEMMA AnswersAgree ==
    ASSUME Consistent, NEW n \in DOMAIN World
    PROVE  \A x \in World[n].docs : Same(x, World[n].number)
<1> SUFFICES ASSUME NEW x \in World[n].docs, NEW i \in Inventions
             PROVE  x \in i <=> World[n].number \in i
    BY DEF Same
<1>1. PICK m \in DOMAIN World : i = Invention(World, m)
    BY DEF Inventions, Invention
<1>2. x \in Invention(World, n) /\ World[n].number \in Invention(World, n)
    BY DEF Invention
<1>3. Invention(World, n) \intersect i # {} => Invention(World, n) = i
    BY <1>1 DEF Consistent, Agreed, World
<1> QED BY <1>2, <1>3

LEMMA FetchAgrees ==
    ASSUME Consistent, UNCHANGED given, NEW c \in Crawls, Fetch(c)
    PROVE  InventionInv'
<1> DEFINE s == crawl[c]
           n == Head(s.queue).number
           res == World[n]
           t == Fetched(s, res)
<1>1. /\ s \in JobStates /\ Known(db) /\ OneInvention(s) /\ s.pc = "next" /\ n \in DOMAIN World
    BY ConsistentNow DEF Fetch
<1>2. Become(c, t) /\ UNCHANGED db
    BY DEF Fetch
<1>3. \A x \in {res.number} \union res.docs : Same(x, res.number)
    BY <1>1, AnswersAgree, SameIsEquivalence
<1>4. /\ t.pc = "resolve" /\ t.number = res.number /\ t.docs = res.docs
      /\ t.left = {res.number} \union res.docs /\ t.found = s.found /\ t.keep = s.keep
    BY <1>1 DEF Fetched, JobStates
<1> HIDE DEF t, res, s
<1>5. OneInvention(t)
    BY <1>1, <1>3, <1>4 DEF OneInvention
<1> QED BY <1>1, <1>2, <1>5, ConsistentBecomes, Zenon

LEMMA FetchStoredAgrees ==
    ASSUME Consistent, UNCHANGED given, NEW c \in Crawls, FetchStored(c)
    PROVE  InventionInv'
<1> DEFINE s == crawl[c]
           r == RecordFor(db, Head(s.queue).number)
           docs == DocumentsOf(db, r)
           kinds == <<"cites", "cited_by", "parent", "child">>
           t == [s EXCEPT !.pc = "relations", !.number = r, !.docs = docs, !.kinds = kinds]
<1>1. /\ s \in JobStates /\ Known(db) /\ OneInvention(s) /\ s.pc = "next" /\ Whole(db)
      /\ r \in db.cached
    BY ConsistentNow DEF FetchStored, FromStore, IsCached
<1>2. Become(c, t) /\ UNCHANGED db
    BY DEF FetchStored
<1>3. r # NoNumber
    BY <1>1, NoNumberAssumption DEF Whole, Databases
<1>4. \A x \in docs : Same(x, r)
    BY <1>1, <1>3 DEF DocumentsOf, Known
<1>5. /\ t.pc = "relations" /\ t.number = r /\ t.docs = docs /\ t.left = s.left
      /\ t.found = s.found /\ t.keep = s.keep
    BY <1>1 DEF JobStates
<1> HIDE DEF t, docs, r, s
<1>6. OneInvention(t)
    BY <1>1, <1>4, <1>5 DEF OneInvention
<1> QED BY <1>1, <1>2, <1>6, ConsistentBecomes, Zenon

LEMMA ReadRelationsAgrees ==
    ASSUME Consistent, UNCHANGED given, NEW c \in Crawls, ReadRelations(c)
    PROVE  InventionInv'
<1> DEFINE s == crawl[c]
           t(rows) == [s EXCEPT !.kinds = Tail(@), !.rels = @ \o rows]
           u(rows) == Fetched(t(rows), t(rows))
<1>1. s \in JobStates /\ Known(db) /\ OneInvention(s) /\ s.pc = "relations"
    BY ConsistentNow DEF ReadRelations
<1>2. PICK rows : Become(c, IF t(rows).kinds # <<>> THEN t(rows) ELSE u(rows))
    BY Zenon DEF ReadRelations
<1>3. UNCHANGED db
    BY DEF ReadRelations
<1>4. /\ t(rows).pc = "relations" /\ t(rows).number = s.number /\ t(rows).docs = s.docs
      /\ t(rows).left = s.left /\ t(rows).found = s.found /\ t(rows).keep = s.keep
    BY <1>1 DEF JobStates
<1>5. /\ u(rows).pc = "resolve" /\ u(rows).number = s.number /\ u(rows).docs = s.docs
      /\ u(rows).left = {s.number} \union s.docs /\ u(rows).found = s.found /\ u(rows).keep = s.keep
    BY <1>1 DEF Fetched, JobStates
<1> HIDE DEF t, u, s
<1>6. OneInvention(t(rows)) /\ OneInvention(u(rows))
    BY <1>1, <1>4, <1>5, SameIsEquivalence DEF OneInvention, Holding
<1> QED BY <1>1, <1>2, <1>3, <1>6, ConsistentBecomes, Zenon

LEMMA FetchFailsAgrees ==
    ASSUME Consistent, UNCHANGED given, NEW c \in Crawls, FetchFails(c)
    PROVE  InventionInv'
<1> DEFINE s == crawl[c]
           n == Head(s.queue).number
           q == Tail(s.queue)
           tried == s.tried \union {n}
           t == [s EXCEPT !.pc = "unfetched", !.queue = q, !.number = n, !.tried = tried]
<1>1. s \in JobStates /\ Known(db)
    BY ConsistentNow
<1>2. UNCHANGED db /\ (Become(c, Stopped(s, "failed")) \/ Become(c, t))
    BY DEF FetchFails
<1>3. t.pc = "unfetched"
    BY <1>1 DEF JobStates
<1> HIDE DEF t
<1>4. OneInvention(t) /\ OneInvention(Stopped(s, "failed"))
    BY <1>3, NothingIsTaken DEF OneInvention, Holding
<1> QED BY <1>1, <1>2, <1>4, ConsistentBecomes, Zenon

LEMMA UnfetchedAgrees ==
    ASSUME Consistent, UNCHANGED given, NEW c \in Crawls, LookUpUnfetched(c) \/ SaveStub(c)
    PROVE  InventionInv'
<1> DEFINE s == crawl[c]
           t == [s EXCEPT !.pc = "stub"]
<1>1. s \in JobStates /\ Known(db) /\ Whole(db)
    BY ConsistentNow
<1>2. OneInvention(ToNext(s))
    BY NothingIsTaken
<1>3. CASE LookUpUnfetched(c)
    <2>1. UNCHANGED db /\ (Become(c, ToNext(s)) \/ Become(c, t))
        BY <1>3 DEF LookUpUnfetched
    <2>2. t.pc = "stub"
        BY <1>1 DEF JobStates
    <2> HIDE DEF t
    <2>3. OneInvention(t)
        BY <2>2 DEF OneInvention, Holding
    <2> QED BY <1>1, <1>2, <2>1, <2>3, ConsistentBecomes, Zenon
<1>4. CASE SaveStub(c)
    <2>1. db' = AfterSaveNode(db, LoneStub(s.number)) /\ Become(c, ToNext(s))
        BY <1>4 DEF SaveStub
    <2>2. \A x \in Numbers : db'.doc[x] \in {x, db.doc[x]}
        BY <1>1, <2>1 DEF AfterSaveNode, LoneStub, DocAfterNode, Whole, Databases
    <2>3. Known(db')
        BY <1>1, <2>2, SameIsEquivalence DEF Known
    <2> QED BY <1>2, <2>1, <2>3, ConsistentBecomes, Zenon
<1> QED BY <1>3, <1>4

LEMMA CancelAgrees ==
    ASSUME Consistent, UNCHANGED given, NEW c \in Crawls, Cancel(c)
    PROVE  InventionInv'
<1> DEFINE pc == IF crawl[c].pc = "promote" THEN "done" ELSE "failed"
<1>1. pc \in {"next", "done", "failed", "aborted"} /\ Become(c, Stopped(crawl[c], pc)) /\ UNCHANGED db
    BY DEF Cancel
<1>2. OneInvention(Stopped(crawl[c], pc)) /\ Known(db)
    BY <1>1, NothingIsTaken, ConsistentNow
<1> QED BY <1>1, <1>2, ConsistentBecomes, Zenon

LEMMA StartAgrees ==
    ASSUME Consistent, UNCHANGED given, NEW c \in Crawls, NEW force, StartCrawl(c, force)
    PROVE  InventionInv'
<1> DEFINE q == <<[number |-> Root[c], depth |-> 0]>>
           t == [Idle EXCEPT !.pc = "next", !.force = force, !.seen = {Root[c]}, !.queue = q]
<1>1. Become(c, t) /\ UNCHANGED db /\ Known(db)
    BY ConsistentNow DEF StartCrawl
<1>2. t.pc = "next" /\ t.found = {} /\ t.left = {} /\ t.keep = NoNumber
    BY DEF Idle
<1> HIDE DEF t
<1>3. OneInvention(t)
    BY <1>2 DEF OneInvention, Holding
<1> QED BY <1>1, <1>3, ConsistentBecomes, Zenon

LEMMA ResolveCandidateAgrees ==
    ASSUME Consistent, UNCHANGED given, NEW c \in Crawls, ResolveCandidate(c)
    PROVE  InventionInv'
<1> DEFINE s == crawl[c]
           n == CHOOSE x \in s.left : TRUE
           left == s.left \ {n}
           found == s.found \union ({RecordOf(db, n)} \ {NoNumber})
           t == [s EXCEPT !.left = left, !.found = found]
<1>1. /\ s \in JobStates /\ Known(db) /\ OneInvention(s) /\ s.pc = "resolve"
      /\ n \in s.left /\ n \in Numbers
    BY ConsistentNow DEF ResolveCandidate, JobStates
<1>2. Become(c, t) /\ UNCHANGED db
    BY Zenon DEF ResolveCandidate
<1>3. /\ t.pc = "resolve" /\ t.number = s.number /\ t.docs = s.docs
      /\ t.left = left /\ t.found = found /\ t.keep = s.keep
    BY <1>1 DEF JobStates
<1> HIDE DEF t, s, n
<1>4. Same(n, s.number)
    BY <1>1 DEF OneInvention, Holding
<1>5. db.doc[n] # NoNumber => Same(db.doc[n], s.number)
    BY <1>1, <1>4, SameIsEquivalence, Zenon DEF Known
<1>6. OneInvention(t)
    BY <1>1, <1>3, <1>5 DEF OneInvention, Holding, RecordOf
<1> QED BY <1>1, <1>2, <1>6, ConsistentBecomes, Zenon

LEMMA AllResolvedAgrees ==
    ASSUME Consistent, UNCHANGED given, NEW c \in Crawls, AllResolved(c)
    PROVE  InventionInv'
<1> DEFINE s == crawl[c]
           t == [s EXCEPT !.pc = "link", !.keep = s.number]
           u == [s EXCEPT !.pc = "weigh", !.left = s.found]
<1>1. s \in JobStates /\ Known(db) /\ OneInvention(s) /\ s.pc = "resolve"
    BY ConsistentNow DEF AllResolved
<1>2. UNCHANGED db /\ (Become(c, t) \/ Become(c, u))
    BY DEF AllResolved
<1>3. /\ t.pc = "link" /\ t.number = s.number /\ t.docs = s.docs
      /\ t.left = s.left /\ t.found = s.found /\ t.keep = s.number
    BY <1>1 DEF JobStates
<1>4. /\ u.pc = "weigh" /\ u.number = s.number /\ u.docs = s.docs
      /\ u.left = s.found /\ u.found = s.found /\ u.keep = s.keep
    BY <1>1 DEF JobStates
<1> HIDE DEF t, u, s
<1>5. OneInvention(t) /\ OneInvention(u)
    BY <1>1, <1>3, <1>4, SameIsEquivalence DEF OneInvention, Holding
<1> QED BY <1>1, <1>2, <1>5, ConsistentBecomes, Zenon

LEMMA WeighAgrees ==
    ASSUME Consistent, UNCHANGED given, NEW c \in Crawls, Weigh(c)
    PROVE  InventionInv'
<1> DEFINE s == crawl[c]
           n == CHOOSE x \in s.left : TRUE
           left == s.left \ {n}
           best == Richness(n)
           t == [s EXCEPT !.left = left, !.keep = n, !.best = best]
           u == [s EXCEPT !.left = left]
<1>1. s \in JobStates /\ Known(db) /\ OneInvention(s) /\ s.pc = "weigh" /\ n \in s.left
    BY ConsistentNow DEF Weigh
<1>2. UNCHANGED db /\ (Become(c, t) \/ Become(c, u))
    <2>1. Become(c, IF Wins(n, best, s.keep, s.best) THEN t ELSE u) /\ UNCHANGED db
        BY Zenon DEF Weigh
    <2> HIDE DEF t, u
    <2> QED BY <2>1
<1>3. /\ t.pc = "weigh" /\ t.number = s.number /\ t.docs = s.docs
      /\ t.left = left /\ t.found = s.found /\ t.keep = n
    BY <1>1 DEF JobStates
<1>4. /\ u.pc = "weigh" /\ u.number = s.number /\ u.docs = s.docs
      /\ u.left = left /\ u.found = s.found /\ u.keep = s.keep
    BY <1>1 DEF JobStates
<1> HIDE DEF t, u, s, n
<1>5. OneInvention(t) /\ OneInvention(u)
    BY <1>1, <1>3, <1>4 DEF OneInvention, Holding
<1> QED BY <1>1, <1>2, <1>5, ConsistentBecomes, Zenon

LEMMA AllWeighedAgrees ==
    ASSUME Consistent, UNCHANGED given, NEW c \in Crawls, AllWeighed(c)
    PROVE  InventionInv'
<1> DEFINE s == crawl[c]
           left == s.found \ {s.keep}
           t == [s EXCEPT !.pc = "merge", !.left = left]
<1>1. s \in JobStates /\ Known(db) /\ OneInvention(s) /\ s.pc = "weigh"
    BY ConsistentNow DEF AllWeighed
<1>2. Become(c, t) /\ UNCHANGED db
    BY Zenon DEF AllWeighed
<1>3. /\ t.pc = "merge" /\ t.number = s.number /\ t.docs = s.docs
      /\ t.left = left /\ t.found = s.found /\ t.keep = s.keep
    BY <1>1 DEF JobStates
<1> HIDE DEF t, s
<1>4. OneInvention(t)
    BY <1>1, <1>3 DEF OneInvention, Holding
<1> QED BY <1>1, <1>2, <1>4, ConsistentBecomes, Zenon

\* A merge folds a record into another of the same invention.
LEMMA MergedIsSame ==
    ASSUME Consistent, NEW c \in Crawls, crawl[c].pc = "merge", NEW n \in crawl[c].left
    PROVE  Same(n, crawl[c].keep) /\ n # crawl[c].keep /\ n \in Numbers /\ crawl[c].keep \in Numbers
<1>1. /\ OneInvention(crawl[c]) /\ crawl[c].keep \in Numbers /\ crawl[c].keep \notin crawl[c].left
      /\ n \in Numbers /\ crawl[c].keep # NoNumber
    BY ConsistentNow, NoNumberAssumption DEF Good, Fits, JobStates
<1>2. Same(n, crawl[c].number) /\ Same(crawl[c].keep, crawl[c].number)
    BY <1>1 DEF OneInvention, Holding
<1> QED BY <1>1, <1>2, SameIsEquivalence, Zenon

LEMMA MergeDuplicateAgrees ==
    ASSUME Consistent, UNCHANGED given, NEW c \in Crawls, MergeDuplicate(c)
    PROVE  InventionInv'
<1> DEFINE s == crawl[c]
           n == CHOOSE x \in s.left : TRUE
           left == s.left \ {n}
           t == [s EXCEPT !.left = left]
<1>1. /\ s \in JobStates /\ Known(db) /\ OneInvention(s) /\ s.pc = "merge" /\ n \in s.left
    BY ConsistentNow DEF MergeDuplicate
<1>2. \/ db' = AfterMerge(db, s.keep, n) /\ Become(c, t)
      \/ UNCHANGED db /\ Become(c, Stopped(s, "aborted"))
    BY Zenon DEF MergeDuplicate
<1>3. /\ t.pc = "merge" /\ t.number = s.number /\ t.docs = s.docs
      /\ t.left = left /\ t.found = s.found /\ t.keep = s.keep
    BY <1>1 DEF JobStates
<1>4. Same(n, s.keep)
    BY <1>1, MergedIsSame
<1> HIDE DEF t, s, n
<1>5. OneInvention(t) /\ OneInvention(Stopped(s, "aborted"))
    BY <1>1, <1>3, NothingIsTaken DEF OneInvention, Holding
<1>6. db' = AfterMerge(db, s.keep, n) => Known(db')
    <2> SUFFICES ASSUME db' = AfterMerge(db, s.keep, n), NEW x \in Numbers, db'.doc[x] # NoNumber
                 PROVE  Same(x, db'.doc[x])
        BY DEF Known
    <2>1. db'.doc[x] = IF db.doc[x] = n THEN s.keep ELSE db.doc[x]
        BY DEF AfterMerge
    <2>2. CASE db.doc[x] = n
        <3>1. n # NoNumber
            <4>1. n \in Numbers
                BY <1>1 DEF JobStates
            <4> QED BY <4>1, NoNumberAssumption
        <3>2. Same(x, n)
            BY <1>1, <2>2, <3>1 DEF Known
        <3>3. Same(x, s.keep)
            BY <1>4, <3>2, SameIsEquivalence, Zenon
        <3> QED BY <2>1, <2>2, <3>3
    <2>3. CASE db.doc[x] # n
        BY <1>1, <2>1, <2>3 DEF Known
    <2> QED BY <2>2, <2>3
<1> QED BY <1>1, <1>2, <1>5, <1>6, ConsistentBecomes, Zenon DEF s

LEMMA AllMergedAgrees ==
    ASSUME Consistent, UNCHANGED given, NEW c \in Crawls, AllMerged(c) \/ AllLinked(c)
    PROVE  InventionInv'
<1> DEFINE s == crawl[c]
           t == [s EXCEPT !.pc = IF s.pc = "merge" THEN "link" ELSE "save"]
<1>1. s \in JobStates /\ Known(db) /\ OneInvention(s) /\ s.pc \in {"merge", "link"}
    BY ConsistentNow DEF AllMerged, AllLinked
<1>2. Become(c, t) /\ UNCHANGED db
    <2>1. CASE AllMerged(c)
        BY <2>1 DEF AllMerged
    <2>2. CASE AllLinked(c)
        BY <2>2 DEF AllLinked
    <2> QED BY <2>1, <2>2
<1>3. /\ t.pc = (IF s.pc = "merge" THEN "link" ELSE "save")
      /\ t.number = s.number /\ t.docs = s.docs
      /\ t.left = s.left /\ t.found = s.found /\ t.keep = s.keep
    BY <1>1 DEF JobStates
<1> HIDE DEF t, s
<1>4. OneInvention(t)
    BY <1>1, <1>3 DEF OneInvention, Holding
<1> QED BY <1>1, <1>2, <1>4, ConsistentBecomes, Zenon

LEMMA LinkNeighbourAgrees ==
    ASSUME Consistent, UNCHANGED given, NEW c \in Crawls, LinkNeighbour(c)
    PROVE  InventionInv'
<1> DEFINE s == crawl[c]
           rel == Head(s.rels)
           rels == Tail(s.rels)
           stubs == IF RecordOf(db, rel.to) = NoNumber THEN s.stubs \union {rel.to} ELSE s.stubs
           edges == s.edges \union {<<s.keep, FarEnd(rel.to), rel.kind>>}
           queue == Queued(s, rel)
           seen == s.seen \union {rel.to}
           t == [s EXCEPT !.rels = rels, !.stubs = stubs, !.edges = edges, !.queue = queue,
                          !.seen = seen]
<1>1. s \in JobStates /\ Known(db) /\ OneInvention(s) /\ s.pc = "link"
    BY ConsistentNow DEF LinkNeighbour
<1>2. Become(c, t) /\ UNCHANGED db
    BY Zenon DEF LinkNeighbour
<1>3. /\ t.pc = "link" /\ t.number = s.number /\ t.docs = s.docs
      /\ t.left = s.left /\ t.found = s.found /\ t.keep = s.keep
    BY <1>1 DEF JobStates
<1> HIDE DEF t, s
<1>4. OneInvention(t)
    BY <1>1, <1>3 DEF OneInvention, Holding
<1> QED BY <1>1, <1>2, <1>4, ConsistentBecomes, Zenon

LEMMA SaveNodeAgrees ==
    ASSUME Consistent, UNCHANGED given, NEW c \in Crawls, SaveNode(c)
    PROVE  InventionInv'
<1> DEFINE s == crawl[c]
           t == [ToNext(s) EXCEPT !.ingested = @ + 1]
<1>1. /\ s \in JobStates /\ Known(db) /\ OneInvention(s) /\ s.pc = "save" /\ Whole(db)
      /\ s.keep \in Numbers /\ s.keep # NoNumber
    BY ConsistentNow, NoNumberAssumption DEF SaveNode, Good, Fits
<1>2. \/ db' = AfterSaveNode(db, Node(s)) /\ Become(c, t)
      \/ UNCHANGED db /\ Become(c, Stopped(s, "aborted"))
    BY Zenon DEF SaveNode
<1>3. OneInvention(t) /\ OneInvention(Stopped(s, "aborted"))
    <2>1. t.pc = "next" /\ t.found = {} /\ t.left = {} /\ t.keep = NoNumber
        BY DEF ToNext, Stopped, Idle
    <2> HIDE DEF t
    <2> QED BY <2>1, NothingIsTaken DEF OneInvention, Holding
<1>4. \A x \in s.docs : Same(x, s.keep)
    <2>1. Same(s.keep, s.number) /\ \A x \in s.docs : Same(x, s.number)
        BY <1>1 DEF OneInvention, Holding
    <2> QED BY <2>1, SameIsEquivalence, Zenon
<1>5. db' = AfterSaveNode(db, Node(s)) => Known(db')
    <2> SUFFICES ASSUME db' = AfterSaveNode(db, Node(s)), NEW x \in Numbers, db'.doc[x] # NoNumber
                 PROVE  Same(x, db'.doc[x])
        BY DEF Known
    <2>1. db'.doc[x] = IF x \in s.docs THEN s.keep
                       ELSE IF x \in s.stubs /\ db.doc[x] = NoNumber THEN x
                       ELSE db.doc[x]
        BY <1>1 DEF AfterSaveNode, DocAfterNode, Node, Whole, Databases
    <2> HIDE DEF s
    <2> QED BY <1>1, <1>4, <2>1, SameIsEquivalence DEF Known
<1> HIDE DEF t
<1> QED BY <1>1, <1>2, <1>3, <1>5, ConsistentBecomes, Zenon

LEMMA RootAgrees ==
    ASSUME Consistent, UNCHANGED given, NEW c \in Crawls, LookUpRoot(c) \/ ReadRoot(c) \/ PromoteRoot(c)
    PROVE  InventionInv'
<1> DEFINE s == crawl[c]
           keep == RecordOf(db, Root[c])
           r == RecordFor(db, s.keep)
           t == [s EXCEPT !.pc = "read", !.keep = keep]
           u == [s EXCEPT !.pc = "promote", !.keep = r]
<1>1. s \in JobStates /\ Known(db) /\ Whole(db)
    BY ConsistentNow
<1>2. t.pc = "read" /\ u.pc = "promote"
    BY <1>1 DEF JobStates
<1>3. LookUpRoot(c) => UNCHANGED db /\ (Become(c, Stopped(s, "failed")) \/ Become(c, t))
    BY DEF LookUpRoot
<1>4. ReadRoot(c) =>
        UNCHANGED db /\ (Become(c, Stopped(s, "failed")) \/ Become(c, Stopped(s, "done")) \/ Become(c, u))
    BY DEF ReadRoot
<1>5. PromoteRoot(c) => db'.doc = db.doc /\ Become(c, Stopped(s, "done"))
    <2>1. \A x \in Numbers : DocAfterNode(db, BareRecord(s.keep))[x] = db.doc[x]
        BY DEF DocAfterNode, BareRecord
    <2> QED BY <1>1, <2>1 DEF PromoteRoot, AfterSaveNode, DocAfterNode, BareRecord, Whole, Databases
<1> HIDE DEF t, u
<1>6. /\ OneInvention(t) /\ OneInvention(u)
      /\ OneInvention(Stopped(s, "failed")) /\ OneInvention(Stopped(s, "done"))
    BY <1>2, NothingIsTaken DEF OneInvention, Holding
<1>7. Known(db')
    BY <1>1, <1>3, <1>4, <1>5 DEF Known
<1> QED BY <1>3, <1>4, <1>5, <1>6, <1>7, ConsistentBecomes, Zenon

LEMMA CrawlStepAgrees ==
    ASSUME Consistent, UNCHANGED given, NEW c \in Crawls, CrawlStep(c)
    PROVE  InventionInv'
BY FetchAgrees, FetchFailsAgrees, FetchStoredAgrees, ReadRelationsAgrees, UnfetchedAgrees,
   ResolveCandidateAgrees, AllResolvedAgrees, WeighAgrees, AllWeighedAgrees, MergeDuplicateAgrees,
   AllMergedAgrees, LinkNeighbourAgrees, SaveNodeAgrees, RootAgrees, Zenon DEF CrawlStep

\* People make a number its own record, or take a record away; they never move one.
LEMMA PeopleAgree ==
    ASSUME Consistent, UNCHANGED given,
           \/ \E n \in DOMAIN World : LookUpToAdd(n)
           \/ AddPatent
           \/ AddDocument
           \/ \E p \in Projects, n \in Numbers, state \in ReviewStates : Curate(p, n, state)
           \/ \E n \in Numbers : SoftDelete(n)
    PROVE  InventionInv'
<1>1. Whole(db) /\ Known(db) /\ \A c \in Crawls : OneInvention(crawl[c])
    BY DEF Consistent, JobsOK, TypeOK, Whole, InventionInv
<1>2. UNCHANGED crawl
    BY Zenon DEF LookUpToAdd, AddPatent, AddDocument, Curate, SoftDelete
<1>3. \A x \in Numbers : db'.doc[x] \in {x, db.doc[x], NoNumber}
    <2>1. CASE AddPatent \/ \E n \in DOMAIN World : LookUpToAdd(n)
        BY <1>1, <2>1 DEF AddPatent, LookUpToAdd, AfterSavePatent, Whole, Databases
    <2>2. CASE AddDocument
        BY <1>1, <2>2 DEF AddDocument, AfterSaveDocument, Whole, Databases
    <2>3. ASSUME NEW p \in Projects, NEW n \in Numbers, NEW state \in ReviewStates, Curate(p, n, state)
          PROVE  db'.doc = db.doc
        <3>1. AfterAddMembership(db, p, n, state).doc = db.doc
              /\ Whole(AfterAddMembership(db, p, n, state))
            <4>1. Whole(AfterAddMembership(db, p, n, state))
                BY <1>1, <2>3, AddMembershipIsWhole, Zenon DEF Curate, CanAddMembership
            <4> QED BY <1>1, <4>1 DEF AfterAddMembership, Whole, Databases
        <3> HIDE DEF AfterAddMembership
        <3> QED BY <2>3, <3>1 DEF Curate, AfterSetReviewStates, Whole, Databases
    <2>4. ASSUME NEW n \in Numbers, SoftDelete(n)
          PROVE  \A x \in Numbers : db'.doc[x] \in {db.doc[x], NoNumber}
        <3> DEFINE demoted == Demoted(db, {n})
        <3>1. \A x \in Numbers : demoted.doc[x] \in {db.doc[x], NoNumber}
            BY <1>1 DEF Demoted, Whole, Databases
        <3>2. \A x \in Numbers : AfterSoftDelete(db, {n}).doc[x] \in {demoted.doc[x], NoNumber}
            BY DEF AfterSoftDelete, Purged
        <3> QED BY <2>4, <3>1, <3>2 DEF SoftDelete
    <2> QED BY <2>1, <2>2, <2>3, <2>4
<1>4. Known(db')
    BY <1>1, <1>3, SameIsEquivalence DEF Known
<1>5. World' = World /\ Inventions' = Inventions
    BY DEF World, Inventions
<1>6. ASSUME NEW x, NEW y PROVE Same(x, y)' <=> Same(x, y)
    BY <1>5 DEF Same
<1>7. Known(db)'
    BY <1>4, <1>6 DEF Known
<1>8. \A d \in Crawls : OneInvention(crawl[d])'
    BY <1>1, <1>2, <1>6 DEF OneInvention
<1> QED BY <1>7, <1>8 DEF InventionInv

LEMMA InitAgrees == Init => InventionInv
<1> SUFFICES ASSUME Init, Agreed(given) PROVE Known(db) /\ \A c \in Crawls : OneInvention(crawl[c])
    BY DEF InventionInv
<1>1. \A c \in Crawls : OneInvention(crawl[c])
    BY DEF Init, Idle, OneInvention, Holding
<1>2. ASSUME NEW x \in Numbers, db.doc[x] # NoNumber PROVE Same(x, db.doc[x])
    BY <1>2 DEF Init, Agreed, Same, Inventions, Invention, World
<1> QED BY <1>1, <1>2 DEF Known

LEMMA AgreedStep ==
    IInv /\ InventionInv /\ [Next /\ UNCHANGED given]_<<given, vars>> => InventionInv'
<1> SUFFICES ASSUME IInv, InventionInv, [Next /\ UNCHANGED given]_<<given, vars>>, Agreed(given)'
             PROVE  InventionInv'
    BY DEF InventionInv
<1>1. UNCHANGED given
    BY DEF vars
<1>2. Consistent
    BY <1>1 DEF IInv, Consistent
<1>3. CASE UNCHANGED <<given, vars>>
    BY <1>3 DEF vars, InventionInv, Known, OneInvention, Same, Inventions, World
<1>4. UNCHANGED <<given, vars>> \/ Next
    OBVIOUS
<1> QED BY <1>1, <1>2, <1>3, <1>4, CrawlStepAgrees, CancelAgrees, StartAgrees, PeopleAgree, Zenon DEF Next

THEOREM InventionInductive == Spec => [](IInv /\ InventionInv)
BY InitIsOK, StepKeeps, InitAgrees, AgreedStep, PTL DEF Spec

\* What of a merge can be seen in an invention both records belong to.
LEMMA MergeLosesNothing ==
    ASSUME Whole(db), NEW k \in Numbers, NEW n \in Numbers, k # n, NEW i \in SUBSET Numbers,
           n \in i <=> k \in i, db' = AfterMerge(db, k, n), NEW p \in Projects
    PROVE  /\ InProject(db, p, i) => InProject(db', p, i)
           /\ Kept(db, p, i) => Decided(db', p, i)
<1>1. \A x \in Numbers : db.mem[<<p, x>>] \in ReviewStates \union {NoState}
    BY DEF Whole, Databases
<1>2. \A x \in Numbers :
        db'.mem[<<p, x>>] = IF x = n THEN NoState
                            ELSE IF x = k THEN MergedState(db.mem[<<p, x>>], db.mem[<<p, n>>])
                            ELSE db.mem[<<p, x>>]
    <2> SUFFICES ASSUME NEW x \in Numbers
                 PROVE  db'.mem[<<p, x>>] = IF x = n THEN NoState
                            ELSE IF x = k THEN MergedState(db.mem[<<p, x>>], db.mem[<<p, n>>])
                            ELSE db.mem[<<p, x>>]
        OBVIOUS
    <2>1. <<p, x>> \in Projects \X Numbers /\ <<p, x>>[1] = p /\ <<p, x>>[2] = x
        OBVIOUS
    <2> QED BY <2>1 DEF AfterMerge
<1>3. InProject(db, p, i) => InProject(db', p, i)
    <2> SUFFICES ASSUME NEW x \in i, db.mem[<<p, x>>] # NoState
                 PROVE  \E y \in i : db'.mem[<<p, y>>] # NoState
        BY DEF InProject
    <2> QED BY <1>1, <1>2 DEF MergedState, NoState, AutoStates, ReviewStates
<1>4. Kept(db, p, i) => Decided(db', p, i)
    <2> SUFFICES ASSUME NEW x \in i, db.mem[<<p, x>>] = "under_review"
                 PROVE  \E y \in i : db'.mem[<<p, y>>] \notin AutoStates \union {NoState}
        BY DEF Kept, Decided
    <2> QED BY <1>1, <1>2 DEF MergedState, NoState, AutoStates, ReviewStates
<1> QED BY <1>3, <1>4

\* No other call of a job takes a membership or a body away.
LEMMA OnlyMergesTake ==
    ASSUME JobsOK, NEW c \in Crawls, ~MergeDuplicate(c),
           CrawlStep(c) \/ Cancel(c) \/ \E force \in BOOLEAN : StartCrawl(c, force)
    PROVE  db'.mem = db.mem /\ db.cached \subseteq db'.cached
<1>1. Whole(db)
    BY DEF JobsOK, TypeOK, Whole
<1>2. ASSUME NEW b, db' = AfterSaveNode(db, b)
      PROVE  db'.mem = db.mem /\ db.cached \subseteq db'.cached
    BY <1>1, <1>2 DEF AfterSaveNode, Whole, Databases
<1>3. UNCHANGED db \/ \E b : db' = AfterSaveNode(db, b)
    BY Zenon DEF CrawlStep, Cancel, StartCrawl, Fetch, FetchFails, FetchStored, ReadRelations,
        LookUpUnfetched, SaveStub, ResolveCandidate, AllResolved, Weigh, AllWeighed, AllMerged,
        LinkNeighbour, AllLinked, SaveNode, LookUpRoot, ReadRoot, PromoteRoot
<1> QED BY <1>2, <1>3

\* However several jobs and people interleave, no job takes an invention out of a
\* project or a decision about it back, and a job on its own loses no stored body
\* (document.go:127-132, crawl.go:593-598).
THEOREM NothingIsLost == Spec /\ Orderly(given) /\ Agreed(given) => CrawlsLoseNothing
<1> DEFINE Kind == crawl' # crawl =>
        \A i \in Inventions :
            /\ Alone /\ i \intersect db.cached # {} => i \intersect db'.cached # {}
            /\ \A p \in Projects :
                   /\ InProject(db, p, i) => InProject(db', p, i)
                   /\ Kept(db, p, i) => Decided(db', p, i)
<1>1. IInv /\ SteadyInv /\ InventionInv /\ Orderly(given) /\ Agreed(given)
      /\ [Next /\ UNCHANGED given]_<<given, vars>> => [Kind]_vars
    <2> SUFFICES ASSUME IInv, SteadyInv, InventionInv, Orderly(given), Agreed(given),
                        [Next /\ UNCHANGED given]_<<given, vars>>, crawl' # crawl,
                        NEW i \in Inventions
                 PROVE  /\ Alone /\ i \intersect db.cached # {} => i \intersect db'.cached # {}
                        /\ \A p \in Projects :
                               /\ InProject(db, p, i) => InProject(db', p, i)
                               /\ Kept(db, p, i) => Decided(db', p, i)
        BY Zenon
    <2>1. Consistent /\ JobsOK /\ UNCHANGED given /\ Whole(db)
        BY DEF IInv, Consistent, JobsOK, TypeOK, Whole, vars
    <2>2. PICK c \in Crawls : CrawlStep(c) \/ Cancel(c) \/ \E force \in BOOLEAN : StartCrawl(c, force)
        BY Zenon DEF vars, Next, LookUpToAdd, AddPatent, AddDocument, Curate, SoftDelete
    <2>3. i \in SUBSET Numbers
        BY <2>1, GivenTypes DEF Inventions, JobsOK, TypeOK, World
    <2>4. CASE MergeDuplicate(c)
        <3> DEFINE s == crawl[c]
                   n == CHOOSE x \in s.left : TRUE
        <3>1. s.pc = "merge" /\ n \in s.left
            BY <2>4 DEF MergeDuplicate
        <3>2. db' = AfterMerge(db, s.keep, n) \/ UNCHANGED db
            BY <2>4, Zenon DEF MergeDuplicate
        <3>3. Same(n, s.keep) /\ n # s.keep /\ n \in Numbers /\ s.keep \in Numbers
            BY <2>1, <3>1, MergedIsSame, Zenon
        <3>4. n \in i <=> s.keep \in i
            BY <3>3 DEF Same
        <3>5. Alone /\ n \in db.cached => s.keep \in db.cached
            BY <3>1 DEF SteadyInv, AloneInv, Held
        <3> HIDE DEF n, s
        <3>6. CASE UNCHANGED db
            BY <3>6 DEF InProject, Kept, Decided, AutoStates, NoState
        <3>7. CASE db' = AfterMerge(db, s.keep, n)
            <4>1. ASSUME NEW p \in Projects
                  PROVE  /\ InProject(db, p, i) => InProject(db', p, i)
                         /\ Kept(db, p, i) => Decided(db', p, i)
                BY <2>1, <2>3, <3>3, <3>4, <3>7, MergeLosesNothing, Zenon
            <4>2. i \intersect db.cached # {} /\ Alone => i \intersect db'.cached # {}
                <5>1. db'.cached = db.cached \ {n}
                    BY <3>7 DEF AfterMerge
                <5> QED BY <3>3, <3>4, <3>5, <5>1
            <4> QED BY <4>1, <4>2
        <3> QED BY <3>2, <3>6, <3>7
    <2>5. CASE ~MergeDuplicate(c)
        <3>1. db'.mem = db.mem /\ db.cached \subseteq db'.cached
            BY <2>1, <2>2, <2>5, OnlyMergesTake, Zenon
        <3> QED BY <3>1 DEF InProject, Kept, Decided, AutoStates, NoState
    <2> QED BY <2>4, <2>5
<1> QED BY <1>1, SteadyInductive, InventionInductive, StaysOrderly, PTL DEF Spec, CrawlsLoseNothing
=============================================================================
