-------------------------- MODULE RecordStoreProofs --------------------------
(***************************************************************************)
(* Proofs about RecordStore, for every set of numbers, projects, kinds,    *)
(* sources and batches.  Each transaction takes a well-formed database     *)
(* with whole references to another one; the invariant is that.            *)
(***************************************************************************)
EXTENDS RecordStore, TLAPS

\* What every transaction must preserve.
Whole(d) == d \in Databases /\ Integral(d)

\* A database is built from its columns.
LEMMA Columns ==
    ASSUME NEW d,
           NEW rec \in SUBSET Numbers, NEW cached \in SUBSET Numbers,
           NEW doc \in [Numbers -> Numbers \union {NoNumber}],
           NEW edge \in SUBSET (Numbers \X Numbers \X Kinds),
           NEW mem \in [Projects \X Numbers -> ReviewStates \union {NoState}],
           NEW note \in SUBSET (Projects \X Numbers),
           NEW bib \in SUBSET (Numbers \X Sources),
           d = [rec |-> rec, cached |-> cached, doc |-> doc, edge |-> edge,
                mem |-> mem, note |-> note, bib |-> bib]
    PROVE  d \in Databases
BY DEF Databases

\* The empty database is whole.
LEMMA EmptyIsWhole == Whole(EmptyDatabase)
<1>1. EmptyDatabase \in Databases
    BY DEF EmptyDatabase, Databases, NoState
<1>2. Integral(EmptyDatabase)
    BY NoNumberAssumption DEF EmptyDatabase, Integral, NoState
<1> QED BY <1>1, <1>2 DEF Whole

\* A cascading delete of any set of records.
LEMMA PurgeIsWhole ==
    ASSUME NEW d, Whole(d), NEW gone \in SUBSET Numbers
    PROVE  Whole(Purged(d, gone))
<1> DEFINE q == Purged(d, gone)
<1>1. q \in Databases
    BY DEF Whole, Purged, Databases, ReviewStates, AutoStates, NoState
<1>2. Integral(q)
    <2>1. q.cached \subseteq q.rec
        BY DEF Whole, Integral, Purged
    <2>2. \A x \in Numbers : q.doc[x] # NoNumber => q.doc[x] \in q.rec
        BY DEF Whole, Integral, Purged, Databases
    <2>3. \A e \in q.edge : e[1] \in q.rec /\ e[2] \in q.rec
        BY DEF Whole, Integral, Purged
    <2>4. \A m \in Projects \X Numbers : q.mem[m] # NoState => m[2] \in q.rec
        BY DEF Whole, Integral, Purged, Databases
    <2>5. \A m \in q.note : m[2] \in q.rec
        BY DEF Whole, Integral, Purged
    <2>6. \A b \in q.bib : b[1] \in q.rec
        BY DEF Whole, Integral, Purged
    <2> QED BY <2>1, <2>2, <2>3, <2>4, <2>5, <2>6 DEF Integral
<1> QED BY <1>1, <1>2 DEF Whole

\* Demotion keeps the records themselves.
LEMMA DemotionIsWhole ==
    ASSUME NEW d, Whole(d), NEW ns \in SUBSET Numbers
    PROVE  Whole(Demoted(d, ns))
<1> DEFINE q == Demoted(d, ns)
<1>1. q \in Databases
    BY DEF Whole, Demoted, Databases, ReviewStates, AutoStates, NoState
<1>2. Integral(q)
    <2>1. q.cached \subseteq q.rec
        BY DEF Whole, Integral, Demoted, Databases
    <2>2. \A x \in Numbers : q.doc[x] # NoNumber => q.doc[x] \in q.rec
        BY DEF Whole, Integral, Demoted, Databases
    <2>3. \A e \in q.edge : e[1] \in q.rec /\ e[2] \in q.rec
        BY DEF Whole, Integral, Demoted, Databases
    <2>4. \A m \in Projects \X Numbers : q.mem[m] # NoState => m[2] \in q.rec
        BY DEF Whole, Integral, Demoted, Databases
    <2>5. \A m \in q.note : m[2] \in q.rec
        BY DEF Whole, Integral, Demoted, Databases
    <2>6. \A b \in q.bib : b[1] \in q.rec
        BY DEF Whole, Integral, Demoted, Databases
    <2> QED BY <2>1, <2>2, <2>3, <2>4, <2>5, <2>6 DEF Integral
<1> QED BY <1>1, <1>2 DEF Whole

\* Demote all, then purge those nobody points at.
LEMMA SoftDeleteIsWhole ==
    ASSUME NEW d, Whole(d), NEW ns \in SUBSET Numbers
    PROVE  Whole(AfterSoftDelete(d, ns))
<1>1. Whole(Demoted(d, ns))
    BY DemotionIsWhole
<1>2. Orphans(Demoted(d, ns), ns) \in SUBSET Numbers
    BY DEF Orphans
<1> QED BY <1>1, <1>2, PurgeIsWhole DEF AfterSoftDelete

\* A batch that found both ends of every edge.
LEMMA NodeIsWhole ==
    ASSUME NEW d, Whole(d), NEW b \in NodeBatches, CanSaveNode(d, b)
    PROVE  Whole(AfterSaveNode(d, b))
<1> DEFINE q == AfterSaveNode(d, b)
<1>1. Owner(b) \in SUBSET Numbers /\ (b.patent # NoNumber => b.patent \in Owner(b))
    BY DEF Owner, NodeBatches
<1>2. DocAfterNode(d, b) \in [Numbers -> Numbers \union {NoNumber}]
    BY DEF DocAfterNode, Whole, Databases, NodeBatches
<1>3. /\ q.rec = d.rec \union Owner(b) \union b.stubs
      /\ q.cached = d.cached \union Owner(b)
      /\ q.doc = DocAfterNode(d, b)
      /\ q.edge = d.edge \union b.edges
      /\ q.mem = d.mem /\ q.note = d.note
      /\ q.bib = d.bib \union (Owner(b) \X b.bibs)
    BY DEF AfterSaveNode, Whole, Databases
<1>4. q \in Databases
    <2>1. Owner(b) \X b.bibs \in SUBSET (Numbers \X Sources)
        BY <1>1 DEF NodeBatches
    <2>2. \A rec, cached, doc, edge, bib :
              rec \in SUBSET Numbers /\ cached \in SUBSET Numbers
              /\ doc \in [Numbers -> Numbers \union {NoNumber}]
              /\ edge \in SUBSET (Numbers \X Numbers \X Kinds)
              /\ bib \in SUBSET (Numbers \X Sources)
              => [d EXCEPT !.rec = rec, !.cached = cached, !.doc = doc, !.edge = edge, !.bib = bib]
                     \in Databases
        BY DEF Whole, Databases
    <2> QED BY <1>1, <1>2, <2>1, <2>2 DEF AfterSaveNode, Whole, Databases, NodeBatches
<1>5. Integral(q)
    <2>1. q.cached \subseteq q.rec
        BY <1>3 DEF Whole, Integral
    <2>2. \A x \in Numbers : q.doc[x] # NoNumber => q.doc[x] \in q.rec
        BY <1>1, <1>3 DEF Whole, Integral, DocAfterNode
    <2>3. \A e \in q.edge : e[1] \in q.rec /\ e[2] \in q.rec
        BY <1>3 DEF Whole, Integral, CanSaveNode
    <2>4. \A m \in Projects \X Numbers : q.mem[m] # NoState => m[2] \in q.rec
        BY <1>3 DEF Whole, Integral
    <2>5. \A m \in q.note : m[2] \in q.rec
        BY <1>3 DEF Whole, Integral
    <2>6. \A r \in q.bib : r[1] \in q.rec
        BY <1>3 DEF Whole, Integral
    <2> QED BY <2>1, <2>2, <2>3, <2>4, <2>5, <2>6 DEF Integral
<1> QED BY <1>4, <1>5 DEF Whole

\* The state a merge leaves is one of the two it found.
LEMMA MergedStateIsOneOfTheTwo ==
    ASSUME NEW kept, NEW absorbed
    PROVE  MergedState(kept, absorbed) \in {kept, absorbed}
BY DEF MergedState

\* Everything that named absorb names keep, or is gone.
LEMMA MergeIsWhole ==
    ASSUME NEW d, Whole(d), NEW k \in Numbers, NEW a \in Numbers, k # a, CanMerge(d, k, a)
    PROVE  Whole(AfterMerge(d, k, a))
<1> DEFINE q == AfterMerge(d, k, a)
           bib == {<<Folded(k, a, r[1]), r[2]>> : r \in d.bib}
           mem == [m \in Projects \X Numbers |->
                     IF m[2] = a THEN NoState
                     ELSE IF m[2] = k THEN MergedState(d.mem[m], d.mem[<<m[1], a>>])
                     ELSE d.mem[m]]
<1>1. \A n \in Numbers : Folded(k, a, n) \in Numbers /\ (n \in d.rec => Folded(k, a, n) \in d.rec \ {a})
    BY DEF Folded, CanMerge
<1>2. MergedEdges(d, k, a) \in SUBSET (Numbers \X Numbers \X Kinds)
    BY <1>1 DEF MergedEdges, Whole, Databases
<1>3. bib \in SUBSET (Numbers \X Sources)
    BY <1>1 DEF Whole, Databases
<1>4. mem \in [Projects \X Numbers -> ReviewStates \union {NoState}]
    <2>1. ASSUME NEW m \in Projects \X Numbers
          PROVE  mem[m] \in ReviewStates \union {NoState}
        <3>1. <<m[1], a>> \in Projects \X Numbers
            OBVIOUS
        <3>2. d.mem[m] \in ReviewStates \union {NoState} /\ d.mem[<<m[1], a>>] \in ReviewStates \union {NoState}
            BY <3>1 DEF Whole, Databases
        <3> QED BY <3>2, MergedStateIsOneOfTheTwo
    <2> QED BY <2>1
<1>5. q \in Databases
    BY <1>2, <1>3, <1>4 DEF AfterMerge, Whole, Databases
<1>6. Integral(q)
    <2>1. q.cached \subseteq q.rec
        BY DEF Whole, Integral, AfterMerge
    <2>2. \A x \in Numbers : q.doc[x] # NoNumber => q.doc[x] \in q.rec
        BY DEF Whole, Integral, AfterMerge, CanMerge
    <2>3. \A e \in q.edge : e[1] \in q.rec /\ e[2] \in q.rec
        BY <1>1 DEF Whole, Integral, AfterMerge, MergedEdges, Databases
    <2>4. \A m \in Projects \X Numbers : q.mem[m] # NoState => m[2] \in q.rec
        BY DEF Whole, Integral, AfterMerge, CanMerge
    <2>5. \A m \in q.note : m[2] \in q.rec
        BY DEF Whole, Integral, AfterMerge
    <2>6. \A r \in q.bib : r[1] \in q.rec
        BY <1>1 DEF Whole, Integral, AfterMerge, Databases
    <2> QED BY <2>1, <2>2, <2>3, <2>4, <2>5, <2>6 DEF Integral
<1> QED BY <1>5, <1>6 DEF Whole

\* The single-row statements.
LEMMA SavePatentIsWhole ==
    ASSUME NEW d, Whole(d), NEW n \in Numbers, NEW cached \in BOOLEAN
    PROVE  Whole(AfterSavePatent(d, n, cached))
BY DEF Whole, Integral, Databases, AfterSavePatent

LEMMA SaveDocumentIsWhole ==
    ASSUME NEW d, Whole(d), NEW r \in Numbers, NEW x \in Numbers, CanSaveDocument(d, r)
    PROVE  Whole(AfterSaveDocument(d, r, x))
BY DEF Whole, Integral, Databases, AfterSaveDocument, CanSaveDocument

LEMMA SaveRelationIsWhole ==
    ASSUME NEW d, Whole(d), NEW e \in Numbers \X Numbers \X Kinds, CanSaveRelation(d, e)
    PROVE  Whole(AfterSaveRelation(d, e))
BY DEF Whole, Integral, Databases, AfterSaveRelation, CanSaveRelation

LEMMA SetStatesIsWhole ==
    ASSUME NEW d, Whole(d), NEW p, NEW ns, NEW to \in ReviewStates
    PROVE  Whole(AfterSetReviewStates(d, p, ns, to))
BY DEF Whole, Integral, Databases, AfterSetReviewStates

LEMMA PromoteIsWhole ==
    ASSUME NEW d, Whole(d), NEW n, NEW from \in ReviewStates, NEW to \in ReviewStates
    PROVE  Whole(AfterPromote(d, n, from, to))
BY DEF Whole, Integral, Databases, AfterPromote, ReviewStates, AutoStates, NoState

LEMMA DeleteMembershipIsWhole ==
    ASSUME NEW d, Whole(d), NEW p \in Projects, NEW n \in Numbers
    PROVE  Whole(AfterDeleteMembership(d, p, n))
BY DEF Whole, Integral, Databases, AfterDeleteMembership, NoState

LEMMA AddMembershipIsWhole ==
    ASSUME NEW d, Whole(d), NEW p \in Projects, NEW n \in Numbers, NEW to \in ReviewStates,
           CanAddMembership(d, n)
    PROVE  Whole(AfterAddMembership(d, p, n, to))
<1> SUFFICES ASSUME d.mem[<<p, n>>] = NoState
             PROVE  Whole([d EXCEPT !.mem = [@ EXCEPT ![<<p, n>>] = to]])
    BY DEF AfterAddMembership
<1> DEFINE mem == [d.mem EXCEPT ![<<p, n>>] = to]
<1>1. mem \in [Projects \X Numbers -> ReviewStates \union {NoState}]
    BY DEF Whole, Databases
<1>2. \A m \in Projects \X Numbers : mem[m] # NoState => m[2] \in d.rec
    BY DEF Whole, Databases, Integral, CanAddMembership
<1> HIDE DEF mem
<1>3. Whole([d EXCEPT !.mem = mem])
    BY <1>1, <1>2 DEF Whole, Databases, Integral
<1> QED BY <1>3 DEF mem

LEMMA NotesAreWhole ==
    ASSUME NEW d, Whole(d), NEW p \in Projects, NEW n \in Numbers
    PROVE  /\ CanSaveNote(d, n) => Whole(AfterSaveNote(d, p, n))
           /\ Whole(AfterDeleteNote(d, p, n))
<1>1. \A note \in SUBSET (Projects \X Numbers) :
          (\A m \in note : m[2] \in d.rec) => Whole([d EXCEPT !.note = note])
    BY DEF Whole, Integral, Databases
<1>2. d.note \in SUBSET (Projects \X Numbers) /\ \A m \in d.note : m[2] \in d.rec
    BY DEF Whole, Integral, Databases
<1>3. CanSaveNote(d, n) => Whole(AfterSaveNote(d, p, n))
    <2>1. d.note \union {<<p, n>>} \in SUBSET (Projects \X Numbers)
        BY <1>2
    <2> QED BY <1>1, <1>2, <2>1 DEF AfterSaveNote, CanSaveNote
<1>4. Whole(AfterDeleteNote(d, p, n))
    BY <1>1, <1>2 DEF AfterDeleteNote
<1> QED BY <1>3, <1>4

(***************************************************************************)
(* The invariant.                                                          *)
(***************************************************************************)
IInv == Whole(db)

\* A transaction that keeps a whole database whole keeps the invariant, whether
\* it commits or rolls back.
LEMMA TransactKeepsWhole ==
    ASSUME IInv, NEW fits, NEW after, NEW call, fits => Whole(after), Transact(fits, after, call)
    PROVE  IInv'
BY DEF IInv, Transact, Whole, Integral

LEMMA StepKeepsWhole == IInv /\ [Next]_vars => IInv'
<1> SUFFICES ASSUME IInv, [Next]_vars PROVE IInv'
    OBVIOUS
<1> USE DEF IInv
<1>1. ASSUME NEW n \in Numbers, NEW cached \in BOOLEAN, SavePatent(n, cached) PROVE IInv'
    BY <1>1, SavePatentIsWhole, TransactKeepsWhole, Zenon DEF SavePatent
<1>2. ASSUME NEW r \in Numbers, NEW x \in Numbers, SaveDocument(r, x) PROVE IInv'
    BY <1>2, SaveDocumentIsWhole, TransactKeepsWhole, Zenon DEF SaveDocument
<1>3. ASSUME NEW b \in Batches, SaveNode(b) PROVE IInv'
    BY <1>3, NodeIsWhole, BatchesAssumption, TransactKeepsWhole, Zenon DEF SaveNode
<1>4. ASSUME NEW e \in Numbers \X Numbers \X Kinds, SaveRelation(e) PROVE IInv'
    BY <1>4, SaveRelationIsWhole, TransactKeepsWhole, Zenon DEF SaveRelation
<1>5. ASSUME NEW k \in Numbers, NEW a \in Numbers, MergeRecords(k, a) PROVE IInv'
    BY <1>5, MergeIsWhole, TransactKeepsWhole, Zenon DEF MergeRecords
<1>6. ASSUME NEW ns \in SUBSET Numbers, SoftDeletePatents(ns) PROVE IInv'
    BY <1>6, SoftDeleteIsWhole, TransactKeepsWhole, Zenon DEF SoftDeletePatents
<1>7. ASSUME NEW ns \in SUBSET Numbers, DeletePatents(ns) PROVE IInv'
    BY <1>7, PurgeIsWhole, TransactKeepsWhole, Zenon DEF DeletePatents, AfterDelete
<1>8. ASSUME NEW p \in Projects, NEW n \in Numbers, NEW st \in ReviewStates, AddMembership(p, n, st)
      PROVE  IInv'
    BY <1>8, AddMembershipIsWhole, TransactKeepsWhole, Zenon DEF AddMembership
<1>9. ASSUME NEW p \in Projects, NEW ns \in SUBSET Numbers, NEW st \in ReviewStates,
             SetReviewStates(p, ns, st)
      PROVE  IInv'
    BY <1>9, SetStatesIsWhole, TransactKeepsWhole, Zenon DEF SetReviewStates
<1>10. ASSUME NEW n \in Numbers, NEW from \in ReviewStates, NEW to \in ReviewStates,
              PromotePatentMemberships(n, from, to)
       PROVE  IInv'
    BY <1>10, PromoteIsWhole, TransactKeepsWhole, Zenon DEF PromotePatentMemberships
<1>11. ASSUME NEW p \in Projects, NEW n \in Numbers, DeleteMembership(p, n) PROVE IInv'
    BY <1>11, DeleteMembershipIsWhole, TransactKeepsWhole, Zenon DEF DeleteMembership
<1>12. ASSUME NEW p \in Projects, NEW n \in Numbers, SavePatentNote(p, n) PROVE IInv'
    BY <1>12, NotesAreWhole, TransactKeepsWhole, Zenon DEF SavePatentNote
<1>13. ASSUME NEW p \in Projects, NEW n \in Numbers, DeletePatentNote(p, n) PROVE IInv'
    BY <1>13, NotesAreWhole, TransactKeepsWhole, Zenon DEF DeletePatentNote
<1>14. CASE UNCHANGED vars
    BY <1>14 DEF vars, Whole, Integral
<1> HIDE DEF IInv
<1> QED
    BY <1>1, <1>2, <1>3, <1>4, <1>5, <1>6, <1>7, <1>8, <1>9, <1>10, <1>11, <1>12, <1>13, <1>14,
       Zenon DEF Next

\* The tables hold whole references at every moment.
THEOREM StoreInductive == Spec => []IInv
<1>1. Init => IInv
    BY EmptyIsWhole DEF Init, IInv
<1> QED BY <1>1, StepKeepsWhole, PTL DEF Spec

\* Whatever mixture of transactions ran, every row that names a record names one
\* that exists.
THEOREM StoreIntegrity == Spec => []ReferentialIntegrity
<1>1. IInv => ReferentialIntegrity
    BY DEF IInv, Whole, ReferentialIntegrity
<1> QED BY <1>1, StoreInductive, PTL

(***************************************************************************)
(* What single transactions promise.                                       *)
(***************************************************************************)
\* The reply tells which transaction ran.
LEMMA OnlyMergesReplyMerge ==
    ASSUME Next, reply'.op = "merge"
    PROVE  \E k, a \in Numbers : MergeRecords(k, a) /\ reply' =
               [op |-> "merge", keep |-> k, absorb |-> a, ok |-> CanMerge(db, k, a)]
BY DEF Next, SavePatent, SaveDocument, SaveNode, SaveRelation, MergeRecords, SoftDeletePatents,
       DeletePatents, AddMembership, SetReviewStates, PromotePatentMemberships, DeleteMembership,
       SavePatentNote, DeletePatentNote, Transact, Done

LEMMA OnlyBatchesReplySaveNode ==
    ASSUME Next, reply'.op = "save_node"
    PROVE  \E b \in Batches : SaveNode(b)
BY DEF Next, SavePatent, SaveDocument, SaveNode, SaveRelation, MergeRecords, SoftDeletePatents,
       DeletePatents, AddMembership, SetReviewStates, PromotePatentMemberships, DeleteMembership,
       SavePatentNote, DeletePatentNote, Transact, Done

\* A merge keeps every membership and every decision a person made, for any number of
\* records and projects.
THEOREM MergesKeepCuration == Spec => MergeKeepsCuration
<1> DEFINE Kept ==
        reply'.op = "merge" /\ reply'.ok =>
            \A p \in Projects :
                LET kept     == db.mem[<<p, reply'.keep>>]
                    absorbed == db.mem[<<p, reply'.absorb>>]
                    merged   == db'.mem[<<p, reply'.keep>>]
                IN  /\ merged = NoState <=> kept = NoState /\ absorbed = NoState
                    /\ kept \notin AutoStates \union {NoState} => merged = kept
                    /\ Live(absorbed) /\ absorbed \notin AutoStates /\ kept \in AutoStates
                           => merged \notin AutoStates
                    /\ Live(kept) => Live(merged)
<1>1. IInv /\ [Next]_vars => [Kept]_vars
    <2> SUFFICES ASSUME Next, reply'.op = "merge", reply'.ok, NEW p \in Projects
                 PROVE  LET kept     == db.mem[<<p, reply'.keep>>]
                            absorbed == db.mem[<<p, reply'.absorb>>]
                            merged   == db'.mem[<<p, reply'.keep>>]
                        IN  /\ merged = NoState <=> kept = NoState /\ absorbed = NoState
                            /\ kept \notin AutoStates \union {NoState} => merged = kept
                            /\ Live(absorbed) /\ absorbed \notin AutoStates /\ kept \in AutoStates
                                   => merged \notin AutoStates
                            /\ Live(kept) => Live(merged)
        OBVIOUS
    <2>1. PICK k \in Numbers, a \in Numbers :
              MergeRecords(k, a) /\ reply' =
                  [op |-> "merge", keep |-> k, absorb |-> a, ok |-> CanMerge(db, k, a)]
        BY OnlyMergesReplyMerge
    <2>2. k # a /\ reply'.keep = k /\ reply'.absorb = a /\ db' = AfterMerge(db, k, a)
        BY <2>1 DEF MergeRecords, Transact
    <2>3. db'.mem[<<p, k>>] = MergedState(db.mem[<<p, k>>], db.mem[<<p, a>>])
        BY <2>2 DEF AfterMerge
    <2> QED BY <2>2, <2>3 DEF MergedState, Live, AutoStates, NoState
<1> QED BY <1>1, StoreInductive, PTL DEF Spec, MergeKeepsCuration

\* After a merge the graph is the old one with the two records made one.
THEOREM MergesKeepTheGraph == Spec => MergeKeepsTheGraph
<1> DEFINE Kept ==
        reply'.op = "merge" /\ reply'.ok =>
            LET k == reply'.keep
                a == reply'.absorb
            IN  \A x \in Numbers \ {k, a}, kind \in Kinds :
                    /\ <<x, k, kind>> \in db'.edge <=>
                           <<x, k, kind>> \in db.edge \/ <<x, a, kind>> \in db.edge
                    /\ <<k, x, kind>> \in db'.edge <=>
                           <<k, x, kind>> \in db.edge \/ <<a, x, kind>> \in db.edge
<1>1. IInv /\ [Next]_vars => [Kept]_vars
    <2> SUFFICES ASSUME IInv, Next, reply'.op = "merge", reply'.ok PROVE Kept
        OBVIOUS
    <2>1. PICK k \in Numbers, a \in Numbers :
              MergeRecords(k, a) /\ reply' =
                  [op |-> "merge", keep |-> k, absorb |-> a, ok |-> CanMerge(db, k, a)]
        BY OnlyMergesReplyMerge
    <2>2. k # a /\ reply'.keep = k /\ reply'.absorb = a /\ db'.edge = MergedEdges(db, k, a)
        BY <2>1 DEF MergeRecords, Transact, AfterMerge
    <2>3. db.edge \subseteq Numbers \X Numbers \X Kinds
        BY DEF IInv, Whole, Databases
    <2>4. ASSUME NEW x \in Numbers \ {k, a}, NEW kind \in Kinds
          PROVE  /\ <<x, k, kind>> \in db'.edge <=>
                        <<x, k, kind>> \in db.edge \/ <<x, a, kind>> \in db.edge
                 /\ <<k, x, kind>> \in db'.edge <=>
                        <<k, x, kind>> \in db.edge \/ <<a, x, kind>> \in db.edge
        BY <2>2, <2>3 DEF MergedEdges, Folded
    <2> QED BY <2>2, <2>4
<1> QED BY <1>1, StoreInductive, PTL DEF Spec, MergeKeepsTheGraph

\* Together: MergeRecords is non-lossy for the memberships and for the graph.
THEOREM MergesLoseNothing == Spec => MergeLosesNothing
  BY MergesKeepCuration, MergesKeepTheGraph DEF MergeLosesNothing

\* A stub never claims a number that a record holds.
THEOREM StubsClaimNothingEver == Spec => StubsClaimNothing
<1> DEFINE Kept ==
        reply'.op = "save_node" =>
            /\ db.cached \subseteq db'.cached
            /\ \A x \in Numbers :
                   db.doc[x] # NoNumber /\ db'.doc[x] # db.doc[x] =>
                       x \in reply'.docs /\ db'.doc[x] = reply'.patent
<1>1. IInv /\ [Next]_vars => [Kept]_vars
    <2> SUFFICES ASSUME IInv, Next, reply'.op = "save_node" PROVE Kept
        OBVIOUS
    <2>1. PICK b \in Batches : SaveNode(b)
        BY OnlyBatchesReplySaveNode
    <2>2. reply'.docs = b.docs /\ reply'.patent = b.patent
        BY <2>1 DEF SaveNode, Transact
    <2>3. CASE db' = db
        BY <2>3
    <2>4. CASE db' = AfterSaveNode(db, b)
        <3>1. db'.doc = DocAfterNode(db, b) /\ db.cached \subseteq db'.cached
            BY <2>4 DEF AfterSaveNode, IInv, Whole, Databases
        <3> QED BY <2>2, <3>1 DEF DocAfterNode
    <2> QED BY <2>1, <2>3, <2>4 DEF SaveNode, Transact
<1> QED BY <1>1, StoreInductive, PTL DEF Spec, StubsClaimNothing

\* Of a batch of soft-deleted patents exactly those a patent outside the batch points
\* at survive, as stubs.
THEOREM SoftDeletesKeepReferencedOnly == Spec => SoftDeleteKeepsReferencedOnly
<1> DEFINE Kept ==
        reply'.op = "soft_delete" /\ reply'.ok =>
            /\ \A n \in reply'.patents :
                   n \in db'.rec \ db'.cached <=>
                       \E e \in db.edge : e[2] = n /\ e[1] \notin reply'.patents
            /\ {e \in db'.edge : e[1] \notin reply'.patents} =
                   {e \in db.edge : e[1] \notin reply'.patents}
<1>1. IInv /\ [Next]_vars => [Kept]_vars
    <2> SUFFICES ASSUME IInv, Next, reply'.op = "soft_delete", reply'.ok PROVE Kept
        OBVIOUS
    <2>1. PICK ns \in SUBSET Numbers : SoftDeletePatents(ns) /\ reply'.patents = ns
        BY DEF Next, SavePatent, SaveDocument, SaveNode, SaveRelation, MergeRecords,
               SoftDeletePatents, DeletePatents, AddMembership, SetReviewStates,
               PromotePatentMemberships, DeleteMembership, SavePatentNote, DeletePatentNote,
               Transact, Done
    <2> DEFINE demoted == Demoted(db, ns)
    <2>2. CanDelete(db, ns) /\ db' = Purged(demoted, Orphans(demoted, ns))
        BY <2>1 DEF SoftDeletePatents, Transact, AfterSoftDelete
    <2>3. /\ demoted.rec = db.rec
          /\ demoted.edge = {e \in db.edge : e[1] \notin ns}
          /\ demoted.cached = db.cached \ ns
        BY DEF Demoted, IInv, Whole, Databases
    <2>4. /\ db'.rec = demoted.rec \ Orphans(demoted, ns)
          /\ db'.cached = demoted.cached \ Orphans(demoted, ns)
          /\ db'.edge = {e \in demoted.edge : e[1] \notin Orphans(demoted, ns)
                                             /\ e[2] \notin Orphans(demoted, ns)}
        BY <2>2 DEF Purged
    <2>5. Orphans(demoted, ns) = {n \in ns : \A e \in demoted.edge : e[2] # n}
        BY DEF Orphans
    <2>6. ASSUME NEW n \in ns
          PROVE  n \in db'.rec \ db'.cached <=> \E e \in db.edge : e[2] = n /\ e[1] \notin ns
        BY <2>2, <2>3, <2>4, <2>5 DEF CanDelete
    <2>7. db'.edge = {e \in db.edge : e[1] \notin ns}
        BY <2>3, <2>4, <2>5
    <2> QED BY <2>1, <2>6, <2>7
<1> QED BY <1>1, StoreInductive, PTL DEF Spec, SoftDeleteKeepsReferencedOnly
=============================================================================
