------------------------------- MODULE Records -------------------------------
(***************************************************************************)
(* The tables of the sqlite store that patents share, and what one         *)
(* transaction of store.Repository does to them.  A database is a value,   *)
(* and each method of the repository is a pair of operators on it: the     *)
(* condition under which the transaction commits, and the database it      *)
(* leaves.  RecordStore makes the calls; FamilyCrawl interleaves them.     *)
(*                                                                         *)
(* A number names a record (table record) or one of its life-stage         *)
(* documents (table document): application, publication, grant.            *)
(***************************************************************************)
CONSTANTS Numbers,    \* canonical patent numbers
          Projects,   \* existing projects
          Kinds,      \* relation kinds: cites, cited_by, parent, child
          Sources,    \* providers whose rows are kept per record
          NoNumber    \* no record, no patent in a batch

ASSUME NoNumberAssumption == NoNumber \notin Numbers

\* "under_review" stands for every state a person chose: active and ignored are
\* treated as it is by all the code below.
NoState      == "none"
AutoStates   == {"unknown", "needs_triage"}
ReviewStates == AutoStates \union {"under_review", "deleted"}

(***************************************************************************)
(* rec     numbers with a row in record; cached: those fetched in full     *)
(* doc     the record each document number belongs to                      *)
(* edge    rows of relation: from, to, kind                                *)
(* mem     review state of each membership, NoState without a row          *)
(* note    notes and tags a person attached (project_patent_note,          *)
(*         patent_tag), both keyed by record number                        *)
(* bib     records holding rows of a source, keyed by the record's id      *)
(***************************************************************************)
Databases ==
    [rec    : SUBSET Numbers,
     cached : SUBSET Numbers,
     doc    : [Numbers -> Numbers \union {NoNumber}],
     edge   : SUBSET (Numbers \X Numbers \X Kinds),
     mem    : [Projects \X Numbers -> ReviewStates \union {NoState}],
     note   : SUBSET (Projects \X Numbers),
     bib    : SUBSET (Numbers \X Sources)]

EmptyDatabase ==
    [rec |-> {}, cached |-> {}, doc |-> [x \in Numbers |-> NoNumber],
     edge |-> {}, mem |-> [m \in Projects \X Numbers |-> NoState],
     note |-> {}, bib |-> {}]

\* The foreign keys of schema.sql: every row that names a record names one there is.
Integral(d) ==
    /\ d.cached \subseteq d.rec
    /\ \A x \in Numbers : d.doc[x] # NoNumber => d.doc[x] \in d.rec
    /\ \A e \in d.edge : e[1] \in d.rec /\ e[2] \in d.rec
    /\ \A m \in Projects \X Numbers : d.mem[m] # NoState => m[2] \in d.rec
    /\ \A m \in d.note : m[2] \in d.rec
    /\ \A b \in d.bib : b[1] \in d.rec

NodeBatches ==
    [patent : Numbers \union {NoNumber}, docs : SUBSET Numbers,
     stubs : SUBSET Numbers, edges : SUBSET (Numbers \X Numbers \X Kinds),
     bibs : SUBSET Sources]

RecordOf(db, n) == db.doc[n]

\* Patent(n) answers for the record n belongs to, or for n itself.
RecordFor(db, n) == IF db.doc[n] = NoNumber THEN n ELSE db.doc[n]
IsCached(db, n)  == RecordFor(db, n) \in db.cached

DocumentsOf(db, r) == {x \in Numbers : db.doc[x] = r}

(***************************************************************************)
(* Deletion cascades to every table that references the record.            *)
(***************************************************************************)
\* A slip: relation.to_number does not cascade.
PurgedKeepingInbound(db, gone) ==
    [rec    |-> db.rec \ gone,
     cached |-> db.cached \ gone,
     doc    |-> [x \in Numbers |-> IF db.doc[x] \in gone THEN NoNumber ELSE db.doc[x]],
     edge   |-> {e \in db.edge : e[1] \notin gone},
     mem    |-> [m \in Projects \X Numbers |-> IF m[2] \in gone THEN NoState ELSE db.mem[m]],
     note   |-> {m \in db.note : m[2] \notin gone},
     bib    |-> {b \in db.bib : b[1] \notin gone}]

Purged(db, gone) ==
    [rec    |-> db.rec \ gone,
     cached |-> db.cached \ gone,
     doc    |-> [x \in Numbers |-> IF db.doc[x] \in gone THEN NoNumber ELSE db.doc[x]],
     edge   |-> {e \in db.edge : e[1] \notin gone /\ e[2] \notin gone},
     mem    |-> [m \in Projects \X Numbers |-> IF m[2] \in gone THEN NoState ELSE db.mem[m]],
     note   |-> {m \in db.note : m[2] \notin gone},
     bib    |-> {b \in db.bib : b[1] \notin gone}]

CanDelete(db, ns)     == ns \subseteq db.rec
AfterDelete(db, ns)   == Purged(db, ns)

(***************************************************************************)
(* Upserts.                                                                *)
(***************************************************************************)
AfterSavePatent(db, n, cached) ==
    [db EXCEPT !.rec    = @ \union {n},
               !.cached = IF cached THEN @ \union {n} ELSE @ \ {n}]

CanSaveDocument(db, r)      == r \in db.rec
AfterSaveDocument(db, r, x) == [db EXCEPT !.doc = [@ EXCEPT ![x] = r]]

CanSaveRelation(db, e)   == {e[1], e[2]} \subseteq db.rec
AfterSaveRelation(db, e) == [db EXCEPT !.edge = @ \union {e}]

(***************************************************************************)
(* SaveNode: the fetched record and its documents are upserted, stubs are  *)
(* inserted only where the number is new in either table, and every edge   *)
(* must find both of its records or the whole batch is rolled back.        *)
(***************************************************************************)
Owner(b) == {b.patent} \ {NoNumber}

CanSaveNode(db, b) ==
    \A e \in b.edges : {e[1], e[2]} \subseteq db.rec \union Owner(b) \union b.stubs

DocAfterNode(db, b) ==
    [x \in Numbers |->
        IF b.patent # NoNumber /\ x \in b.docs THEN b.patent
        ELSE IF x \in b.stubs /\ db.doc[x] = NoNumber THEN x
        ELSE db.doc[x]]

AfterSaveNode(db, b) ==
    [db EXCEPT !.rec    = @ \union Owner(b) \union b.stubs,
               !.cached = @ \union Owner(b),
               !.doc    = DocAfterNode(db, b),
               !.edge   = @ \union b.edges,
               !.bib    = @ \union (Owner(b) \X b.bibs)]

(***************************************************************************)
(* MergeRecords: absorb is folded into keep.  Memberships collide project  *)
(* by project; notes and tags are in no statement of the transaction and   *)
(* go with absorb's row.                                                   *)
(***************************************************************************)
CanMerge(db, keep, absorb) == {keep, absorb} \subseteq db.rec

Folded(keep, absorb, n) == IF n = absorb THEN keep ELSE n

\* A slip: only the memberships keep has already are looked at.
MergedStateOfKept(kept, absorbed) == kept

\* A slip: a decision on absorb overwrites whatever keep has.
MergedStateOverwriting(kept, absorbed) ==
    IF absorbed # NoState THEN absorbed ELSE kept

MergedState(kept, absorbed) ==
    IF kept = NoState THEN absorbed
    ELSE IF kept \in AutoStates /\ absorbed \notin AutoStates \union {"deleted", NoState}
         THEN absorbed
         ELSE kept

MergedEdges(db, keep, absorb) ==
    {e \in {<<Folded(keep, absorb, f[1]), Folded(keep, absorb, f[2]), f[3]>> : f \in db.edge} :
        e[1] # e[2]}

AfterMerge(db, keep, absorb) ==
    [rec    |-> db.rec \ {absorb},
     cached |-> db.cached \ {absorb},
     doc    |-> [x \in Numbers |-> IF db.doc[x] = absorb THEN keep ELSE db.doc[x]],
     edge   |-> MergedEdges(db, keep, absorb),
     mem    |-> [m \in Projects \X Numbers |->
                    IF m[2] = absorb THEN NoState
                    ELSE IF m[2] = keep THEN MergedState(db.mem[m], db.mem[<<m[1], absorb>>])
                    ELSE db.mem[m]],
     note   |-> {m \in db.note : m[2] # absorb},
     bib    |-> {<<Folded(keep, absorb, b[1]), b[2]>> : b \in db.bib}]

(***************************************************************************)
(* SoftDeletePatents: everything that hangs off each patent goes except    *)
(* inbound edges and source rows, the record is demoted to a stub, and     *)
(* then those no edge points at are purged.                                *)
(***************************************************************************)
Demoted(db, ns) ==
    [db EXCEPT !.cached = @ \ ns,
               !.doc    = [x \in Numbers |-> IF @[x] \in ns THEN NoNumber ELSE @[x]],
               !.edge   = {e \in @ : e[1] \notin ns},
               !.mem    = [m \in Projects \X Numbers |-> IF m[2] \in ns THEN NoState ELSE @[m]],
               !.note   = {m \in @ : m[2] \notin ns}]

Orphans(db, ns) == {n \in ns : \A e \in db.edge : e[2] # n}

\* A slip: each patent is demoted and checked before the next one is demoted,
\* so a pair that cites each other keeps the edge that is looked at first.
AfterSoftDeleteOneByOne(db, ns) ==
    Demoted(Purged(db, Orphans(db, ns)), ns \ Orphans(db, ns))

AfterSoftDelete(db, ns) ==
    LET demoted == Demoted(db, ns) IN Purged(demoted, Orphans(demoted, ns))

(***************************************************************************)
(* Memberships and notes.                                                  *)
(***************************************************************************)
CanAddMembership(db, n)   == n \in db.rec
AfterAddMembership(db, p, n, state) ==
    IF db.mem[<<p, n>>] # NoState THEN db
    ELSE [db EXCEPT !.mem = [@ EXCEPT ![<<p, n>>] = state]]

AfterSetReviewStates(db, p, ns, state) ==
    [db EXCEPT !.mem = [m \in Projects \X Numbers |->
        IF m[1] = p /\ m[2] \in ns /\ @[m] # NoState THEN state ELSE @[m]]]

AfterPromote(db, n, from, to) ==
    [db EXCEPT !.mem = [m \in Projects \X Numbers |->
        IF m[2] = n /\ @[m] = from THEN to ELSE @[m]]]

AfterDeleteMembership(db, p, n) ==
    [db EXCEPT !.mem = [@ EXCEPT ![<<p, n>>] = NoState]]

CanSaveNote(db, n)         == n \in db.rec
AfterSaveNote(db, p, n)    == [db EXCEPT !.note = @ \union {<<p, n>>}]
AfterDeleteNote(db, p, n)  == [db EXCEPT !.note = @ \ {<<p, n>>}]
=============================================================================
