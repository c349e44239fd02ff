----------------------------- MODULE RecordStore -----------------------------
(***************************************************************************)
(* The repository of package store/sqlite as its callers see it: each      *)
(* method runs as one transaction on the single writer connection, commits *)
(* or rolls back whole, and leaves its reply.  What each transaction does  *)
(* to the tables is in module Records.                                     *)
(***************************************************************************)
EXTENDS Records, Naturals

CONSTANTS Batches,    \* the batches callers hand to SaveNode
          MaxCalls    \* bound: transactions in one behaviour

ASSUME BatchesAssumption == Batches \subseteq NodeBatches

VARIABLES db,         \* the tables
          reply,      \* the last call, its arguments and whether it committed
          calls

vars == <<db, reply, calls>>

Calls ==
    [op : {"none", "save_patent", "save_document", "save_relation",
           "add_membership", "promote", "delete_membership", "save_note", "delete_note"},
     ok : BOOLEAN]
    \union [op : {"save_node"}, patent : Numbers \union {NoNumber}, docs : SUBSET Numbers,
            ok : BOOLEAN]
    \union [op : {"merge"}, keep : Numbers, absorb : Numbers, ok : BOOLEAN]
    \union [op : {"soft_delete", "delete"}, patents : SUBSET Numbers, ok : BOOLEAN]
    \union [op : {"set_states"}, project : Projects, patents : SUBSET Numbers, ok : BOOLEAN]

TypeOK ==
    /\ db \in Databases
    /\ reply \in Calls
    /\ calls \in Nat

Init ==
    /\ db = EmptyDatabase
    /\ reply = [op |-> "none", ok |-> TRUE]
    /\ calls = 0

\* One transaction: all of it or, with an error, none of it.
Transact(fits, after, call) ==
    /\ calls < MaxCalls
    /\ calls' = calls + 1
    /\ reply' = call
    /\ call.ok = fits
    /\ db' = IF fits THEN after ELSE db

Done(op, fits) == [op |-> op, ok |-> fits]

SavePatent(n, cached) ==
    Transact(TRUE, AfterSavePatent(db, n, cached), Done("save_patent", TRUE))

SaveDocument(r, x) ==
    Transact(CanSaveDocument(db, r), AfterSaveDocument(db, r, x),
             Done("save_document", CanSaveDocument(db, r)))

SaveNode(b) ==
    Transact(CanSaveNode(db, b), AfterSaveNode(db, b),
             [op |-> "save_node", patent |-> b.patent, docs |-> b.docs, ok |-> CanSaveNode(db, b)])

SaveRelation(e) ==
    Transact(CanSaveRelation(db, e), AfterSaveRelation(db, e),
             Done("save_relation", CanSaveRelation(db, e)))

\* Merging a record with itself returns early: nothing happens.
MergeRecords(k, a) ==
    /\ k # a
    /\ Transact(CanMerge(db, k, a), AfterMerge(db, k, a),
                [op |-> "merge", keep |-> k, absorb |-> a, ok |-> CanMerge(db, k, a)])

SoftDeletePatents(ns) ==
    Transact(CanDelete(db, ns), AfterSoftDelete(db, ns),
             [op |-> "soft_delete", patents |-> ns, ok |-> CanDelete(db, ns)])

DeletePatents(ns) ==
    Transact(CanDelete(db, ns), AfterDelete(db, ns),
             [op |-> "delete", patents |-> ns, ok |-> CanDelete(db, ns)])

AddMembership(p, n, state) ==
    Transact(CanAddMembership(db, n), AfterAddMembership(db, p, n, state),
             Done("add_membership", CanAddMembership(db, n)))

\* An UPDATE of rows that are not there is no error.
SetReviewStates(p, ns, state) ==
    Transact(TRUE, AfterSetReviewStates(db, p, ns, state),
             [op |-> "set_states", project |-> p, patents |-> ns, ok |-> TRUE])

PromotePatentMemberships(n, from, to) ==
    Transact(TRUE, AfterPromote(db, n, from, to), Done("promote", TRUE))

DeleteMembership(p, n) ==
    Transact(TRUE, AfterDeleteMembership(db, p, n), Done("delete_membership", TRUE))

SavePatentNote(p, n) ==
    Transact(CanSaveNote(db, n), AfterSaveNote(db, p, n), Done("save_note", CanSaveNote(db, n)))

DeletePatentNote(p, n) ==
    Transact(TRUE, AfterDeleteNote(db, p, n), Done("delete_note", TRUE))

Next ==
    \/ \E n \in Numbers, cached \in BOOLEAN : SavePatent(n, cached)
    \/ \E r, x \in Numbers : SaveDocument(r, x)
    \/ \E b \in Batches : SaveNode(b)
    \/ \E e \in Numbers \X Numbers \X Kinds : SaveRelation(e)
    \/ \E k, a \in Numbers : MergeRecords(k, a)
    \/ \E ns \in SUBSET Numbers \ {{}} : SoftDeletePatents(ns)
    \/ \E ns \in SUBSET Numbers \ {{}} : DeletePatents(ns)
    \/ \E p \in Projects, n \in Numbers, s \in ReviewStates : AddMembership(p, n, s)
    \/ \E p \in Projects, ns \in SUBSET Numbers \ {{}}, s \in ReviewStates : SetReviewStates(p, ns, s)
    \/ \E n \in Numbers, from, to \in ReviewStates : PromotePatentMemberships(n, from, to)
    \/ \E p \in Projects, n \in Numbers : DeleteMembership(p, n)
    \/ \E p \in Projects, n \in Numbers : SavePatentNote(p, n)
    \/ \E p \in Projects, n \in Numbers : DeletePatentNote(p, n)

Spec == Init /\ [][Next]_vars

(***************************************************************************)
(* Properties.                                                             *)
(***************************************************************************)
\* Every row that names a record names one that exists, whatever mixture of
\* partial deletes, merges, demotions and batches came before: the foreign keys
\* of schema.sql, which the statements keep by their order and their cascades.
ReferentialIntegrity == Integral(db)

Live(state) == state \notin {NoState, "deleted"}

\* A merge takes no project's patent from it and reverts no human decision: the
\* surviving record is in every project either was in, a decision on keep stands,
\* a live decision on absorb outlives an automatic state on keep, and what was
\* live under keep is not hidden by a deleted absorb (document.go:127-132).
MergeKeepsCuration ==
    [][reply'.op = "merge" /\ reply'.ok =>
        \A p \in Projects :
            LET kept     == db.mem[<<p, reply'.keep>>]
                absorbed == db.mem[<<p, reply'.absorb>>]
                merged   == db'.mem[<<p, reply'.keep>>]
            IN  /\ merged = NoState <=> kept = NoState /\ absorbed = NoState
                /\ kept \notin AutoStates \union {NoState} => merged = kept
                /\ Live(absorbed) /\ absorbed \notin AutoStates /\ kept \in AutoStates
                       => merged \notin AutoStates
                /\ Live(kept) => Live(merged)]_vars

\* After a merge whoever pointed at either record points at keep, from both ends,
\* and the only edges that disappear are those that joined the two.
MergeKeepsTheGraph ==
    [][reply'.op = "merge" /\ reply'.ok =>
        LET k == reply'.keep
            a == reply'.absorb
        IN  \A x \in Numbers \ {k, a}, kind \in Kinds :
                /\ <<x, k, kind>> \in db'.edge <=>
                       <<x, k, kind>> \in db.edge \/ <<x, a, kind>> \in db.edge
                /\ <<k, x, kind>> \in db'.edge <=>
                       <<k, x, kind>> \in db.edge \/ <<a, x, kind>> \in db.edge]_vars

\* A merge is non-lossy (document.go:121): for every project and for the graph.
MergeLosesNothing == MergeKeepsCuration /\ MergeKeepsTheGraph

\* Of a batch of soft-deleted patents exactly those that a patent outside the
\* batch points at survive, as stubs, so patents that only reference each other
\* are purged together (repository.go:112-115); and no edge between two patents
\* outside the batch is touched.
SoftDeleteKeepsReferencedOnly ==
    [][reply'.op = "soft_delete" /\ reply'.ok =>
        /\ \A n \in reply'.patents :
               n \in db'.rec \ db'.cached <=>
                   \E e \in db.edge : e[2] = n /\ e[1] \notin reply'.patents
        /\ {e \in db'.edge : e[1] \notin reply'.patents} =
               {e \in db.edge : e[1] \notin reply'.patents}]_vars

\* A batch moves no document but those it fetched, and those to its own patent: a
\* stub never claims a number that a record holds, nor loses a record its body
\* (node.go:98-99, repository.go:59-61).
StubsClaimNothing ==
    [][reply'.op = "save_node" =>
        /\ db.cached \subseteq db'.cached
        /\ \A x \in Numbers :
               db.doc[x] # NoNumber /\ db'.doc[x] # db.doc[x] =>
                   x \in reply'.docs /\ db'.doc[x] = reply'.patent]_vars

\* What document.go:121-122 says of MergeRecords: "It is non-lossy".  A note or a
\* tag a person put on the absorbed record would then be found on the surviving one.
MergeIsNonLossy ==
    [][reply'.op = "merge" /\ reply'.ok =>
        \A p \in Projects :
            <<p, reply'.absorb>> \in db.note => <<p, reply'.keep>> \in db'.note]_vars
=============================================================================
