----------------------------- MODULE ProjectWork -----------------------------
(***************************************************************************)
(* What people do to the patents of a project, and what the engine does in *)
(* their name afterwards: additions, reviews, family promotion and deletes *)
(* of several clients (engine_project.go, engine_patent.go), the crawl job *)
(* an addition starts, and the two goroutines that watch the job.          *)
(*                                                                         *)
(* Every step makes at most one writing call of the repository, so between *)
(* any two writes of one client everyone else may act.  A job is what      *)
(* FamilyCrawl shows of one without followed neighbours: it may fold the   *)
(* records of one invention, it saves the root with its stubs, it reports  *)
(* the node and then its end, and it may fail or be cancelled at any time. *)
(***************************************************************************)
EXTENDS Records, Sequences, Naturals, FiniteSetsExt

CONSTANTS Clients,
          Jobs,         \* ids of crawl jobs: as many as can be started
          Plans,        \* what the clients set out to do: [Clients -> Seq(op)]
          Invention,    \* number -> numbers of the same invention, itself included
          Neighbours,   \* number -> the numbers its provider relates it to
          Exact         \* number -> application numbers the USPTO search offers for it

VARIABLES db,           \* the tables
          client,       \* what each client's call is at
          job,          \* crawl jobs with their two watchers
          decided,      \* history: decisions that stood when a job ended, and since
          waived        \* history: additions that returned without a fetch and its watcher

vars == <<db, client, job, decided, waived>>

(***************************************************************************)
(* A call.  left: patents still to look at, recs: the records found for    *)
(* those before, made: stubs this call created, was: the membership it     *)
(* read, added and changed: the records it added and is to move.  dirty:   *)
(* the call changed the database since it last announced a change; ok: the *)
(* last call did not return an error.                                      *)
(***************************************************************************)
Free(todo) ==
    [pc |-> "free", todo |-> todo, left |-> <<>>, recs |-> <<>>, made |-> {},
     was |-> NoState, added |-> <<>>, changed |-> {}, dirty |-> FALSE, ok |-> TRUE]

NoJob ==
    [phase |-> "none", root |-> NoNumber, project |-> "none", created |-> FALSE,
     kept |-> NoNumber, absorbed |-> {}, cleanup |-> "none", assign |-> "none", inbox |-> <<>>, stubs |-> {}]

Init ==
    /\ db = EmptyDatabase
    /\ \E plan \in Plans : client = [c \in Clients |-> Free(plan[c])]
    /\ job = [j \in Jobs |-> NoJob]
    /\ decided = [j \in Jobs |-> {}]
    /\ waived = {}

Op(c)     == Head(client[c].todo)
Become(c, s) == client' = [client EXCEPT ![c] = s]
Goto(s, pc)  == [s EXCEPT !.pc = pc]
Announced(s) == [s EXCEPT !.dirty = FALSE]
\* The call returns, in error or not; no error return announces on its way.
Returned(s)  == [Free(Tail(s.todo)) EXCEPT !.dirty = s.dirty]
Failed(s)    == [Returned(s) EXCEPT !.ok = FALSE]
At(c, pc)   == client[c].pc = pc

Member(p, n) == db.mem[<<p, n>>]

Call(c) ==
    LET s == client[c]
    IN  /\ s.pc = "free" /\ s.todo # <<>>
        /\ Become(c, [Free(s.todo) EXCEPT
               !.left = Op(c).patents,
               !.pc = CASE Op(c).op = "add"     -> "warn"
                        [] Op(c).op = "review"  -> "ensure"
                        [] Op(c).op = "related" -> "relations"
                        [] Op(c).op = "delete"  -> "resolve"
                        [] Op(c).op = "crawl"   -> "submit"])
        /\ UNCHANGED <<db, job>>

(***************************************************************************)
(* Jobs as their starters see them.                                        *)
(***************************************************************************)
Unused == {j \in Jobs : job[j].phase = "none"}

\* The pool takes the job, and the watchers are goroutines that have yet to subscribe.
Started(project, root, created, cleanup, assign) ==
    /\ Unused # {}
    /\ job' = [job EXCEPT ![CHOOSE j \in Unused : TRUE] =
                  [NoJob EXCEPT !.phase = "queued", !.root = root, !.project = project,
                                !.created = created,
                                !.cleanup = IF cleanup THEN "spawned" ELSE "none",
                                !.assign = IF assign THEN "spawned" ELSE "none"]]

\* The pool is full or closed, or there is no need.
NotStarted == UNCHANGED job

(***************************************************************************)
(* ensureRecord, shared by additions and reviews: three calls.             *)
(***************************************************************************)
Ensured(c, n, created) ==
    LET s == [client[c] EXCEPT !.recs = Append(@, n), !.left = Tail(@),
                               !.made = IF created THEN @ \union {n} ELSE @ \ {n}]
    IN  IF s.left # <<>> THEN Goto(s, "ensure")
        ELSE IF Op(c).op = "add" THEN Goto(s, "membership")
        ELSE [s EXCEPT !.pc = "member", !.left = s.recs]

EnsureLook(c) ==
    LET n == Head(client[c].left)
    IN  /\ At(c, "ensure")
        /\ Become(c, IF RecordOf(db, n) # NoNumber THEN Ensured(c, RecordOf(db, n), FALSE)
                     ELSE Goto(client[c], "stub"))
        /\ UNCHANGED <<db, job>>

EnsureStub(c) ==
    /\ At(c, "stub")
    /\ db' = AfterSavePatent(db, Head(client[c].left), FALSE)
    /\ Become(c, [client[c] EXCEPT !.pc = "document", !.dirty = TRUE])
    /\ UNCHANGED job

EnsureDocument(c) ==
    LET n == Head(client[c].left)
    IN  /\ At(c, "document")
        /\ IF CanSaveDocument(db, n)
           THEN db' = AfterSaveDocument(db, n, n) /\ Become(c, Ensured(c, n, TRUE))
           ELSE UNCHANGED db /\ Become(c, Failed(client[c]))
        /\ UNCHANGED job

(***************************************************************************)
(* addToProject.                                                           *)
(***************************************************************************)
\* The number leads to a member of the project that has another number or stage.
WarnsOfMerge(p, n) ==
    LET r == RecordOf(db, n)
    IN  /\ r # NoNumber
        /\ Member(p, r) # NoState
        /\ {r} \union DocumentsOf(db, r) # {n}

AddWarn(c) ==
    /\ At(c, "warn")
    /\ Become(c, IF WarnsOfMerge(Op(c).project, Op(c).patents[1]) /\ ~Op(c).confirm
                 THEN Returned(client[c])
                 ELSE Goto(client[c], "search"))
    /\ UNCHANGED <<db, job>>

\* One candidate replaces the number; several, or an error that counts, end the call.
AddSearch(c) ==
    LET s == client[c]
    IN  /\ At(c, "search")
        /\ \/ \E n \in {Head(s.left)} \union Exact[Head(s.left)] :
                  Become(c, [s EXCEPT !.pc = "ensure", !.left = <<n>>])
           \/ Exact[Head(s.left)] # {} /\ Become(c, Returned(s))
        /\ UNCHANGED <<db, job>>

AddRead(c) ==
    /\ At(c, "membership")
    /\ Become(c, [client[c] EXCEPT !.pc = "add",
                                   !.was = Member(Op(c).project, client[c].recs[1])])
    /\ UNCHANGED <<db, job>>

\* The state that was read is the state that is written, if a row is written at all.
AddMembership(c) ==
    LET s == client[c]
        n == s.recs[1]
    IN  /\ At(c, "add")
        /\ IF CanAddMembership(db, n)
           THEN /\ db' = AfterAddMembership(db, Op(c).project, n,
                                            IF s.was = NoState THEN "unknown" ELSE s.was)
                /\ Become(c, [s EXCEPT !.pc = "fetch", !.dirty = TRUE])
           ELSE UNCHANGED db /\ Become(c, Failed(s))
        /\ UNCHANGED job

NeedsFetch(s, n) ==
    /\ s.was \in {NoState, "unknown"}
    /\ n \in s.made \/ (RecordFor(db, n) \in db.rec /\ ~IsCached(db, n))

\* The membership is announced and the fetch submitted.  Asked for by source it must
\* start; by default it may be left out.
AddFetch(c) ==
    LET s == client[c]
        n == s.recs[1]
        created == n \in s.made
    IN  /\ At(c, "fetch")
        /\ IF Op(c).source
           THEN \/ /\ Started(Op(c).project, n, created, created, TRUE)
                   /\ Become(c, Returned(Announced(s)))
                \/ /\ Become(c, Goto(Announced(s), "withdraw"))
                   /\ NotStarted
           ELSE /\ Become(c, Returned(Announced(s)))
                /\ \/ NeedsFetch(s, n) /\ Started(Op(c).project, n, created, TRUE, TRUE)
                   \/ NotStarted
        /\ UNCHANGED db

\* The fetch did not start: what this call created goes again.
AddWithdraw(c) ==
    LET s == client[c]
        n == s.recs[1]
    IN  /\ At(c, "withdraw")
        /\ db' = IF n \in s.made
                 THEN IF CanDelete(db, {n}) THEN AfterDelete(db, {n}) ELSE db
                 ELSE IF s.was = NoState THEN AfterDeleteMembership(db, Op(c).project, n)
                 ELSE db
        /\ Become(c, Failed(s))
        /\ UNCHANGED job

\* StartProjectFamilyCrawl: the root is watched as it was named.
CrawlSubmit(c) ==
    /\ At(c, "submit")
    /\ \/ Started(Op(c).project, Head(client[c].left), FALSE, TRUE, TRUE)
       \/ NotStarted
    /\ Become(c, Returned(client[c]))
    /\ UNCHANGED db

(***************************************************************************)
(* SetReviewStateWithOptions: missing memberships are added one by one,    *)
(* each transition is checked on what was read, then one batch moves all.  *)
(***************************************************************************)
CanTransitionTo(from, to, cached) ==
    from = to \/ cached \/ to \in {"unknown", "needs_triage"}

ReviewMember(c) ==
    LET s == client[c]
        m == Member(Op(c).project, Head(s.left))
    IN  /\ At(c, "member")
        /\ Become(c, [s EXCEPT !.was = m, !.pc = IF m = NoState THEN "join"
                                                 ELSE IF Op(c).stamp THEN "stamp" ELSE "check"])
        /\ UNCHANGED <<db, job>>

\* A provenance of its own is stamped by adding the membership once more; of that
\* call an error is ignored.
ReviewStamp(c) ==
    LET s == client[c]
        n == Head(s.left)
    IN  /\ At(c, "stamp")
        /\ db' = IF CanAddMembership(db, n)
                 THEN AfterAddMembership(db, Op(c).project, n, s.was) ELSE db
        /\ Become(c, [s EXCEPT !.pc = "check", !.dirty = TRUE])
        /\ UNCHANGED job

ReviewJoin(c) ==
    LET s == client[c]
        n == Head(s.left)
    IN  /\ At(c, "join")
        /\ IF CanAddMembership(db, n)
           THEN /\ db' = AfterAddMembership(db, Op(c).project, n, "unknown")
                /\ Become(c, [s EXCEPT !.pc = "reread", !.dirty = TRUE,
                                       !.added = Append(@, n)])
           ELSE UNCHANGED db /\ Become(c, Failed(s))
        /\ UNCHANGED job

ReviewReread(c) ==
    LET s == client[c]
        m == Member(Op(c).project, Head(s.left))
    IN  /\ At(c, "reread")
        /\ Become(c, IF m = NoState THEN Failed(s) ELSE [s EXCEPT !.was = m, !.pc = "check"])
        /\ UNCHANGED <<db, job>>

ReviewCheck(c) ==
    LET s == client[c]
        n == Head(s.left)
        to == Op(c).target
    IN  /\ At(c, "check")
        /\ Become(c, IF RecordFor(db, n) \in db.rec /\ CanTransitionTo(s.was, to, IsCached(db, n))
                     THEN [s EXCEPT !.left = Tail(@),
                                    !.pc = IF Len(s.left) = 1 THEN "move" ELSE "member",
                                    !.changed = IF s.was = to THEN @ ELSE @ \union {n}]
                     ELSE Failed(s))
        /\ UNCHANGED <<db, job>>

ReviewMove(c) ==
    LET s == client[c]
    IN  /\ At(c, "move")
        /\ db' = AfterSetReviewStates(db, Op(c).project, s.changed, Op(c).target)
        /\ Become(c, [s EXCEPT !.pc = "start", !.dirty = @ \/ s.changed # {}])
        /\ UNCHANGED job

\* Then a fetch of each stub that was added, and one announcement.
ReviewStart(c) ==
    LET s == client[c]
        n == Head(s.added)
    IN  /\ At(c, "start") /\ s.added # <<>>
        /\ \/ /\ n \in s.made \/ (RecordFor(db, n) \in db.rec /\ ~IsCached(db, n))
              /\ Started(Op(c).project, n, n \in s.made, TRUE, FALSE)
           \/ NotStarted
        /\ Become(c, [s EXCEPT !.added = Tail(@)])
        /\ UNCHANGED db

\* A slip: a review that moves nothing has nothing to announce.
ReviewAnnouncesMoves(c) ==
    LET s == client[c]
    IN  /\ At(c, "start") /\ s.added = <<>>
        /\ Become(c, Returned(IF s.changed = {} THEN s ELSE Announced(s)))
        /\ UNCHANGED <<db, job>>

ReviewAnnounce(c) ==
    LET s == client[c]
    IN  /\ At(c, "start") /\ s.added = <<>>
        /\ Become(c, Returned(Announced(s)))
        /\ UNCHANGED <<db, job>>

(***************************************************************************)
(* AddRelated: the far ends of the stored edges join the project.          *)
(***************************************************************************)
FarEnds(r) == ({e[2] : e \in {f \in db.edge : f[1] = r}} \union
               {e[1] : e \in {f \in db.edge : f[2] = r}}) \ {r}

RelatedRead(c) ==
    LET s == client[c]
        r == RecordOf(db, Head(s.left))
    IN  /\ At(c, "relations")
        /\ Become(c, IF r = NoNumber THEN Failed(s)
                     ELSE [s EXCEPT !.pc = "neighbour", !.changed = FarEnds(r)])
        /\ UNCHANGED <<db, job>>

\* A neighbour is looked up, and skipped where it is a member already.
RelatedLook(c) ==
    LET s == client[c]
    IN  /\ At(c, "neighbour")
        /\ \E n \in s.changed :
               LET r == RecordFor(db, n)
                   t == [s EXCEPT !.changed = @ \ {n}]
               IN  Become(c, IF Member(Op(c).project, r) # NoState THEN t
                             ELSE [t EXCEPT !.pc = "relate", !.left = <<r>>])
        /\ UNCHANGED <<db, job>>

RelatedAdd(c) ==
    LET s == client[c]
        n == Head(s.left)
    IN  /\ At(c, "relate")
        /\ IF CanAddMembership(db, n)
           THEN /\ db' = AfterAddMembership(db, Op(c).project, n, "unknown")
                /\ Become(c, [s EXCEPT !.pc = "neighbour", !.dirty = TRUE])
           ELSE UNCHANGED db /\ Become(c, Failed(s))
        /\ UNCHANGED job

RelatedAnnounce(c) ==
    LET s == client[c]
    IN  /\ At(c, "neighbour") /\ s.changed = {}
        /\ Become(c, Returned(Announced(s)))
        /\ UNCHANGED <<db, job>>

(***************************************************************************)
(* DeletePatents: each number is resolved and its record snapshotted for   *)
(* the activity log, then one batch deletes them softly.                   *)
(***************************************************************************)
DeleteRead(c) ==
    LET s == client[c]
        r == RecordFor(db, Head(s.left))
    IN  /\ At(c, "resolve")
        /\ Become(c, IF r \notin db.rec THEN Failed(s)
                     ELSE [s EXCEPT !.left = Tail(@), !.changed = @ \union {r},
                                    !.pc = IF Len(s.left) = 1 THEN "erase" ELSE "resolve"])
        /\ UNCHANGED <<db, job>>

DeleteWrite(c) ==
    LET s == client[c]
    IN  /\ At(c, "erase")
        /\ IF CanDelete(db, s.changed)
           THEN db' = AfterSoftDelete(db, s.changed) /\ Become(c, Returned(Announced(s)))
           ELSE UNCHANGED db /\ Become(c, Failed(s))
        /\ UNCHANGED job

(***************************************************************************)
(* The job.                                                                *)
(***************************************************************************)
\* The numbers of one invention that lead to a record, richest first, as
\* resolveRecord has it (see FamilyCrawl); none: the root's own number.
KnownRecords(n) == {RecordOf(db, x) : x \in Invention[n]} \ {NoNumber}

Richest(rs) ==
    LET fetched == rs \intersect db.cached IN Min(IF fetched = {} THEN rs ELSE fetched)

KeptRecord(n) == IF KnownRecords(n) = {} THEN n ELSE Richest(KnownRecords(n))

\* The batch for the root's record r: a stub for every neighbour nobody knows, and
\* an edge to each.
FetchedNode(d, n, r) ==
    [patent |-> r, docs |-> Invention[n], bibs |-> {},
     stubs |-> {x \in Neighbours[n] : RecordOf(d, x) = NoNumber} \ {r},
     edges |-> {<<r, RecordFor(d, x), "cites">> : x \in Neighbours[n]}]

\* A report goes to the watchers that have subscribed by now.
Told(w, report) ==
    IF w.assign \in {"waiting", "assigning"} THEN [w EXCEPT !.inbox = Append(@, report)] ELSE w

\* The survivor and the records to fold into it are read together.
JobResolves(j) ==
    LET r == KeptRecord(job[j].root)
    IN  /\ job[j].phase = "queued"
        /\ job' = [job EXCEPT ![j] = [@ EXCEPT !.phase = "folding", !.kept = r,
                                        !.absorbed = KnownRecords(job[j].root) \ {r}]]
        /\ UNCHANGED <<db, client>>

\* Each is folded in a transaction of its own; one that is gone fails the job.
JobFolds(j) ==
    LET w == job[j]
    IN  /\ w.phase = "folding"
        /\ \E x \in w.absorbed :
               /\ CanMerge(db, w.kept, x)
               /\ db' = AfterMerge(db, w.kept, x)
               /\ job' = [job EXCEPT ![j] = [w EXCEPT !.absorbed = @ \ {x}]]
        /\ UNCHANGED client

\* The node is saved and reported: the report names its record and its new stubs.
JobSaves(j) ==
    LET w == job[j]
        node == FetchedNode(db, w.root, w.kept)
    IN  /\ w.phase = "folding" /\ w.absorbed = {}
        /\ db' = AfterSaveNode(db, node)
        /\ job' = [job EXCEPT ![j] = Told([w EXCEPT !.phase = "saved"],
                                         [record |-> w.kept, stubs |-> node.stubs, last |-> FALSE])]
        /\ UNCHANGED client

Over == [record |-> NoNumber, stubs |-> {}, last |-> TRUE]

\* The watcher that waits learns how the job ended, and the other reads it in turn.
Finished(w, phase) ==
    Told([w EXCEPT !.phase = phase,
                   !.cleanup = IF w.cleanup = "waiting" THEN phase ELSE w.cleanup], Over)

\* A slip: a cancelled job says nothing.
JobEndsSilently(j) ==
    /\ \/ /\ job[j].phase = "saved"
          /\ job' = [job EXCEPT ![j] = Finished(job[j], "done")]
       \/ /\ job[j].phase \in {"queued", "folding"}
          /\ job' = [job EXCEPT ![j] = [@ EXCEPT !.phase = "failed"]]
    /\ UNCHANGED <<db, client>>

\* CrawlDone, with an error (after the save too: a cancel) or without one.
JobEnds(j) ==
    /\ \E phase \in {"failed", "done"} :
           /\ job[j].phase = "saved"
              \/ (job[j].phase \in {"queued", "folding"} /\ phase = "failed")
           /\ job' = [job EXCEPT ![j] = Finished(job[j], phase)]
    /\ UNCHANGED <<db, client>>

Watcher(j, who, state) == job' = [job EXCEPT ![j] = [@ EXCEPT ![who] = state]]

Subscribe(j, who) ==
    /\ job[j][who] = "spawned"
    /\ Watcher(j, who, "waiting")
    /\ UNCHANGED <<db, client>>

(***************************************************************************)
(* autoAssignDepth1Neighbors.                                              *)
(***************************************************************************)
Concerns(w, report) == report.stubs # {} /\ report.record = w.root

AssignReceives(j) ==
    LET w == job[j]
        report == Head(w.inbox)
        read == [w EXCEPT !.inbox = Tail(@)]
    IN  /\ w.assign = "waiting" /\ w.inbox # <<>>
        /\ job' = [job EXCEPT ![j] =
               IF report.last THEN [read EXCEPT !.assign = "gone"]
               ELSE IF Concerns(w, report)
                    THEN [read EXCEPT !.assign = "assigning", !.stubs = report.stubs]
                    ELSE read]
        /\ UNCHANGED <<db, client>>

\* One stub after the other; an error on one does not keep the next from it.
AssignAdds(j) ==
    LET w == job[j]
    IN  /\ w.assign = "assigning"
        /\ \E n \in w.stubs :
               /\ db' = IF CanAddMembership(db, n)
                        THEN AfterAddMembership(db, w.project, n, "unknown") ELSE db
               /\ job' = [job EXCEPT ![j] =
                      [w EXCEPT !.stubs = @ \ {n},
                                !.assign = IF w.stubs = {n} THEN "waiting" ELSE "assigning"]]
        /\ UNCHANGED client

(***************************************************************************)
(* cleanupIfNotFound.                                                      *)
(***************************************************************************)
CleanupBody(j) ==
    /\ job[j].cleanup = "done"
    /\ Watcher(j, "cleanup", IF IsCached(db, job[j].root) THEN "member" ELSE "failed")
    /\ UNCHANGED <<db, client>>

\* Found: what is not decided yet goes to review, a deleted membership with it.
CleanupMember(j) ==
    LET m == Member(job[j].project, job[j].root)
    IN  /\ job[j].cleanup = "member"
        /\ Watcher(j, "cleanup", CASE m = NoState -> "join"
                                   [] m \in {"unknown", "deleted"} -> "promote"
                                   [] OTHER -> "gone")
        /\ UNCHANGED <<db, client>>

\* A body without a title is left to triage.
CleanupPromotes(j) ==
    LET w == job[j]
    IN  /\ \E to \in {"under_review", "needs_triage"} :
               \/ /\ w.cleanup = "promote"
                  /\ db' = AfterSetReviewStates(db, w.project, {w.root}, to)
               \/ /\ w.cleanup = "join"
                  /\ db' = IF CanAddMembership(db, w.root)
                           THEN AfterAddMembership(db, w.project, w.root, to) ELSE db
        /\ Watcher(j, "cleanup", "gone")
        /\ UNCHANGED client

\* A slip: whatever the state of the membership, it goes.
CleanupChecksNothing(j) ==
    /\ job[j].cleanup = "failed"
    /\ Watcher(j, "cleanup", "purge")
    /\ UNCHANGED <<db, client>>

\* A slip: any membership stays, also the one that nobody has decided on.
CleanupChecksMembership(j) ==
    /\ job[j].cleanup = "failed"
    /\ Watcher(j, "cleanup", IF Member(job[j].project, job[j].root) = NoState
                             THEN "purge" ELSE "gone")
    /\ UNCHANGED <<db, client>>

\* Not found: a membership somebody has moved on stays.
CleanupChecks(j) ==
    /\ job[j].cleanup = "failed"
    /\ Watcher(j, "cleanup", IF Member(job[j].project, job[j].root) \in {NoState, "unknown"}
                             THEN "purge" ELSE "gone")
    /\ UNCHANGED <<db, client>>

\* The record goes for good if the addition created it, or else the membership.
CleanupPurges(j) ==
    LET w == job[j]
    IN  /\ w.cleanup = "purge"
        /\ db' = IF ~w.created THEN AfterDeleteMembership(db, w.project, w.root)
                 ELSE IF CanDelete(db, {w.root}) THEN AfterDelete(db, {w.root}) ELSE db
        /\ Watcher(j, "cleanup", "gone")
        /\ UNCHANGED client

(***************************************************************************)
(* The whole.                                                              *)
(***************************************************************************)
Ensure(c)  == EnsureLook(c) \/ EnsureStub(c) \/ EnsureDocument(c)
Add(c)     == AddWarn(c) \/ AddSearch(c) \/ AddRead(c) \/ AddMembership(c) \/ AddFetch(c)
                  \/ AddWithdraw(c)
Review(c)  == ReviewMember(c) \/ ReviewJoin(c) \/ ReviewReread(c) \/ ReviewStamp(c)
                  \/ ReviewCheck(c) \/ ReviewMove(c) \/ ReviewStart(c) \/ ReviewAnnounce(c)
Related(c) == RelatedRead(c) \/ RelatedLook(c) \/ RelatedAdd(c) \/ RelatedAnnounce(c)
Delete(c)  == DeleteRead(c) \/ DeleteWrite(c)

ClientStep(c) ==
    Call(c) \/ Ensure(c) \/ Add(c) \/ CrawlSubmit(c) \/ Review(c) \/ Related(c) \/ Delete(c)

JobStep(j) == JobResolves(j) \/ JobFolds(j) \/ JobSaves(j) \/ JobEnds(j)
Assign(j)  == Subscribe(j, "assign") \/ AssignReceives(j) \/ AssignAdds(j)
Cleanup(j) == Subscribe(j, "cleanup") \/ CleanupBody(j) \/ CleanupMember(j)
                  \/ CleanupPromotes(j) \/ CleanupChecks(j) \/ CleanupPurges(j)

\* What the properties remember of a step.
Reviewed(d) == {m \in Projects \X Numbers : d.mem[m] = "under_review"}

Ended(w) == w.phase \in {"done", "failed"}

\* What a call adds and leaves without a watcher in this step: no fetch was started, a
\* review failed after it had added members, or it stamped one that had gone meanwhile.
Unwatched(c) ==
    LET s == client[c]
        refused == \A j \in Jobs : job'[j].cleanup = job[j].cleanup
    IN  CASE s.pc = "fetch" /\ refused -> {s.recs[1]}
          [] s.pc = "start" /\ s.added # <<>> /\ refused -> {Head(s.added)}
          [] s.pc = "stamp" -> {Head(s.left)}
          [] ~client'[c].ok -> {s.added[i] : i \in DOMAIN s.added}
          [] OTHER -> {}

Remember ==
    /\ decided' = [j \in Jobs |->
           Reviewed(db') \intersect (IF Ended(job'[j]) /\ ~Ended(job[j]) THEN Reviewed(db)
                                     ELSE decided[j])]
    /\ waived' = waived \union
           UNION {{<<Op(c).project, n>> : n \in Unwatched(c)} :
                      c \in {d \in Clients : client'[d] # client[d]}}

Next ==
    /\ \/ \E c \in Clients : ClientStep(c)
       \/ \E j \in Jobs : JobStep(j) \/ Assign(j) \/ Cleanup(j)
    /\ Remember

Spec == Init /\ [][Next]_vars

\* A call that began goes on, a job ends (FamilyCrawl), a goroutine runs.
FairSpec ==
    /\ Spec
    /\ \A c \in Clients : WF_vars(client[c].pc # "free" /\ ClientStep(c) /\ Remember)
    /\ \A j \in Jobs : /\ WF_vars(JobEnds(j) /\ Remember)
                       /\ WF_vars(Assign(j) /\ Remember)
                       /\ WF_vars(Cleanup(j) /\ Remember)

(***************************************************************************)
(* Properties.                                                             *)
(***************************************************************************)
Watching == {"spawned", "waiting", "done", "failed", "member", "join", "promote", "purge"}

TypeOK ==
    /\ db \in Databases
    /\ \A c \in Clients : client[c].was \in ReviewStates \union {NoState}
    /\ \A j \in Jobs : /\ job[j].phase \in {"none", "queued", "folding", "saved", "done", "failed"}
                       /\ job[j].cleanup \in Watching \union {"none", "gone"}
                       /\ job[j].assign \in {"none", "spawned", "waiting", "assigning", "gone"}

\* A watcher that had not subscribed when its job ended waits for nothing
\* (engine_project.go:543: go, then Subscribe).
Missed(j) == job[j].phase \in {"done", "failed"} /\ job[j].cleanup \in {"spawned", "waiting"}

Quiet ==
    /\ \A c \in Clients : client[c].todo = <<>>
    /\ \A j \in Jobs : job[j].phase \in {"none", "done", "failed"}
    /\ \A j \in Jobs : job[j].cleanup \in {"none", "gone"} \/ Missed(j)
    /\ \A j \in Jobs : job[j].assign # "assigning" /\ job[j].inbox = <<>>

\* A person's decision is safe from the watchers of its project once the job has
\* ended: what they read then, they respect (engine_project.go:570, :611).
DecisionsOfTheProjectStand ==
    [][\A j \in Jobs : Cleanup(j) =>
           \A m \in decided[j] : m[1] = job[j].project => db'.mem[m] = db.mem[m]]_vars

\* Where an addition comes out when all is quiet, whatever the order of several
\* additions, reviews, deletes and ends (engine_project.go:532-536).  A fetch that ended
\* without the patent leaves no stub of it behind in its project: only a neighbour of
\* what was fetched, and what was added without a watched fetch, stays as a stub.  A
\* patent that was fetched does not stay unknown, as long as its record keeps its number.
AdditionsComeOut ==
    Quiet => \A j \in Jobs :
        LET m == <<job[j].project, job[j].root>>
        IN  /\ /\ \A k \in Jobs : ~Missed(k)
               /\ job[j].phase = "failed" /\ job[j].cleanup = "gone"
               /\ m[2] \notin db.cached /\ db.mem[m] = "unknown"
               => m \in waived \/ \E e \in db.edge : m[2] \in {e[1], e[2]}
            /\ job[j].phase = "done" /\ job[j].cleanup = "gone" /\ m[2] \in db.cached =>
                   db.mem[m] # "unknown"

\* A call that returns without an error has announced all it changed, whoever else
\* wrote meanwhile: the lists of the other clients follow (engine_project.go:247, :450,
\* :814; engine_patent.go:262).
SuccessIsAnnounced ==
    \A c \in Clients : client[c].pc = "free" /\ client[c].ok => ~client[c].dirty

\* A watcher that subscribed before its job ended comes to an end with it.
WatchersEnd ==
    \A j \in Jobs : (~Ended(job[j]) /\ job[j].cleanup = "waiting")
                        ~> job[j].cleanup = "gone"

\* cleanupIfNotFound removes the membership, and the patent if it is a freshly created
\* stub (engine_project.go:533-534): never a patent that was fetched.
CleanupSparesWhatWasFetched ==
    [][\A j \in Jobs : CleanupPurges(j) => db.cached \subseteq db'.cached]_vars
=============================================================================
