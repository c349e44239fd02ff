-------------------------- MODULE ProjectWorkProofs --------------------------
(***************************************************************************)
(* Safety of ProjectWork for any clients, plans, inventions and jobs.      *)
(*                                                                         *)
(* Decisions: what a watcher is about to overwrite or to delete is the one *)
(* membership it has read (Respects), and a decision that stood when the   *)
(* job ended would have been seen by that read, because `decided' only     *)
(* shrinks afterwards (Remembered).  Nothing is assumed of what the other  *)
(* clients do between the read and the write.                              *)
(*                                                                         *)
(* Announcements: a call that has written is in a stage from which it      *)
(* returns in error or by announcing (Clean).                              *)
(***************************************************************************)
EXTENDS ProjectWork, TLAPS

\* The memberships of a database, whatever else it holds.
Shaped(d) == "mem" \in DOMAIN d /\ DOMAIN d.mem = Projects \X Numbers

JobFields == {"phase", "root", "project", "created", "kept", "absorbed", "cleanup",
              "assign", "inbox", "stubs"}

\* What a watcher w may still do leaves the decisions ds alone.
Respects(w, ds) ==
    /\ w.cleanup \in {"done", "failed", "member", "join", "promote", "purge"} => Ended(w)
    /\ w.cleanup \in {"join", "promote", "purge"} => <<w.project, w.root>> \notin ds

Watched ==
    /\ DOMAIN job = Jobs
    /\ \A j \in Jobs : DOMAIN job[j] = JobFields /\ Respects(job[j], decided[j])
    /\ \A j \in Jobs : decided[j] \subseteq Reviewed(db)

DInv == Shaped(db) /\ Watched

-----------------------------------------------------------------------------
(* Databases keep their shape. *)

LEMMA UpsertsKeepShape ==
    ASSUME NEW d, Shaped(d), NEW n, NEW r, NEW x, NEW cached, NEW b
    PROVE  /\ Shaped(AfterSavePatent(d, n, cached))
           /\ Shaped(AfterSaveDocument(d, r, x))
           /\ Shaped(AfterSaveNode(d, b))
<1>1. Shaped(AfterSavePatent(d, n, cached))
    BY DEF Shaped, AfterSavePatent
<1>2. Shaped(AfterSaveDocument(d, r, x))
    BY DEF Shaped, AfterSaveDocument
<1>3. Shaped(AfterSaveNode(d, b))
    BY DEF Shaped, AfterSaveNode
<1> QED BY <1>1, <1>2, <1>3

LEMMA MembershipsKeepShape ==
    ASSUME NEW d, Shaped(d), NEW p, NEW n, NEW ns, NEW state
    PROVE  /\ Shaped(AfterAddMembership(d, p, n, state))
           /\ Shaped(AfterSetReviewStates(d, p, ns, state))
           /\ Shaped(AfterDeleteMembership(d, p, n))
<1>1. Shaped(AfterAddMembership(d, p, n, state))
    BY DEF Shaped, AfterAddMembership
<1>2. Shaped(AfterSetReviewStates(d, p, ns, state))
    BY DEF Shaped, AfterSetReviewStates
<1>3. Shaped(AfterDeleteMembership(d, p, n))
    BY DEF Shaped, AfterDeleteMembership
<1> QED BY <1>1, <1>2, <1>3

LEMMA DeletesKeepShape ==
    ASSUME NEW d, NEW ns, NEW keep, NEW x
    PROVE  /\ Shaped(AfterDelete(d, ns))
           /\ Shaped(AfterSoftDelete(d, ns))
           /\ Shaped(AfterMerge(d, keep, x))
<1>1. \A e, ms : Shaped(Purged(e, ms))
    BY DEF Shaped, Purged
<1>2. Shaped(AfterMerge(d, keep, x))
    BY DEF Shaped, AfterMerge
<1> QED BY <1>1, <1>2 DEF AfterDelete, AfterSoftDelete

LEMMA StepKeepsShape ==
    ASSUME Shaped(db), Next
    PROVE  Shaped(db)'
<1> USE UpsertsKeepShape, MembershipsKeepShape, DeletesKeepShape
<1>1. ASSUME NEW c \in Clients, ClientStep(c) PROVE Shaped(db)'
    <2>1. CASE Call(c) \/ CrawlSubmit(c)
        BY <2>1 DEF Call, CrawlSubmit
    <2>2. CASE Ensure(c)
        BY <2>2 DEF Ensure, EnsureLook, EnsureStub, EnsureDocument
    <2>3. CASE Add(c)
        BY <2>3 DEF Add, AddWarn, AddSearch, AddRead, AddMembership, AddFetch, AddWithdraw
    <2>4. CASE Review(c)
        <3>1. CASE ReviewMember(c) \/ ReviewReread(c) \/ ReviewCheck(c) \/ ReviewAnnounce(c)
            BY <3>1 DEF ReviewMember, ReviewReread, ReviewCheck, ReviewAnnounce
        <3>2. CASE ReviewJoin(c) \/ ReviewStamp(c)
            BY <3>2 DEF ReviewJoin, ReviewStamp
        <3>3. CASE ReviewMove(c) \/ ReviewStart(c)
            BY <3>3 DEF ReviewMove, ReviewStart
        <3> QED BY <2>4, <3>1, <3>2, <3>3 DEF Review
    <2>5. CASE Related(c) \/ Delete(c)
        BY <2>5 DEF Related, RelatedRead, RelatedLook, RelatedAdd, RelatedAnnounce,
                    Delete, DeleteRead, DeleteWrite
    <2> QED BY <1>1, <2>1, <2>2, <2>3, <2>4, <2>5 DEF ClientStep
<1>2. ASSUME NEW j \in Jobs, JobStep(j) \/ Assign(j) \/ Cleanup(j) PROVE Shaped(db)'
    <2>1. CASE JobStep(j)
        BY <2>1 DEF JobStep, JobResolves, JobFolds, JobSaves, JobEnds
    <2>2. CASE Assign(j)
        <3>1. CASE Subscribe(j, "assign") \/ AssignReceives(j)
            BY <3>1 DEF Subscribe, AssignReceives
        <3>2. CASE AssignAdds(j)
            BY <3>2 DEF AssignAdds
        <3> QED BY <2>2, <3>1, <3>2 DEF Assign
    <2>3. CASE Cleanup(j)
        <3>1. CASE Subscribe(j, "cleanup") \/ CleanupBody(j) \/ CleanupMember(j) \/ CleanupChecks(j)
            BY <3>1 DEF Subscribe, CleanupBody, CleanupMember, CleanupChecks
        <3>2. CASE CleanupPromotes(j)
            BY <3>2 DEF CleanupPromotes
        <3>3. CASE CleanupPurges(j)
            BY <3>3 DEF CleanupPurges
        <3> QED BY <2>3, <3>1, <3>2, <3>3 DEF Cleanup
    <2> QED BY <1>2, <2>1, <2>2, <2>3
<1> QED BY <1>1, <1>2 DEF Next

-----------------------------------------------------------------------------
(* Watchers and the decisions they must respect. *)

LEMMA DecisionsShrink ==
    ASSUME Remember, NEW j \in Jobs
    PROVE  /\ decided'[j] \subseteq Reviewed(db')
           /\ Ended(job[j]) \/ ~Ended(job'[j]) => decided'[j] \subseteq decided[j]
<1>1. decided'[j] = Reviewed(db') \intersect (IF Ended(job'[j]) /\ ~Ended(job[j])
                                             THEN Reviewed(db) ELSE decided[j])
    BY DEF Remember
<1> QED BY <1>1

\* A job that does not move keeps its watcher's promise.
LEMMA StillRespects ==
    ASSUME Watched, Remember, NEW j \in Jobs, job'[j] = job[j]
    PROVE  Respects(job'[j], decided'[j]) /\ DOMAIN job'[j] = JobFields
<1>1. decided'[j] \subseteq decided[j]
    BY DecisionsShrink
<1>2. Respects(job[j], decided[j]) /\ DOMAIN job[j] = JobFields
    BY DEF Watched
<1> QED BY <1>1, <1>2 DEF Respects

LEMMA JobsStandStill ==
    ASSUME Watched, Remember, UNCHANGED job
    PROVE  Watched'
<1>1. \A j \in Jobs : Respects(job'[j], decided'[j]) /\ DOMAIN job'[j] = JobFields
    BY StillRespects
<1>2. \A j \in Jobs : decided'[j] \subseteq Reviewed(db')
    BY DecisionsShrink
<1> QED BY <1>1, <1>2 DEF Watched

\* One job moves.
LEMMA OneJobMoves ==
    ASSUME Watched, Remember, NEW j \in Jobs, NEW w, job' = [job EXCEPT ![j] = w],
           DOMAIN w = JobFields, Respects(w, decided'[j])
    PROVE  Watched'
<1>1. DOMAIN job' = Jobs /\ job'[j] = w /\ \A k \in Jobs : k # j => job'[k] = job[k]
    BY DEF Watched
<1>2. \A k \in Jobs : Respects(job'[k], decided'[k]) /\ DOMAIN job'[k] = JobFields
    BY <1>1, StillRespects
<1>3. \A k \in Jobs : decided'[k] \subseteq Reviewed(db')
    BY DecisionsShrink
<1> QED BY <1>1, <1>2, <1>3 DEF Watched

\* One job moves and its watcher does not, whatever the job reports.
LEMMA WatcherStandsStill ==
    ASSUME Watched, Remember, NEW j \in Jobs, NEW w, job' = [job EXCEPT ![j] = w],
           DOMAIN w = JobFields, Ended(job[j]) => Ended(w),
           w.cleanup = job[j].cleanup, w.project = job[j].project, w.root = job[j].root
    PROVE  Watched'
<1>1. job'[j] = w
    BY DEF Watched
<1>2. Ended(job[j]) => decided'[j] \subseteq decided[j]
    BY DecisionsShrink
<1>3. Respects(w, decided'[j])
    BY <1>2 DEF Watched, Respects
<1> QED BY <1>3, OneJobMoves

LEMMA ToldKeepsTheWatcher ==
    ASSUME NEW w, DOMAIN w = JobFields, NEW report
    PROVE  /\ DOMAIN Told(w, report) = JobFields
           /\ Told(w, report).cleanup = w.cleanup /\ Told(w, report).project = w.project
           /\ Told(w, report).root = w.root /\ Told(w, report).phase = w.phase
BY DEF Told, JobFields

\* A job that starts has a watcher that has read nothing.
LEMMA StartedKeepsWatched ==
    ASSUME Watched, Remember, NEW p, NEW n, NEW created, NEW cleanup, NEW assign,
           Started(p, n, created, cleanup, assign)
    PROVE  Watched'
<1> DEFINE j == CHOOSE k \in Unused : TRUE
           w == [NoJob EXCEPT !.phase = "queued", !.root = n, !.project = p,
                              !.created = created,
                              !.cleanup = IF cleanup THEN "spawned" ELSE "none",
                              !.assign = IF assign THEN "spawned" ELSE "none"]
<1>1. j \in Jobs /\ job' = [job EXCEPT ![j] = w]
    BY DEF Started, Unused
<1>2. DOMAIN w = JobFields
    BY DEF NoJob, JobFields
<1>3. w.cleanup \in {"spawned", "none"}
    BY DEF NoJob
<1> HIDE DEF w, j
<1>4. Respects(w, decided'[j])
    BY <1>3 DEF Respects
<1> QED BY <1>1, <1>2, <1>4, OneJobMoves

LEMMA ClientKeepsWatched ==
    ASSUME Watched, Remember, NEW c \in Clients, ClientStep(c)
    PROVE  Watched'
<1> USE JobsStandStill, StartedKeepsWatched
<1>1. CASE Call(c)
    BY <1>1 DEF Call
<1>2. CASE Ensure(c)
    BY <1>2 DEF Ensure, EnsureLook, EnsureStub, EnsureDocument
<1>3. CASE Add(c)
    <2>1. CASE AddWarn(c) \/ AddSearch(c) \/ AddRead(c) \/ AddMembership(c) \/ AddWithdraw(c)
        BY <2>1 DEF AddWarn, AddSearch, AddRead, AddMembership, AddWithdraw
    <2>2. CASE AddFetch(c)
        BY <2>2 DEF AddFetch, NotStarted
    <2> QED BY <1>3, <2>1, <2>2 DEF Add
<1>4. CASE CrawlSubmit(c)
    BY <1>4 DEF CrawlSubmit, NotStarted
<1>5. CASE Review(c)
    <2>1. CASE ReviewMember(c) \/ ReviewReread(c) \/ ReviewCheck(c) \/ ReviewAnnounce(c)
        BY <2>1 DEF ReviewMember, ReviewReread, ReviewCheck, ReviewAnnounce
    <2>2. CASE ReviewJoin(c) \/ ReviewStamp(c) \/ ReviewMove(c)
        BY <2>2 DEF ReviewJoin, ReviewStamp, ReviewMove
    <2>3. CASE ReviewStart(c)
        BY <2>3 DEF ReviewStart, NotStarted
    <2> QED BY <1>5, <2>1, <2>2, <2>3 DEF Review
<1>6. CASE Related(c) \/ Delete(c)
    BY <1>6 DEF Related, RelatedRead, RelatedLook, RelatedAdd, RelatedAnnounce,
                Delete, DeleteRead, DeleteWrite
<1> QED BY <1>1, <1>2, <1>3, <1>4, <1>5, <1>6 DEF ClientStep

\* The end of a job wakes the watcher that waits for it, and no other moves.
LEMMA JobKeepsWatched ==
    ASSUME Watched, Remember, NEW j \in Jobs, JobStep(j)
    PROVE  Watched'
<1> DEFINE w == job[j]
<1>0. DOMAIN w = JobFields
    BY DEF Watched
<1>1. CASE JobResolves(j)
    <2>1. w.phase = "queued"
        BY <1>1 DEF JobResolves
    <2> DEFINE x == [w EXCEPT !.phase = "folding", !.kept = KeptRecord(w.root),
                              !.absorbed = KnownRecords(w.root) \ {KeptRecord(w.root)}]
    <2>2. job' = [job EXCEPT ![j] = x]
        BY <1>1, Zenon DEF JobResolves
    <2>3. DOMAIN x = JobFields /\ x.cleanup = w.cleanup /\ x.project = w.project /\ x.root = w.root
        BY <1>0 DEF JobFields
    <2> HIDE DEF x
    <2> QED BY <2>1, <2>2, <2>3, WatcherStandsStill DEF Ended
<1>2. CASE JobFolds(j)
    <2>1. PICK y \in w.absorbed : job' = [job EXCEPT ![j] = [w EXCEPT !.absorbed = @ \ {y}]]
        BY <1>2 DEF JobFolds
    <2> DEFINE x == [w EXCEPT !.absorbed = @ \ {y}]
    <2>2. DOMAIN x = JobFields /\ x.cleanup = w.cleanup /\ x.project = w.project /\ x.root = w.root
          /\ x.phase = w.phase
        BY <1>0 DEF JobFields
    <2>3. job' = [job EXCEPT ![j] = x]
        BY <2>1
    <2> HIDE DEF x
    <2> QED BY <2>2, <2>3, WatcherStandsStill DEF Ended
<1>3. CASE JobSaves(j)
    <2> DEFINE s == [w EXCEPT !.phase = "saved"]
               report == [record |-> w.kept, stubs |-> FetchedNode(db, w.root, w.kept).stubs,
                          last |-> FALSE]
               x == Told(s, report)
    <2>1. w.phase = "folding"
        BY <1>3 DEF JobSaves
    <2>2. job' = [job EXCEPT ![j] = x]
        BY <1>3, Zenon DEF JobSaves
    <2>3. DOMAIN s = JobFields /\ s.cleanup = w.cleanup /\ s.project = w.project /\ s.root = w.root
        BY <1>0 DEF JobFields
    <2> HIDE DEF s, report
    <2>4. DOMAIN x = JobFields /\ x.cleanup = w.cleanup /\ x.project = w.project /\ x.root = w.root
        BY <2>3, ToldKeepsTheWatcher
    <2> HIDE DEF x
    <2> QED BY <2>1, <2>2, <2>4, WatcherStandsStill DEF Ended
<1>4. CASE JobEnds(j)
    <2>1. PICK phase \in {"failed", "done"} : job' = [job EXCEPT ![j] = Finished(w, phase)]
        BY <1>4 DEF JobEnds
    <2>0. w.phase \in {"queued", "folding", "saved"}
        BY <1>4 DEF JobEnds
    <2> DEFINE s == [w EXCEPT !.phase = phase,
                              !.cleanup = IF w.cleanup = "waiting" THEN phase ELSE w.cleanup]
               x == Told(s, Over)
    <2>2. job' = [job EXCEPT ![j] = x]
        BY <2>1, Zenon DEF Finished
    <2>3. DOMAIN s = JobFields /\ s.phase = phase
          /\ s.cleanup = IF w.cleanup = "waiting" THEN phase ELSE w.cleanup
        BY <1>0 DEF JobFields
    <2> HIDE DEF s
    <2>4. DOMAIN x = JobFields /\ x.phase = phase
          /\ x.cleanup = IF w.cleanup = "waiting" THEN phase ELSE w.cleanup
        BY <2>3, ToldKeepsTheWatcher
    <2> HIDE DEF x
    <2>5. Respects(w, decided[j]) /\ ~Ended(w)
        BY <2>0 DEF Watched, Ended
    <2>6. Respects(x, decided'[j])
        BY <2>4, <2>5 DEF Respects, Ended
    <2> QED BY <2>2, <2>4, <2>6, OneJobMoves
<1> QED BY <1>1, <1>2, <1>3, <1>4 DEF JobStep

LEMMA AssignKeepsWatched ==
    ASSUME Watched, Remember, NEW j \in Jobs, Assign(j)
    PROVE  Watched'
<1> DEFINE w == job[j]
           Same(x) == /\ DOMAIN x = JobFields /\ x.phase = w.phase /\ x.cleanup = w.cleanup
                      /\ x.project = w.project /\ x.root = w.root
<1>0. DOMAIN w = JobFields
    BY DEF Watched
<1>1. CASE Subscribe(j, "assign")
    <2> DEFINE x == [w EXCEPT !["assign"] = "waiting"]
    <2>1. job' = [job EXCEPT ![j] = x]
        BY <1>1, Zenon DEF Subscribe, Watcher
    <2>2. Same(x)
        BY <1>0 DEF JobFields
    <2> HIDE DEF x
    <2> QED BY <2>1, <2>2, WatcherStandsStill DEF Ended
<1>2. CASE AssignReceives(j)
    <2> DEFINE report == Head(w.inbox)
               read == [w EXCEPT !.inbox = Tail(@)]
               gone == [read EXCEPT !.assign = "gone"]
               told == [read EXCEPT !.assign = "assigning", !.stubs = report.stubs]
    <2>1. \/ job' = [job EXCEPT ![j] = gone]
          \/ job' = [job EXCEPT ![j] = told]
          \/ job' = [job EXCEPT ![j] = read]
        BY <1>2, Zenon DEF AssignReceives
    <2>2. Same(read)
        BY <1>0 DEF JobFields
    <2> HIDE DEF read
    <2>3. Same(gone) /\ Same(told)
        BY <2>2 DEF JobFields
    <2> HIDE DEF gone, told
    <2> QED BY <2>1, <2>2, <2>3, WatcherStandsStill DEF Ended
<1>3. CASE AssignAdds(j)
    <2>1. PICK n \in w.stubs :
              job' = [job EXCEPT ![j] =
                      [w EXCEPT !.stubs = @ \ {n},
                                !.assign = IF w.stubs = {n} THEN "waiting" ELSE "assigning"]]
        BY <1>3 DEF AssignAdds
    <2> DEFINE x == [w EXCEPT !.stubs = @ \ {n},
                              !.assign = IF w.stubs = {n} THEN "waiting" ELSE "assigning"]
    <2>2. job' = [job EXCEPT ![j] = x]
        BY <2>1
    <2>3. Same(x)
        BY <1>0 DEF JobFields
    <2> HIDE DEF x
    <2> QED BY <2>2, <2>3, WatcherStandsStill DEF Ended
<1> QED BY <1>1, <1>2, <1>3 DEF Assign

\* A watcher that has read its membership knows it was not decided on when the job
\* ended, or leaves.
LEMMA CleanupKeepsWatched ==
    ASSUME Watched, Remember, NEW j \in Jobs, Cleanup(j)
    PROVE  Watched'
<1> DEFINE w == job[j]
           Moved(state) == [w EXCEPT !["cleanup"] = state]
           m == <<w.project, w.root>>
<1>0. DOMAIN w = JobFields /\ Respects(w, decided[j])
    BY DEF Watched
<1>1. ASSUME NEW state
      PROVE  /\ DOMAIN Moved(state) = JobFields /\ Moved(state).cleanup = state
             /\ Moved(state).phase = w.phase
             /\ Moved(state).project = w.project /\ Moved(state).root = w.root
    BY <1>0 DEF JobFields
<1>2. ASSUME NEW state, Watcher(j, "cleanup", state),
             state \in {"done", "failed", "member", "join", "promote", "purge"} => Ended(w),
             state \in {"join", "promote", "purge"} => m \notin decided'[j]
      PROVE  Watched'
    <2>1. job' = [job EXCEPT ![j] = Moved(state)]
        BY <1>2, Zenon DEF Watcher
    <2> HIDE DEF Moved
    <2>2. Respects(Moved(state), decided'[j])
        BY <1>1, <1>2 DEF Respects, Ended
    <2> QED BY <1>1, <2>1, <2>2, OneJobMoves
<1> HIDE DEF Moved
<1>3. CASE Subscribe(j, "cleanup")
    BY <1>2, <1>3 DEF Subscribe
<1>4. CASE CleanupBody(j)
    BY <1>0, <1>2, <1>4 DEF CleanupBody, Respects
<1>5. UNCHANGED db /\ Member(w.project, w.root) # "under_review" => m \notin decided'[j]
    BY DecisionsShrink DEF Reviewed, Member
<1>6. CASE CleanupMember(j)
    <2> DEFINE state == CASE Member(w.project, w.root) = NoState -> "join"
                          [] Member(w.project, w.root) \in {"unknown", "deleted"} -> "promote"
                          [] OTHER -> "gone"
    <2>1. w.cleanup = "member" /\ Watcher(j, "cleanup", state) /\ UNCHANGED db
        BY <1>6 DEF CleanupMember
    <2>2. state # "gone" => Member(w.project, w.root) # "under_review"
        BY DEF NoState
    <2>3. Ended(w)
        BY <1>0, <2>1 DEF Respects
    <2>4. state \in {"join", "promote", "gone"}
        OBVIOUS
    <2> HIDE DEF state
    <2> QED BY <1>2, <1>5, <2>1, <2>2, <2>3, <2>4
<1>7. CASE CleanupPromotes(j)
    BY <1>2, <1>7 DEF CleanupPromotes
<1>8. CASE CleanupChecks(j)
    BY <1>0, <1>2, <1>5, <1>8 DEF CleanupChecks, Respects, NoState
<1>9. CASE CleanupPurges(j)
    BY <1>2, <1>9 DEF CleanupPurges
<1> QED BY <1>3, <1>4, <1>6, <1>7, <1>8, <1>9 DEF Cleanup

LEMMA DInvAtFirst == Init => DInv
<1> SUFFICES ASSUME Init PROVE DInv
    OBVIOUS
<1>1. Shaped(db)
    BY DEF Init, EmptyDatabase, Shaped
<1>2. DOMAIN job = Jobs /\ \A j \in Jobs : job[j] = NoJob /\ decided[j] = {}
    BY DEF Init
<1>3. DOMAIN NoJob = JobFields /\ NoJob.cleanup = "none"
    BY DEF NoJob, JobFields
<1>4. Respects(NoJob, {})
    BY <1>3 DEF Respects
<1> QED BY <1>1, <1>2, <1>3, <1>4 DEF DInv, Watched

LEMMA NextKeepsDInv == DInv /\ [Next]_vars => DInv'
<1> SUFFICES ASSUME DInv, [Next]_vars PROVE DInv'
    OBVIOUS
<1>1. CASE Next
    <2>1. Remember /\ (\/ \E c \in Clients : ClientStep(c)
                       \/ \E j \in Jobs : JobStep(j) \/ Assign(j) \/ Cleanup(j))
        BY <1>1 DEF Next
    <2>2. Watched'
        BY <2>1, ClientKeepsWatched, JobKeepsWatched, AssignKeepsWatched, CleanupKeepsWatched DEF DInv
    <2> QED BY <1>1, <2>2, StepKeepsShape DEF DInv
<1>2. CASE UNCHANGED vars
    BY <1>2 DEF vars, DInv, Watched, Shaped, Reviewed
<1> QED BY <1>1, <1>2

\* What a watcher writes is the membership of its root, or the root's record.
LEMMA CleanupTouchesItsRoot ==
    ASSUME DInv, NEW j \in Jobs, Cleanup(j), NEW m \in decided[j], m[1] = job[j].project
    PROVE  db'.mem[m] = db.mem[m]
<1> DEFINE w == job[j]
<1>1. m \in Projects \X Numbers /\ Shaped(db) /\ Respects(w, decided[j])
    BY DEF DInv, Watched, Reviewed
<1>2. m = <<m[1], m[2]>>
    BY <1>1
<1>3. w.cleanup \in {"join", "promote", "purge"} => m # <<w.project, w.root>> /\ m[2] # w.root
    BY <1>1, <1>2 DEF Respects
<1>4. CASE UNCHANGED db
    BY <1>4
<1>5. CASE CleanupPromotes(j)
    <2>1. PICK to : \/ w.cleanup = "promote" /\ db' = AfterSetReviewStates(db, w.project, {w.root}, to)
                    \/ w.cleanup = "join"
                       /\ db' \in {AfterAddMembership(db, w.project, w.root, to), db}
        BY <1>5 DEF CleanupPromotes
    <2>2. m # <<w.project, w.root>> /\ m[2] # w.root
        BY <1>3, <2>1
    <2>3. AfterSetReviewStates(db, w.project, {w.root}, to).mem[m] = db.mem[m]
        BY <1>1, <2>2 DEF AfterSetReviewStates, Shaped
    <2>4. AfterAddMembership(db, w.project, w.root, to).mem[m] = db.mem[m]
        BY <1>1, <2>2 DEF AfterAddMembership, Shaped
    <2> QED BY <2>1, <2>3, <2>4
<1>6. CASE CleanupPurges(j)
    <2>1. w.cleanup = "purge"
          /\ db' \in {AfterDeleteMembership(db, w.project, w.root), AfterDelete(db, {w.root}), db}
        BY <1>6 DEF CleanupPurges
    <2>2. m # <<w.project, w.root>> /\ m[2] # w.root
        BY <1>3, <2>1
    <2>3. AfterDeleteMembership(db, w.project, w.root).mem[m] = db.mem[m]
        BY <1>1, <2>2 DEF AfterDeleteMembership, Shaped
    <2>4. AfterDelete(db, {w.root}).mem[m] = db.mem[m]
        BY <1>1, <2>2 DEF AfterDelete, Purged
    <2> QED BY <2>1, <2>3, <2>4
<1> QED BY <1>4, <1>5, <1>6 DEF Cleanup, Subscribe, CleanupBody, CleanupMember, CleanupChecks

\* A person's decision that stood when a job ended is never undone by a watcher of its
\* project, whoever writes what between its reads and its writes
\* (engine_project.go:564-622).
THEOREM DecisionsStand == Spec => DecisionsOfTheProjectStand
<1> DEFINE A == \A j \in Jobs : Cleanup(j) =>
                   \A m \in decided[j] : m[1] = job[j].project => db'.mem[m] = db.mem[m]
<1>1. DInv => A
    BY CleanupTouchesItsRoot
<1>2. DInv /\ [Next]_vars => [A]_vars
    BY <1>1
<1>3. Spec => [][A]_vars
    BY <1>2, DInvAtFirst, NextKeepsDInv, PTL DEF Spec
<1> QED BY <1>3 DEF DecisionsOfTheProjectStand

-----------------------------------------------------------------------------
(* Calls and what they announce. *)

CallFields == {"pc", "todo", "left", "recs", "made", "was", "added", "changed", "dirty", "ok"}

\* A call that returned without an error, or that may still return before its first
\* write, owes nothing.
Clean(s) ==
    /\ DOMAIN s = CallFields
    /\ s.pc \in {"warn", "search", "submit"} => ~s.dirty
    /\ s.pc = "free" /\ s.ok => ~s.dirty

CallsAreClean == DOMAIN client = Clients /\ \A c \in Clients : Clean(client[c])

LEMMA ReturnsAreClean ==
    ASSUME NEW s, DOMAIN s = CallFields
    PROVE  /\ ~s.dirty => Clean(Returned(s))
           /\ Clean(Returned(Announced(s)))
           /\ Clean(Failed(s))
           /\ \A todo : Clean(Free(todo)) /\ ~Free(todo).dirty
           /\ DOMAIN Announced(s) = CallFields /\ ~Announced(s).dirty
<1>1. ASSUME NEW todo
      PROVE  DOMAIN Free(todo) = CallFields /\ ~Free(todo).dirty /\ Clean(Free(todo))
    BY DEF Free, CallFields, Clean
<1>2. ASSUME NEW x
      PROVE  DOMAIN Returned(x) = CallFields /\ Returned(x).dirty = x.dirty
    BY <1>1 DEF Returned, CallFields
<1>3. DOMAIN Failed(s) = CallFields /\ ~Failed(s).ok /\ Failed(s).pc = "free"
    BY DEF Failed, Returned, Free, CallFields
<1>4. Returned(s).pc = "free" /\ Returned(Announced(s)).pc = "free"
    BY DEF Returned, Free
<1>5. DOMAIN Announced(s) = CallFields /\ ~Announced(s).dirty
    BY DEF Announced, CallFields
<1> QED BY <1>1, <1>2, <1>3, <1>4, <1>5 DEF Clean

\* Any later stage is free to owe an announcement.
Later(s) == DOMAIN s = CallFields /\ s.pc \notin {"free", "warn", "search", "submit"}

LEMMA OneCallMoves ==
    ASSUME CallsAreClean, NEW c \in Clients, NEW s, Become(c, s), Clean(s)
    PROVE  CallsAreClean'
<1>1. DOMAIN client' = Clients /\ client'[c] = s /\ \A d \in Clients : d # c => client'[d] = client[d]
    BY DEF CallsAreClean, Become
<1> QED BY <1>1 DEF CallsAreClean

LEMMA LaterCallMoves ==
    ASSUME CallsAreClean, NEW c \in Clients, NEW s, Become(c, s), Later(s)
    PROVE  CallsAreClean'
BY OneCallMoves DEF Later, Clean

LEMMA CallIsClean ==
    ASSUME CallsAreClean, NEW c \in Clients, Call(c)
    PROVE  CallsAreClean'
<1> DEFINE s == client[c]
           f == Free(s.todo)
<1>1. PICK pc : Become(c, [f EXCEPT !.left = Op(c).patents, !.pc = pc])
    BY DEF Call
<1> DEFINE x == [f EXCEPT !.left = Op(c).patents, !.pc = pc]
<1>2. DOMAIN f = CallFields /\ ~f.dirty
    BY DEF Free, CallFields
<1> HIDE DEF f
<1>3. DOMAIN x = CallFields /\ ~x.dirty
    BY <1>2 DEF CallFields
<1>4. Become(c, x)
    BY <1>1
<1> HIDE DEF x
<1> QED BY <1>3, <1>4, OneCallMoves DEF Clean

LEMMA EnsureIsClean ==
    ASSUME CallsAreClean, NEW c \in Clients, Ensure(c)
    PROVE  CallsAreClean'
<1> DEFINE s == client[c]
<1>0. DOMAIN s = CallFields
    BY DEF CallsAreClean, Clean
<1>2. ASSUME NEW n, NEW created PROVE Later(Ensured(c, n, created))
    <2> DEFINE x == [s EXCEPT !.recs = Append(@, n), !.left = Tail(@),
                              !.made = IF created THEN @ \union {n} ELSE @ \ {n}]
    <2>1. DOMAIN x = CallFields
        BY <1>0 DEF CallFields
    <2>2. Ensured(c, n, created) \in {Goto(x, "ensure"), Goto(x, "membership"),
                                     [x EXCEPT !.pc = "member", !.left = x.recs]}
        BY Zenon DEF Ensured
    <2> HIDE DEF x
    <2>3. Later(Goto(x, "ensure")) /\ Later(Goto(x, "membership"))
        BY <2>1 DEF Goto, CallFields, Later
    <2>4. Later([x EXCEPT !.pc = "member", !.left = x.recs])
        BY <2>1 DEF CallFields, Later
    <2> QED BY <2>2, <2>3, <2>4
<1>3. CASE EnsureLook(c)
    <2>1. Later(Goto(s, "stub"))
        BY <1>0 DEF Goto, CallFields, Later
    <2> QED BY LaterCallMoves, <1>2, <1>3, <2>1 DEF EnsureLook
<1>4. CASE EnsureStub(c)
    <2> DEFINE x == [s EXCEPT !.pc = "document", !.dirty = TRUE]
    <2>1. Become(c, x)
        BY <1>4 DEF EnsureStub
    <2>2. Later(x)
        BY <1>0 DEF CallFields, Later
    <2> HIDE DEF x
    <2> QED BY LaterCallMoves, <2>1, <2>2
<1>5. CASE EnsureDocument(c)
    <2>1. \/ Become(c, Ensured(c, Head(s.left), TRUE))
          \/ Become(c, Failed(s))
        BY <1>5 DEF EnsureDocument
    <2>2. Clean(Failed(s))
        BY <1>0, ReturnsAreClean
    <2> QED BY <1>2, <2>1, <2>2, LaterCallMoves, OneCallMoves
<1> QED BY <1>3, <1>4, <1>5, Zenon DEF Ensure

LEMMA AddIsClean ==
    ASSUME CallsAreClean, NEW c \in Clients, Add(c) \/ CrawlSubmit(c)
    PROVE  CallsAreClean'
<1> DEFINE s == client[c]
<1>0. DOMAIN s = CallFields /\ Clean(s)
    BY DEF CallsAreClean, Clean
<1>1. Clean(Failed(s)) /\ Clean(Returned(Announced(s))) /\ (~s.dirty => Clean(Returned(s)))
    BY <1>0, ReturnsAreClean
<1>2. CASE AddWarn(c)
    <2>1. ~s.dirty /\ (Become(c, Returned(s)) \/ Become(c, Goto(s, "search")))
        BY <1>0, <1>2 DEF AddWarn, Clean, At
    <2>2. Clean(Goto(s, "search"))
        BY <1>0, <2>1 DEF Goto, Clean, CallFields
    <2> QED BY <1>1, <2>1, <2>2, OneCallMoves
<1>3. CASE AddSearch(c)
    <2>1. ~s.dirty
        BY <1>0, <1>3 DEF AddSearch, Clean, At
    <2>2. \/ \E n : Become(c, [s EXCEPT !.pc = "ensure", !.left = <<n>>])
          \/ Become(c, Returned(s))
        BY <1>3 DEF AddSearch
    <2>3. \A n : Later([s EXCEPT !.pc = "ensure", !.left = <<n>>])
        BY <1>0 DEF CallFields, Later
    <2> QED BY <1>1, <2>1, <2>2, <2>3, LaterCallMoves, OneCallMoves
<1>4. CASE AddRead(c)
    <2> DEFINE x == [s EXCEPT !.pc = "add", !.was = Member(Op(c).project, s.recs[1])]
    <2>1. Become(c, x)
        BY <1>4 DEF AddRead
    <2>2. Later(x)
        BY <1>0 DEF CallFields, Later
    <2> HIDE DEF x
    <2> QED BY <2>1, <2>2, LaterCallMoves
<1>5. CASE AddMembership(c)
    <2> DEFINE x == [s EXCEPT !.pc = "fetch", !.dirty = TRUE]
    <2>1. Become(c, x) \/ Become(c, Failed(s))
        BY <1>5 DEF AddMembership
    <2>2. Later(x)
        BY <1>0 DEF CallFields, Later
    <2> HIDE DEF x
    <2> QED BY <1>1, <2>1, <2>2, LaterCallMoves, OneCallMoves
<1>6. CASE AddFetch(c)
    <2>1. Become(c, Returned(Announced(s))) \/ Become(c, Goto(Announced(s), "withdraw"))
        BY <1>6 DEF AddFetch
    <2>2. Later(Goto(Announced(s), "withdraw"))
        BY <1>0, ReturnsAreClean DEF Goto, CallFields, Later
    <2> QED BY <1>1, <2>1, <2>2, LaterCallMoves, OneCallMoves
<1>7. CASE AddWithdraw(c)
    BY <1>1, <1>7, OneCallMoves DEF AddWithdraw
<1>8. CASE CrawlSubmit(c)
    <2>1. ~s.dirty /\ Become(c, Returned(s))
        BY <1>0, <1>8 DEF CrawlSubmit, Clean, At
    <2> QED BY <1>1, <2>1, OneCallMoves
<1> QED BY <1>2, <1>3, <1>4, <1>5, <1>6, <1>7, <1>8 DEF Add

LEMMA ReviewIsClean ==
    ASSUME CallsAreClean, NEW c \in Clients, Review(c)
    PROVE  CallsAreClean'
<1> DEFINE s == client[c]
<1>0. DOMAIN s = CallFields
    BY DEF CallsAreClean, Clean
<1>1. Clean(Failed(s)) /\ Clean(Returned(Announced(s)))
    BY <1>0, ReturnsAreClean
<1>2. CASE ReviewMember(c)
    <2> DEFINE x(m, pc) == [s EXCEPT !.was = m, !.pc = pc]
    <2>1. \E m : \E pc \in {"join", "stamp", "check"} : Become(c, x(m, pc))
        BY <1>2 DEF ReviewMember
    <2>2. \A m : \A pc \in {"join", "stamp", "check"} : Later(x(m, pc))
        BY <1>0 DEF CallFields, Later
    <2> HIDE DEF x
    <2> QED BY <2>1, <2>2, LaterCallMoves
<1>3. CASE ReviewStamp(c)
    <2> DEFINE x == [s EXCEPT !.pc = "check", !.dirty = TRUE]
    <2>1. Become(c, x)
        BY <1>3 DEF ReviewStamp
    <2>2. Later(x)
        BY <1>0 DEF CallFields, Later
    <2> HIDE DEF x
    <2> QED BY <2>1, <2>2, LaterCallMoves
<1>4. CASE ReviewJoin(c)
    <2> DEFINE x == [s EXCEPT !.pc = "reread", !.dirty = TRUE, !.added = Append(@, Head(s.left))]
    <2>1. Become(c, x) \/ Become(c, Failed(s))
        BY <1>4, Zenon DEF ReviewJoin
    <2>2. Later(x)
        BY <1>0 DEF CallFields, Later
    <2> HIDE DEF x
    <2> QED BY <1>1, <2>1, <2>2, LaterCallMoves, OneCallMoves
<1>5. CASE ReviewReread(c)
    <2> DEFINE x(m) == [s EXCEPT !.was = m, !.pc = "check"]
    <2>1. (\E m : Become(c, x(m))) \/ Become(c, Failed(s))
        BY <1>5, Zenon DEF ReviewReread
    <2>2. \A m : Later(x(m))
        BY <1>0 DEF CallFields, Later
    <2> HIDE DEF x
    <2> QED BY <1>1, <2>1, <2>2, LaterCallMoves, OneCallMoves
<1>6. CASE ReviewCheck(c)
    <2> DEFINE n == Head(s.left)
               x == [s EXCEPT !.left = Tail(@),
                              !.pc = IF Len(s.left) = 1 THEN "move" ELSE "member",
                              !.changed = IF s.was = Op(c).target THEN @ ELSE @ \union {n}]
    <2>1. Become(c, x) \/ Become(c, Failed(s))
        BY <1>6, Zenon DEF ReviewCheck
    <2>2. Later(x)
        BY <1>0 DEF CallFields, Later
    <2> HIDE DEF x
    <2> QED BY <1>1, <2>1, <2>2, LaterCallMoves, OneCallMoves
<1>7. CASE ReviewMove(c)
    <2> DEFINE x == [s EXCEPT !.pc = "start", !.dirty = @ \/ s.changed # {}]
    <2>1. Become(c, x)
        BY <1>7, Zenon DEF ReviewMove
    <2>2. DOMAIN x = CallFields /\ x.pc = "start"
        BY <1>0 DEF CallFields
    <2> HIDE DEF x
    <2> QED BY <2>1, <2>2, LaterCallMoves DEF Later
<1>8. CASE ReviewStart(c)
    <2> DEFINE x == [s EXCEPT !.added = Tail(@)]
    <2>1. s.pc = "start" /\ Become(c, x)
        BY <1>8, Zenon DEF ReviewStart, At
    <2>2. Later(x)
        BY <1>0, <2>1 DEF CallFields, Later
    <2> HIDE DEF x
    <2> QED BY <2>1, <2>2, LaterCallMoves
<1>9. CASE ReviewAnnounce(c)
    BY <1>1, <1>9, OneCallMoves DEF ReviewAnnounce
<1> QED BY <1>2, <1>3, <1>4, <1>5, <1>6, <1>7, <1>8, <1>9 DEF Review

LEMMA RelatedAndDeleteAreClean ==
    ASSUME CallsAreClean, NEW c \in Clients, Related(c) \/ Delete(c)
    PROVE  CallsAreClean'
<1> DEFINE s == client[c]
<1>0. DOMAIN s = CallFields
    BY DEF CallsAreClean, Clean
<1>1. Clean(Failed(s)) /\ Clean(Returned(Announced(s)))
    BY <1>0, ReturnsAreClean
<1>2. CASE RelatedRead(c)
    <2> DEFINE x(far) == [s EXCEPT !.pc = "neighbour", !.changed = far]
    <2>1. (\E far : Become(c, x(far))) \/ Become(c, Failed(s))
        BY <1>2, Zenon DEF RelatedRead
    <2>2. \A far : Later(x(far))
        BY <1>0 DEF CallFields, Later
    <2> HIDE DEF x
    <2> QED BY <1>1, <2>1, <2>2, LaterCallMoves, OneCallMoves
<1>3. CASE RelatedLook(c)
    <2>1. PICK n \in s.changed :
            LET r == RecordFor(db, n)
                t == [s EXCEPT !.changed = @ \ {n}]
            IN  Become(c, IF Member(Op(c).project, r) # NoState THEN t
                          ELSE [t EXCEPT !.pc = "relate", !.left = <<r>>])
        BY <1>3 DEF RelatedLook
    <2> DEFINE t == [s EXCEPT !.changed = @ \ {n}]
               x(r) == [t EXCEPT !.pc = "relate", !.left = <<r>>]
    <2>2. Become(c, t) \/ \E r : Become(c, x(r))
        BY <2>1, Zenon
    <2>3. s.pc = "neighbour"
        BY <1>3 DEF RelatedLook, At
    <2>4. DOMAIN t = CallFields /\ Later(t)
        BY <1>0, <2>3 DEF CallFields, Later
    <2> HIDE DEF t
    <2>5. \A r : Later(x(r))
        BY <2>4 DEF CallFields, Later
    <2> HIDE DEF x
    <2> QED BY <2>2, <2>4, <2>5, LaterCallMoves
<1>4. CASE RelatedAdd(c)
    <2> DEFINE x == [s EXCEPT !.pc = "neighbour", !.dirty = TRUE]
    <2>1. Become(c, x) \/ Become(c, Failed(s))
        BY <1>4 DEF RelatedAdd
    <2>2. Later(x)
        BY <1>0 DEF CallFields, Later
    <2> HIDE DEF x
    <2> QED BY <1>1, <2>1, <2>2, LaterCallMoves, OneCallMoves
<1>5. CASE RelatedAnnounce(c)
    BY <1>1, <1>5, OneCallMoves DEF RelatedAnnounce
<1>6. CASE DeleteRead(c)
    <2> DEFINE r == RecordFor(db, Head(s.left))
               x == [s EXCEPT !.left = Tail(@), !.changed = @ \union {r},
                              !.pc = IF Len(s.left) = 1 THEN "erase" ELSE "resolve"]
    <2>1. Become(c, x) \/ Become(c, Failed(s))
        BY <1>6, Zenon DEF DeleteRead
    <2>2. Later(x)
        BY <1>0 DEF CallFields, Later
    <2> HIDE DEF x
    <2> QED BY <1>1, <2>1, <2>2, LaterCallMoves, OneCallMoves
<1>7. CASE DeleteWrite(c)
    BY <1>1, <1>7, OneCallMoves DEF DeleteWrite
<1> QED BY <1>2, <1>3, <1>4, <1>5, <1>6, <1>7 DEF Related, Delete

LEMMA JobsLeaveCallsAlone ==
    ASSUME NEW j \in Jobs, JobStep(j) \/ Assign(j) \/ Cleanup(j)
    PROVE  UNCHANGED client
<1>1. CASE JobStep(j)
    BY <1>1 DEF JobStep, JobResolves, JobFolds, JobSaves, JobEnds
<1>2. CASE Assign(j)
    BY <1>2 DEF Assign, Subscribe, AssignReceives, AssignAdds
<1>3. CASE Cleanup(j)
    BY <1>3 DEF Cleanup, Subscribe, CleanupBody, CleanupMember, CleanupPromotes, CleanupChecks,
                CleanupPurges
<1> QED BY <1>1, <1>2, <1>3

\* Whatever the clients set out to do and whoever interferes, a call that returns
\* without an error has announced every change it made (engine_project.go:247, :814;
\* engine_patent.go:211-262).
THEOREM SuccessesAreAnnounced == Spec => []SuccessIsAnnounced
<1>1. Init => CallsAreClean
    <2> SUFFICES ASSUME Init PROVE CallsAreClean
        OBVIOUS
    <2>1. PICK plan \in Plans : client = [c \in Clients |-> Free(plan[c])]
        BY DEF Init
    <2>2. \A todo : Clean(Free(todo))
        BY DEF Clean, Free, CallFields
    <2> QED BY <2>1, <2>2 DEF CallsAreClean
<1>2. CallsAreClean /\ [Next]_vars => CallsAreClean'
    <2> SUFFICES ASSUME CallsAreClean, [Next]_vars PROVE CallsAreClean'
        OBVIOUS
    <2>1. ASSUME NEW c \in Clients, ClientStep(c) PROVE CallsAreClean'
        BY <2>1, CallIsClean, EnsureIsClean, AddIsClean, ReviewIsClean, RelatedAndDeleteAreClean
           DEF ClientStep
    <2>2. CASE UNCHANGED client
        BY <2>2 DEF CallsAreClean
    <2> QED BY <2>1, <2>2, JobsLeaveCallsAlone DEF Next, vars
<1>3. CallsAreClean => SuccessIsAnnounced
    BY DEF CallsAreClean, Clean, SuccessIsAnnounced
<1> QED BY <1>1, <1>2, <1>3, PTL DEF Spec
=============================================================================
