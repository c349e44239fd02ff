----------------------------- MODULE WorkerPool -----------------------------
(***************************************************************************)
(* The daemon's background worker pool, internal/engine/worker.go: submit, *)
(* the worker goroutines (loop and run), cancel and shutdown.              *)
(*                                                                         *)
(* Every critical section of p.mu is one action; what runs outside the     *)
(* lock (the send on p.queue, the job itself, the publication of its       *)
(* CrawlDone) is an action of its own, so that other goroutines interleave *)
(* with it.  A job is named by the submit call that carries it: submit     *)
(* draws a fresh "job-<seq>" for every call.                               *)
(***************************************************************************)
EXTENDS Naturals, Sequences, FiniteSets

CONSTANTS
  Jobs,        \* the calls of submit, and so the jobs they carry
  Workers,     \* the goroutines started by newWorkerPool
  QueueDepth,  \* capacity of the channel p.queue
  NoJob        \* a worker that holds no job

ASSUME PoolAssumption ==
  /\ QueueDepth \in Nat \ {0}
  /\ Workers # {}
  /\ NoJob \notin Jobs

VARIABLES
  closed,    \* p.closed, which is also whether p.queue is closed
  baseDone,  \* p.baseCtx is cancelled: the daemon was told to stop
  call,      \* how far each submit call has come
  queue,     \* the buffer of the channel p.queue
  cancels,   \* the keys of p.cancels
  stopped,   \* the jobs whose own context was cancelled
  worker,    \* what each worker goroutine is doing
  holds,     \* the job each worker goroutine took from the queue
  reports,   \* CrawlDone events published for each job
  shutdown   \* the call of shutdown that closes the pool

vars == <<closed, baseDone, call, queue, cancels, stopped, worker, holds,
          reports, shutdown>>

CallState == {"new", "registered", "accepted", "full", "refused", "panicked"}

(***************************************************************************)
(* The context of a job is a child of p.baseCtx.                           *)
(***************************************************************************)
Cancelled(j) == baseDone \/ j \in stopped

Queued(j) == \E i \in 1..Len(queue) : queue[i] = j

Init ==
  /\ closed = FALSE
  /\ baseDone = FALSE
  /\ call = [j \in Jobs |-> "new"]
  /\ queue = <<>>
  /\ cancels = {}
  /\ stopped = {}
  /\ worker = [w \in Workers |-> "idle"]
  /\ holds = [w \in Workers |-> NoJob]
  /\ reports = [j \in Jobs |-> 0]
  /\ shutdown = "none"

-----------------------------------------------------------------------------
(***************************************************************************)
(* submit.  The closed flag is read and the cancel function registered     *)
(* under the lock; the job is sent after the lock is released, and a send  *)
(* on a channel that shutdown closed meanwhile panics.                     *)
(***************************************************************************)
SubmitRefused(j) ==
  /\ call[j] = "new"
  /\ closed \/ baseDone
  /\ call' = [call EXCEPT ![j] = "refused"]
  /\ UNCHANGED <<closed, baseDone, queue, cancels, stopped, worker, holds,
                 reports, shutdown>>

SubmitRegister(j) ==
  /\ call[j] = "new"
  /\ ~closed /\ ~baseDone
  /\ call' = [call EXCEPT ![j] = "registered"]
  /\ cancels' = cancels \union {j}
  /\ UNCHANGED <<closed, baseDone, queue, stopped, worker, holds, reports,
                 shutdown>>

SubmitSend(j) ==
  /\ call[j] = "registered"
  /\ ~closed
  /\ Len(queue) < QueueDepth
  /\ queue' = Append(queue, j)
  /\ call' = [call EXCEPT ![j] = "accepted"]
  /\ UNCHANGED <<closed, baseDone, cancels, stopped, worker, holds, reports,
                 shutdown>>

SubmitFull(j) ==
  /\ call[j] = "registered"
  /\ ~closed
  /\ Len(queue) >= QueueDepth
  /\ call' = [call EXCEPT ![j] = "full"]
  /\ stopped' = stopped \union {j}
  /\ UNCHANGED <<closed, baseDone, queue, cancels, worker, holds, reports,
                 shutdown>>

SubmitUnregister(j) ==
  /\ call[j] = "full"
  /\ call' = [call EXCEPT ![j] = "refused"]
  /\ cancels' = cancels \ {j}
  /\ UNCHANGED <<closed, baseDone, queue, stopped, worker, holds, reports,
                 shutdown>>

SubmitPanic(j) ==
  /\ call[j] = "registered"
  /\ closed
  /\ call' = [call EXCEPT ![j] = "panicked"]
  /\ UNCHANGED <<closed, baseDone, queue, cancels, stopped, worker, holds,
                 reports, shutdown>>

-----------------------------------------------------------------------------
(***************************************************************************)
(* loop and run.  A closed channel still delivers what its buffer holds.   *)
(* A job that returns, with or without an error, and a job that panics end *)
(* alike: run recovers the panic.                                          *)
(***************************************************************************)
Take(w) ==
  /\ worker[w] = "idle"
  /\ queue # <<>>
  /\ worker' = [worker EXCEPT ![w] = "running"]
  /\ holds' = [holds EXCEPT ![w] = Head(queue)]
  /\ queue' = Tail(queue)
  /\ UNCHANGED <<closed, baseDone, call, cancels, stopped, reports, shutdown>>

\* A slip: run leaves the cancel function of the finished job in p.cancels.
FinishKeepsCancel(w) ==
  /\ worker[w] = "running"
  /\ worker' = [worker EXCEPT ![w] = "reporting"]
  /\ UNCHANGED <<closed, baseDone, call, queue, cancels, stopped, holds,
                 reports, shutdown>>

\* A slip: a job cancelled meanwhile is dropped without its CrawlDone.
FinishDropsCancelled(w) ==
  /\ worker[w] = "running"
  /\ IF Cancelled(holds[w])
       THEN /\ worker' = [worker EXCEPT ![w] = "idle"]
            /\ holds' = [holds EXCEPT ![w] = NoJob]
       ELSE /\ worker' = [worker EXCEPT ![w] = "reporting"]
            /\ UNCHANGED holds
  /\ stopped' = stopped \union ({holds[w]} \intersect cancels)
  /\ cancels' = cancels \ {holds[w]}
  /\ UNCHANGED <<closed, baseDone, call, queue, reports, shutdown>>

Finish(w) ==
  /\ worker[w] = "running"
  /\ worker' = [worker EXCEPT ![w] = "reporting"]
  /\ stopped' = stopped \union ({holds[w]} \intersect cancels)
  /\ cancels' = cancels \ {holds[w]}
  /\ UNCHANGED <<closed, baseDone, call, queue, holds, reports, shutdown>>

Report(w) ==
  /\ worker[w] = "reporting"
  /\ reports' = [reports EXCEPT ![holds[w]] = @ + 1]
  /\ worker' = [worker EXCEPT ![w] = "idle"]
  /\ holds' = [holds EXCEPT ![w] = NoJob]
  /\ UNCHANGED <<closed, baseDone, call, queue, cancels, stopped, shutdown>>

\* A slip: the loop ends with the base context instead of with the queue.
ExitOnSignal(w) ==
  /\ worker[w] = "idle"
  /\ closed /\ baseDone
  /\ queue = <<>>
  /\ worker' = [worker EXCEPT ![w] = "exited"]
  /\ UNCHANGED <<closed, baseDone, call, queue, cancels, stopped, holds,
                 reports, shutdown>>

Exit(w) ==
  /\ worker[w] = "idle"
  /\ closed
  /\ queue = <<>>
  /\ worker' = [worker EXCEPT ![w] = "exited"]
  /\ UNCHANGED <<closed, baseDone, call, queue, cancels, stopped, holds,
                 reports, shutdown>>

-----------------------------------------------------------------------------
(***************************************************************************)
(* cancel of a job the pool knows; for any other id it only answers FALSE. *)
(***************************************************************************)
Cancel(j) ==
  /\ j \in cancels
  /\ stopped' = stopped \union {j}
  /\ cancels' = cancels \ {j}
  /\ UNCHANGED <<closed, baseDone, call, queue, worker, holds, reports,
                 shutdown>>

(***************************************************************************)
(* The signal handler of cmd/patentmine serve cancels the base context.    *)
(***************************************************************************)
CancelBase ==
  /\ ~baseDone
  /\ baseDone' = TRUE
  /\ UNCHANGED <<closed, call, queue, cancels, stopped, worker, holds,
                 reports, shutdown>>

(***************************************************************************)
(* shutdown closes the queue under the lock, then waits for the workers; a *)
(* call that finds the pool closed returns and changes nothing.            *)
(***************************************************************************)
ShutdownClose ==
  /\ ~closed
  /\ closed' = TRUE
  /\ shutdown' = "waiting"
  /\ UNCHANGED <<baseDone, call, queue, cancels, stopped, worker, holds,
                 reports>>

\* A slip: shutdown returns without p.wg.Wait().
ShutdownReturnAtOnce ==
  /\ shutdown = "waiting"
  /\ shutdown' = "returned"
  /\ UNCHANGED <<closed, baseDone, call, queue, cancels, stopped, worker,
                 holds, reports>>

ShutdownReturn ==
  /\ shutdown = "waiting"
  /\ \A w \in Workers : worker[w] = "exited"
  /\ shutdown' = "returned"
  /\ UNCHANGED <<closed, baseDone, call, queue, cancels, stopped, worker,
                 holds, reports>>

-----------------------------------------------------------------------------
(***************************************************************************)
(* No caller of submit recovers: its panic ends the process, and with it   *)
(* every goroutine.                                                        *)
(***************************************************************************)
Crashed == \E j \in Jobs : call[j] = "panicked"

Submit(j) ==
  /\ ~Crashed
  /\ \/ SubmitRefused(j)
     \/ SubmitRegister(j)
     \/ SubmitSend(j)
     \/ SubmitFull(j)
     \/ SubmitUnregister(j)
     \/ SubmitPanic(j)

Work(w) ==
  /\ ~Crashed
  /\ Take(w) \/ Finish(w) \/ Report(w) \/ Exit(w)

Control ==
  /\ ~Crashed
  /\ \/ \E j \in Jobs : Cancel(j)
     \/ CancelBase
     \/ ShutdownClose

AwaitWorkers == ~Crashed /\ ShutdownReturn

Next ==
  \/ \E j \in Jobs : Submit(j)
  \/ \E w \in Workers : Work(w)
  \/ Control
  \/ AwaitWorkers

(***************************************************************************)
(* The Go scheduler runs every runnable goroutine: the workers, the rest   *)
(* of a submit call that has begun, and the shutdown that waits.  That     *)
(* Finish is fair assumes that a job's Run returns: a crawl visits at most *)
(* its node budget and its HTTP client has a timeout.                      *)
(***************************************************************************)
Fairness ==
  /\ \A w \in Workers : WF_vars(Work(w))
  /\ \A j \in Jobs : WF_vars(Submit(j) /\ call[j] # "new")
  /\ WF_vars(AwaitWorkers)

Spec == Init /\ [][Next]_vars

FairSpec == Spec /\ Fairness

-----------------------------------------------------------------------------
TypeOK ==
  /\ closed \in BOOLEAN
  /\ baseDone \in BOOLEAN
  /\ call \in [Jobs -> CallState]
  /\ queue \in Seq(Jobs)
  /\ Len(queue) <= QueueDepth
  /\ cancels \subseteq Jobs
  /\ stopped \subseteq Jobs
  /\ worker \in [Workers -> {"idle", "running", "reporting", "exited"}]
  /\ holds \in [Workers -> Jobs \union {NoJob}]
  /\ reports \in [Jobs -> Nat]
  /\ shutdown \in {"none", "waiting", "returned"}

(***************************************************************************)
(* A job the pool accepted and has not reported can still be stopped: the  *)
(* pool keeps its cancel function until its Run is over, or has called it. *)
(* Without it CancelCrawl answers "unknown job" for a crawl that goes on.  *)
(***************************************************************************)
LiveJobCancellable ==
  \A j \in Jobs :
    (Queued(j) \/ \E w \in Workers : worker[w] = "running" /\ holds[w] = j)
      => j \in cancels \/ j \in stopped

(***************************************************************************)
(* The pool does not keep the cancel function of a job that is over: an    *)
(* entry of p.cancels belongs to a submit call still to send its job, to a *)
(* queued job or to a running one, or the process is gone.                 *)
(***************************************************************************)
NoStaleCancel ==
  \A j \in cancels :
    \/ call[j] \in {"registered", "full", "panicked"}
    \/ Queued(j)
    \/ \E w \in Workers : worker[w] = "running" /\ holds[w] = j

(***************************************************************************)
(* p.cancels is exact: the pool can stop every job it has accepted and not *)
(* finished (unless it was told to already), and keeps nothing of a job    *)
(* that is over.  cancel, the worker that ends the job and the submit that *)
(* finds no room all delete from the map, each in its own critical         *)
(* section.                                                                *)
(***************************************************************************)
CancelTableExact == LiveJobCancellable /\ NoStaleCancel

(***************************************************************************)
(* CrawlDone is published at most once for a job, and only for a job whose *)
(* submit call was answered with an id; the watchers of a crawl stop at    *)
(* the first one they see.                                                 *)
(***************************************************************************)
ReportedOnce ==
  \A j \in Jobs :
    /\ reports[j] <= 1
    /\ reports[j] = 1 => call[j] = "accepted"

(***************************************************************************)
(* When shutdown returns, every job that was ever accepted has been        *)
(* reported: the bus, closed next, misses no CrawlDone.                    *)
(***************************************************************************)
ShutdownDrains ==
  shutdown = "returned" =>
    \A j \in Jobs : call[j] = "accepted" => reports[j] = 1

(***************************************************************************)
(* submit either answers with an id or with an error, whatever shutdown    *)
(* does meanwhile: "shutdown stops accepting jobs and waits for in-flight  *)
(* jobs to finish".                                                        *)
(***************************************************************************)
SubmitNeverPanics == \A j \in Jobs : call[j] # "panicked"

(***************************************************************************)
(* Every accepted job is reported sooner or later, cancelled or not,       *)
(* unless the process ends first.                                          *)
(***************************************************************************)
AcceptedIsReported ==
  \A j \in Jobs : call[j] = "accepted" ~> (reports[j] = 1 \/ Crashed)

(***************************************************************************)
(* shutdown does not wait for ever, whatever is queued when it is called.  *)
(***************************************************************************)
ShutdownReturns == closed ~> (shutdown = "returned" \/ Crashed)

-----------------------------------------------------------------------------
(***************************************************************************)
(* The pool as its callers see it.                                         *)
(***************************************************************************)
JobSeen(j) ==
  IF reports[j] > 0 THEN "reported"
  ELSE IF call[j] = "accepted" THEN "accepted"
  ELSE "unknown"

OpenSeen ==
  CASE shutdown = "none"     -> "open"
    [] shutdown = "waiting"  -> "closing"
    [] shutdown = "returned" -> "stopped"

Service == INSTANCE JobService
             WITH job <- [j \in Jobs |-> JobSeen(j)], open <- OpenSeen

(***************************************************************************)
(* The pool implements JobService: nothing is accepted once shutdown has   *)
(* begun, nothing is reported twice or after shutdown has returned.        *)
(***************************************************************************)
ImplementsJobService == Service!SSpec
=============================================================================
