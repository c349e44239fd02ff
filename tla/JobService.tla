----------------------------- MODULE JobService -----------------------------
(***************************************************************************)
(* What the worker pool promises its callers, without queue, workers or    *)
(* locks: an accepted job is reported exactly once, jobs are accepted only *)
(* while the service is open, and the service says it has stopped only     *)
(* when nothing it accepted is left to report.                             *)
(***************************************************************************)
CONSTANT Jobs

VARIABLES
  job,   \* what the callers and the subscribers of the bus know of a job
  open   \* "open", "closing" once shutdown has begun, "stopped" once it is over

svars == <<job, open>>

SInit ==
  /\ job = [j \in Jobs |-> "unknown"]
  /\ open = "open"

SAccept(j) ==
  /\ job[j] = "unknown"
  /\ open = "open"
  /\ job' = [job EXCEPT ![j] = "accepted"]
  /\ UNCHANGED open

SReport(j) ==
  /\ job[j] = "accepted"
  /\ open # "stopped"
  /\ job' = [job EXCEPT ![j] = "reported"]
  /\ UNCHANGED open

SClose ==
  /\ open = "open"
  /\ open' = "closing"
  /\ UNCHANGED job

SStop ==
  /\ open = "closing"
  /\ \A j \in Jobs : job[j] # "accepted"
  /\ open' = "stopped"
  /\ UNCHANGED job

SNext ==
  \/ \E j \in Jobs : SAccept(j) \/ SReport(j)
  \/ SClose
  \/ SStop

SSpec == SInit /\ [][SNext]_svars
=============================================================================
