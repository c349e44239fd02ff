----------------------------- MODULE RpcService -----------------------------
(***************************************************************************)
(* What a call to the daemon promises its caller.  The daemon may carry    *)
(* the call out once, while the caller waits or after it has given up; the *)
(* caller learns that it was carried out only if it was.                   *)
(***************************************************************************)
CONSTANTS Calls

VARIABLES
  outcome,    \* of each call, for its caller: idle, open, ok, refused or failed
  effect      \* of each call, at the daemon: none, applied or rejected

vars == <<outcome, effect>>

Init ==
  /\ outcome = [c \in Calls |-> "idle"]
  /\ effect = [c \in Calls |-> "none"]

Begin(c) ==
  /\ outcome[c] = "idle"
  /\ outcome' = [outcome EXCEPT ![c] = "open"]
  /\ UNCHANGED effect

Decide(c, what) ==
  /\ outcome[c] # "idle" /\ effect[c] = "none"
  /\ effect' = [effect EXCEPT ![c] = what]
  /\ UNCHANGED outcome

\* The answer the caller gets is the daemon's decision on this very call.
Answer(c) ==
  /\ outcome[c] = "open" /\ effect[c] # "none"
  /\ outcome' = [outcome EXCEPT ![c] = IF effect[c] = "applied" THEN "ok" ELSE "refused"]
  /\ UNCHANGED effect

\* The caller gives up, or the connection drops: nothing is said of the effect.
Fail(c) ==
  /\ outcome[c] \in {"idle", "open"}
  /\ outcome' = [outcome EXCEPT ![c] = "failed"]
  /\ UNCHANGED effect

Next ==
  \E c \in Calls : \/ Begin(c) \/ Answer(c) \/ Fail(c)
                   \/ \E what \in {"applied", "rejected"} : Decide(c, what)

Spec == Init /\ [][Next]_vars
=============================================================================
