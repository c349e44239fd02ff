---------------------------- MODULE EngineProofs ----------------------------
(***************************************************************************)
(* Proofs about four services of the daemon that share no state: the       *)
(* worker pool (WorkerPool), the debounced change announcement             *)
(* (ChangeDebounce), the listing cache of the store (ListingCache) and the *)
(* event bus (Bus).                                                        *)
(***************************************************************************)
EXTENDS WorkerPool, ChangeDebounce, ListingCache, Bus, FiniteSetTheorems, SequenceTheorems,
        TLAPS

-----------------------------------------------------------------------------
(***************************************************************************)
(* WorkerPool, for every number of submit calls, workers and queue slots.  *)
(***************************************************************************)
LEMMA InitTypeOK == Init => TypeOK
<1> SUFFICES ASSUME Init
             PROVE  TypeOK
  OBVIOUS
<1>1. queue \in Seq(Jobs) /\ Len(queue) <= QueueDepth
  BY PoolAssumption DEF Init
<1>2. /\ call \in [Jobs -> CallState]
      /\ worker \in [Workers -> {"idle", "running", "reporting", "exited"}]
      /\ holds \in [Workers -> Jobs \union {NoJob}]
      /\ reports \in [Jobs -> Nat]
  BY DEF Init, CallState
<1>. QED
  BY <1>1, <1>2 DEF Init, TypeOK

LEMMA NextTypeOK == TypeOK /\ [Next]_vars => TypeOK'
<1> SUFFICES ASSUME TypeOK, [Next]_vars
             PROVE  TypeOK'
  OBVIOUS
<1> USE PoolAssumption DEF TypeOK, CallState
<1>1. ASSUME NEW j \in Jobs, Submit(j)
      PROVE  TypeOK'
  <2>1. CASE SubmitRefused(j)
    BY <2>1 DEF SubmitRefused
  <2>2. CASE SubmitRegister(j)
    BY <2>2 DEF SubmitRegister
  <2>3. CASE SubmitSend(j)
    <3>1. queue' \in Seq(Jobs) /\ Len(queue') <= QueueDepth
      BY <2>3 DEF SubmitSend
    <3>. QED
      BY <2>3, <3>1 DEF SubmitSend
  <2>4. CASE SubmitFull(j)
    BY <2>4 DEF SubmitFull
  <2>5. CASE SubmitUnregister(j)
    BY <2>5 DEF SubmitUnregister
  <2>6. CASE SubmitPanic(j)
    BY <2>6 DEF SubmitPanic
  <2>. QED
    BY <1>1, <2>1, <2>2, <2>3, <2>4, <2>5, <2>6 DEF Submit
<1>2. ASSUME NEW w \in Workers, Work(w)
      PROVE  TypeOK'
  <2>1. CASE Take(w)
    <3>1. /\ queue' \in Seq(Jobs) /\ Len(queue') <= QueueDepth
          /\ Head(queue) \in Jobs
      BY <2>1 DEF Take
    <3>. QED
      BY <2>1, <3>1 DEF Take
  <2>2. CASE Finish(w)
    BY <2>2 DEF Finish
  <2>3. CASE Report(w)
    <3>1. reports' \in [Jobs -> Nat]
      <4>. DEFINE n == reports[holds[w]] + 1
      <4>1. reports' = [reports EXCEPT ![holds[w]] = n]
        BY <2>3 DEF Report
      <4>2. holds[w] \in Jobs => n \in Nat
        OBVIOUS
      <4>. HIDE DEF n
      <4>. QED
        BY <4>1, <4>2
    <3>2. /\ worker' \in [Workers -> {"idle", "running", "reporting", "exited"}]
          /\ holds' \in [Workers -> Jobs \union {NoJob}]
      BY <2>3 DEF Report
    <3>. QED
      BY <2>3, <3>1, <3>2 DEF Report
  <2>4. CASE Exit(w)
    BY <2>4 DEF Exit
  <2>. QED
    BY <1>2, <2>1, <2>2, <2>3, <2>4 DEF Work
<1>3. CASE Control
  BY <1>3 DEF Control, Cancel, CancelBase, ShutdownClose
<1>4. CASE AwaitWorkers
  BY <1>4 DEF AwaitWorkers, ShutdownReturn
<1>5. CASE UNCHANGED vars
  BY <1>5 DEF vars
<1>. QED
  BY <1>1, <1>2, <1>3, <1>4, <1>5 DEF Next

(***************************************************************************)
(* Every variable of the pool keeps its type; in particular the queue      *)
(* never outgrows queueDepth.                                              *)
(***************************************************************************)
THEOREM PoolTypes == Spec => []TypeOK
  BY InitTypeOK, NextTypeOK, PTL DEF Spec

-----------------------------------------------------------------------------
(***************************************************************************)
(* The inductive invariant.  An accepted job is in exactly one place: once *)
(* in the queue, or in the hands of one worker, or reported.               *)
(***************************************************************************)
HoldsInv ==
  \A w \in Workers :
    holds[w] # NoJob <=> worker[w] \in {"running", "reporting"}

OnePlace ==
  /\ \A a, b \in 1..Len(queue) : queue[a] = queue[b] => a = b
  /\ \A v, w \in Workers : holds[v] = holds[w] /\ holds[v] # NoJob => v = w
  /\ \A a \in 1..Len(queue), w \in Workers : holds[w] # queue[a]

Pending ==
  /\ \A a \in 1..Len(queue) : call[queue[a]] = "accepted" /\ reports[queue[a]] = 0
  /\ \A w \in Workers :
       holds[w] # NoJob => call[holds[w]] = "accepted" /\ reports[holds[w]] = 0

Accounted ==
  \A j \in Jobs : call[j] = "accepted" =>
    \/ Queued(j)
    \/ \E w \in Workers : holds[w] = j
    \/ reports[j] = 1

Registered ==
  \A j \in Jobs : call[j] = "registered" => j \in cancels \/ j \in stopped

ShutdownInv ==
  /\ shutdown = "none" <=> ~closed
  /\ \A w \in Workers : worker[w] = "exited" => closed /\ queue = <<>>
  /\ shutdown = "returned" => \A w \in Workers : worker[w] = "exited"

PoolInv ==
  /\ TypeOK
  /\ HoldsInv
  /\ OnePlace
  /\ Pending
  /\ Accounted
  /\ Registered
  /\ ReportedOnce
  /\ LiveJobCancellable
  /\ NoStaleCancel
  /\ ShutdownInv

LEMMA PoolAtFirst == Init => PoolInv
<1> SUFFICES ASSUME Init
             PROVE  PoolInv
  OBVIOUS
<1>1. TypeOK
  BY InitTypeOK
<1>2. Len(queue) = 0
  BY DEF Init
<1>. QED
  BY <1>1, <1>2, PoolAssumption
  DEF PoolInv, Init, HoldsInv, OnePlace, Pending, Accounted, Registered,
      ReportedOnce, LiveJobCancellable, NoStaleCancel, ShutdownInv, Queued

LEMMA RefusedInv ==
  ASSUME NEW j \in Jobs, PoolInv, TypeOK', SubmitRefused(j)
  PROVE  PoolInv'
<1> USE PoolAssumption DEF PoolInv, TypeOK, CallState, SubmitRefused
<1>1. HoldsInv'
  BY DEF HoldsInv
<1>2. OnePlace'
  BY DEF HoldsInv, OnePlace, Pending
<1>3. Pending'
  BY DEF HoldsInv, OnePlace, Pending
<1>4. Accounted'
  BY DEF HoldsInv, OnePlace, Accounted, Queued
<1>5. Registered'
  BY DEF Registered, Pending, HoldsInv
<1>6. ReportedOnce'
  BY DEF ReportedOnce, Pending, HoldsInv
<1>7. LiveJobCancellable'
  BY DEF LiveJobCancellable, Registered, HoldsInv, OnePlace, Queued
<1>8. NoStaleCancel'
  BY DEF NoStaleCancel, HoldsInv, OnePlace, Pending, Queued
<1>9. ShutdownInv'
  BY DEF ShutdownInv, HoldsInv
<1>. QED
  BY <1>1, <1>2, <1>3, <1>4, <1>5, <1>6, <1>7, <1>8, <1>9 DEF PoolInv

LEMMA RegisterInv ==
  ASSUME NEW j \in Jobs, PoolInv, TypeOK', SubmitRegister(j)
  PROVE  PoolInv'
<1> USE PoolAssumption DEF PoolInv, TypeOK, CallState, SubmitRegister
<1>1. HoldsInv'
  BY DEF HoldsInv
<1>2. OnePlace'
  BY DEF HoldsInv, OnePlace, Pending
<1>3. Pending'
  BY DEF HoldsInv, OnePlace, Pending
<1>4. Accounted'
  BY DEF HoldsInv, OnePlace, Accounted, Queued
<1>5. Registered'
  BY DEF Registered, Pending, HoldsInv
<1>6. ReportedOnce'
  BY DEF ReportedOnce, Pending, HoldsInv
<1>7. LiveJobCancellable'
  BY DEF LiveJobCancellable, Registered, HoldsInv, OnePlace, Queued
<1>8. NoStaleCancel'
  BY DEF NoStaleCancel, HoldsInv, OnePlace, Pending, Queued
<1>9. ShutdownInv'
  BY DEF ShutdownInv, HoldsInv
<1>. QED
  BY <1>1, <1>2, <1>3, <1>4, <1>5, <1>6, <1>7, <1>8, <1>9 DEF PoolInv

LEMMA SendInv ==
  ASSUME NEW j \in Jobs, PoolInv, TypeOK', SubmitSend(j)
  PROVE  PoolInv'
<1> USE PoolAssumption DEF PoolInv, TypeOK, CallState, SubmitSend
<1>a. /\ Len(queue') = Len(queue) + 1
      /\ queue'[Len(queue) + 1] = j
      /\ \A a \in 1..Len(queue) : queue'[a] = queue[a]
  OBVIOUS
<1>b. \A k \in Jobs : Queued(k)' <=> Queued(k) \/ k = j
  BY <1>a DEF Queued
<1>c. /\ \A a \in 1..Len(queue) : queue[a] # j
      /\ \A w \in Workers : holds[w] # j
      /\ reports[j] = 0
  BY DEF Pending, ReportedOnce
<1>1. HoldsInv'
  BY DEF HoldsInv
<1>2. OnePlace'
  BY <1>a, <1>c DEF OnePlace
<1>3. Pending'
  BY <1>a, <1>c DEF Pending
<1>4. Accounted'
  BY <1>b DEF Accounted
<1>5. Registered'
  BY DEF Registered, Pending, HoldsInv
<1>6. ReportedOnce'
  BY DEF ReportedOnce, Pending, HoldsInv
<1>7. LiveJobCancellable'
  BY <1>b DEF LiveJobCancellable, Registered
<1>8. NoStaleCancel'
  BY <1>b DEF NoStaleCancel
<1>9. ShutdownInv'
  BY DEF ShutdownInv, HoldsInv
<1>. QED
  BY <1>1, <1>2, <1>3, <1>4, <1>5, <1>6, <1>7, <1>8, <1>9 DEF PoolInv

LEMMA FullInv ==
  ASSUME NEW j \in Jobs, PoolInv, TypeOK', SubmitFull(j)
  PROVE  PoolInv'
<1> USE PoolAssumption DEF PoolInv, TypeOK, CallState, SubmitFull
<1>1. HoldsInv'
  BY DEF HoldsInv
<1>2. OnePlace'
  BY DEF HoldsInv, OnePlace, Pending
<1>3. Pending'
  BY DEF HoldsInv, OnePlace, Pending
<1>4. Accounted'
  BY DEF HoldsInv, OnePlace, Accounted, Queued
<1>5. Registered'
  BY DEF Registered, Pending, HoldsInv
<1>6. ReportedOnce'
  BY DEF ReportedOnce, Pending, HoldsInv
<1>7. LiveJobCancellable'
  BY DEF LiveJobCancellable, Registered, HoldsInv, OnePlace, Queued
<1>8. NoStaleCancel'
  BY DEF NoStaleCancel, HoldsInv, OnePlace, Pending, Queued
<1>9. ShutdownInv'
  BY DEF ShutdownInv, HoldsInv
<1>. QED
  BY <1>1, <1>2, <1>3, <1>4, <1>5, <1>6, <1>7, <1>8, <1>9 DEF PoolInv

LEMMA UnregisterInv ==
  ASSUME NEW j \in Jobs, PoolInv, TypeOK', SubmitUnregister(j)
  PROVE  PoolInv'
<1> USE PoolAssumption DEF PoolInv, TypeOK, CallState, SubmitUnregister
<1>1. HoldsInv'
  BY DEF HoldsInv
<1>2. OnePlace'
  BY DEF HoldsInv, OnePlace, Pending
<1>3. Pending'
  BY DEF HoldsInv, OnePlace, Pending
<1>4. Accounted'
  BY DEF HoldsInv, OnePlace, Accounted, Queued
<1>5. Registered'
  BY DEF Registered, Pending, HoldsInv
<1>6. ReportedOnce'
  BY DEF ReportedOnce, Pending, HoldsInv
<1>7. LiveJobCancellable'
  BY DEF LiveJobCancellable, Pending, HoldsInv, OnePlace, Queued
<1>8. NoStaleCancel'
  BY DEF NoStaleCancel, HoldsInv, OnePlace, Pending, Queued
<1>9. ShutdownInv'
  BY DEF ShutdownInv, HoldsInv
<1>. QED
  BY <1>1, <1>2, <1>3, <1>4, <1>5, <1>6, <1>7, <1>8, <1>9 DEF PoolInv

LEMMA PanicInv ==
  ASSUME NEW j \in Jobs, PoolInv, TypeOK', SubmitPanic(j)
  PROVE  PoolInv'
<1> USE PoolAssumption DEF PoolInv, TypeOK, CallState, SubmitPanic
<1>1. HoldsInv'
  BY DEF HoldsInv
<1>2. OnePlace'
  BY DEF HoldsInv, OnePlace, Pending
<1>3. Pending'
  BY DEF HoldsInv, OnePlace, Pending
<1>4. Accounted'
  BY DEF HoldsInv, OnePlace, Accounted, Queued
<1>5. Registered'
  BY DEF Registered, Pending, HoldsInv
<1>6. ReportedOnce'
  BY DEF ReportedOnce, Pending, HoldsInv
<1>7. LiveJobCancellable'
  BY DEF LiveJobCancellable, Registered, HoldsInv, OnePlace, Queued
<1>8. NoStaleCancel'
  BY DEF NoStaleCancel, HoldsInv, OnePlace, Pending, Queued
<1>9. ShutdownInv'
  BY DEF ShutdownInv, HoldsInv
<1>. QED
  BY <1>1, <1>2, <1>3, <1>4, <1>5, <1>6, <1>7, <1>8, <1>9 DEF PoolInv

LEMMA TakeInv ==
  ASSUME NEW w \in Workers, PoolInv, TypeOK', Take(w)
  PROVE  PoolInv'
<1> USE PoolAssumption DEF PoolInv, TypeOK, CallState, Take
<1>a. /\ Len(queue) \in Nat \ {0}
      /\ queue[1] = Head(queue)
      /\ Len(queue') = Len(queue) - 1
      /\ \A a \in 1..Len(queue') : queue'[a] = queue[a + 1]
  OBVIOUS
<1>b. \A k \in Jobs : Queued(k) <=> Queued(k)' \/ k = Head(queue)
  <2> SUFFICES ASSUME NEW k \in Jobs
               PROVE  Queued(k) <=> Queued(k)' \/ k = Head(queue)
    OBVIOUS
  <2>1. ASSUME NEW a \in 1..Len(queue), queue[a] = k
        PROVE  Queued(k)' \/ k = Head(queue)
    <3>1. CASE a = 1
      BY <2>1, <3>1, <1>a
    <3>2. CASE a # 1
      <4>1. a - 1 \in 1..Len(queue') /\ queue'[a - 1] = queue[a]
        BY <1>a, <3>2
      <4>. QED
        BY <2>1, <4>1 DEF Queued
    <3>. QED
      BY <3>1, <3>2
  <2>2. ASSUME NEW a \in 1..Len(queue'), queue'[a] = k
        PROVE  Queued(k)
    <3>1. a + 1 \in 1..Len(queue) /\ queue[a + 1] = k
      BY <1>a, <2>2
    <3>. QED
      BY <3>1 DEF Queued
  <2>3. Queued(Head(queue))
    BY <1>a DEF Queued
  <2>. QED
    BY <2>1, <2>2, <2>3 DEF Queued
<1>1. HoldsInv'
  BY DEF HoldsInv
<1>2. OnePlace'
  BY DEF HoldsInv, OnePlace, Pending
<1>3. Pending'
  BY DEF HoldsInv, OnePlace, Pending
<1>4. Accounted'
  BY <1>b DEF Accounted, HoldsInv
<1>5. Registered'
  BY DEF Registered, Pending, HoldsInv
<1>6. ReportedOnce'
  BY DEF ReportedOnce, Pending, HoldsInv
<1>7. LiveJobCancellable'
  BY DEF LiveJobCancellable, Registered, HoldsInv, OnePlace, Queued
<1>8. NoStaleCancel'
  BY <1>b DEF NoStaleCancel, HoldsInv
<1>9. ShutdownInv'
  BY DEF ShutdownInv, HoldsInv
<1>. QED
  BY <1>1, <1>2, <1>3, <1>4, <1>5, <1>6, <1>7, <1>8, <1>9 DEF PoolInv

LEMMA FinishInv ==
  ASSUME NEW w \in Workers, PoolInv, TypeOK', Finish(w)
  PROVE  PoolInv'
<1> USE PoolAssumption DEF PoolInv, TypeOK, CallState, Finish
<1>1. HoldsInv'
  BY DEF HoldsInv
<1>2. OnePlace'
  BY DEF HoldsInv, OnePlace, Pending
<1>3. Pending'
  BY DEF HoldsInv, OnePlace, Pending
<1>4. Accounted'
  BY DEF HoldsInv, OnePlace, Accounted, Queued
<1>5. Registered'
  BY DEF Registered, Pending, HoldsInv
<1>6. ReportedOnce'
  BY DEF ReportedOnce, Pending, HoldsInv
<1>7. LiveJobCancellable'
  BY DEF LiveJobCancellable, Registered, HoldsInv, OnePlace, Queued
<1>8. NoStaleCancel'
  BY DEF NoStaleCancel, HoldsInv, OnePlace, Pending, Queued
<1>9. ShutdownInv'
  BY DEF ShutdownInv, HoldsInv
<1>. QED
  BY <1>1, <1>2, <1>3, <1>4, <1>5, <1>6, <1>7, <1>8, <1>9 DEF PoolInv

LEMMA ReportInv ==
  ASSUME NEW w \in Workers, PoolInv, TypeOK', Report(w)
  PROVE  PoolInv'
<1> USE PoolAssumption DEF PoolInv, TypeOK, CallState, Report
<1>1. HoldsInv'
  BY DEF HoldsInv
<1>2. OnePlace'
  BY DEF HoldsInv, OnePlace, Pending
<1>3. Pending'
  BY DEF HoldsInv, OnePlace, Pending
<1>4. Accounted'
  BY DEF HoldsInv, OnePlace, Accounted, Pending, Queued
<1>5. Registered'
  BY DEF Registered, Pending, HoldsInv
<1>6. ReportedOnce'
  BY DEF ReportedOnce, Pending, HoldsInv
<1>7. LiveJobCancellable'
  BY DEF LiveJobCancellable, Registered, HoldsInv, OnePlace, Queued
<1>8. NoStaleCancel'
  BY DEF NoStaleCancel, HoldsInv, OnePlace, Pending, Queued
<1>9. ShutdownInv'
  BY DEF ShutdownInv, HoldsInv
<1>. QED
  BY <1>1, <1>2, <1>3, <1>4, <1>5, <1>6, <1>7, <1>8, <1>9 DEF PoolInv

LEMMA ExitInv ==
  ASSUME NEW w \in Workers, PoolInv, TypeOK', Exit(w)
  PROVE  PoolInv'
<1> USE PoolAssumption DEF PoolInv, TypeOK, CallState, Exit
<1>1. HoldsInv'
  BY DEF HoldsInv
<1>2. OnePlace'
  BY DEF HoldsInv, OnePlace, Pending
<1>3. Pending'
  BY DEF HoldsInv, OnePlace, Pending
<1>4. Accounted'
  BY DEF HoldsInv, OnePlace, Accounted, Queued
<1>5. Registered'
  BY DEF Registered, Pending, HoldsInv
<1>6. ReportedOnce'
  BY DEF ReportedOnce, Pending, HoldsInv
<1>7. LiveJobCancellable'
  BY DEF LiveJobCancellable, Registered, HoldsInv, OnePlace, Queued
<1>8. NoStaleCancel'
  BY DEF NoStaleCancel, HoldsInv, OnePlace, Pending, Queued
<1>9. ShutdownInv'
  BY DEF ShutdownInv, HoldsInv
<1>. QED
  BY <1>1, <1>2, <1>3, <1>4, <1>5, <1>6, <1>7, <1>8, <1>9 DEF PoolInv

LEMMA CancelInv ==
  ASSUME NEW j \in Jobs, PoolInv, TypeOK', Cancel(j)
  PROVE  PoolInv'
<1> USE PoolAssumption DEF PoolInv, TypeOK, CallState, Cancel
<1>1. HoldsInv'
  BY DEF HoldsInv
<1>2. OnePlace'
  BY DEF HoldsInv, OnePlace, Pending
<1>3. Pending'
  BY DEF HoldsInv, OnePlace, Pending
<1>4. Accounted'
  BY DEF HoldsInv, OnePlace, Accounted, Queued
<1>5. Registered'
  BY DEF Registered, Pending, HoldsInv
<1>6. ReportedOnce'
  BY DEF ReportedOnce, Pending, HoldsInv
<1>7. LiveJobCancellable'
  BY DEF LiveJobCancellable, Registered, HoldsInv, OnePlace, Queued
<1>8. NoStaleCancel'
  BY DEF NoStaleCancel, HoldsInv, OnePlace, Pending, Queued
<1>9. ShutdownInv'
  BY DEF ShutdownInv, HoldsInv
<1>. QED
  BY <1>1, <1>2, <1>3, <1>4, <1>5, <1>6, <1>7, <1>8, <1>9 DEF PoolInv

LEMMA CancelBaseInv ==
  ASSUME PoolInv, TypeOK', CancelBase
  PROVE  PoolInv'
<1> USE PoolAssumption DEF PoolInv, TypeOK, CallState, CancelBase
<1>1. HoldsInv'
  BY DEF HoldsInv
<1>2. OnePlace'
  BY DEF HoldsInv, OnePlace, Pending
<1>3. Pending'
  BY DEF HoldsInv, OnePlace, Pending
<1>4. Accounted'
  BY DEF HoldsInv, OnePlace, Accounted, Queued
<1>5. Registered'
  BY DEF Registered, Pending, HoldsInv
<1>6. ReportedOnce'
  BY DEF ReportedOnce, Pending, HoldsInv
<1>7. LiveJobCancellable'
  BY DEF LiveJobCancellable, Registered, HoldsInv, OnePlace, Queued
<1>8. NoStaleCancel'
  BY DEF NoStaleCancel, HoldsInv, OnePlace, Pending, Queued
<1>9. ShutdownInv'
  BY DEF ShutdownInv, HoldsInv
<1>. QED
  BY <1>1, <1>2, <1>3, <1>4, <1>5, <1>6, <1>7, <1>8, <1>9 DEF PoolInv

LEMMA ShutdownCloseInv ==
  ASSUME PoolInv, TypeOK', ShutdownClose
  PROVE  PoolInv'
<1> USE PoolAssumption DEF PoolInv, TypeOK, CallState, ShutdownClose
<1>1. HoldsInv'
  BY DEF HoldsInv
<1>2. OnePlace'
  BY DEF HoldsInv, OnePlace, Pending
<1>3. Pending'
  BY DEF HoldsInv, OnePlace, Pending
<1>4. Accounted'
  BY DEF HoldsInv, OnePlace, Accounted, Queued
<1>5. Registered'
  BY DEF Registered, Pending, HoldsInv
<1>6. ReportedOnce'
  BY DEF ReportedOnce, Pending, HoldsInv
<1>7. LiveJobCancellable'
  BY DEF LiveJobCancellable, Registered, HoldsInv, OnePlace, Queued
<1>8. NoStaleCancel'
  BY DEF NoStaleCancel, HoldsInv, OnePlace, Pending, Queued
<1>9. ShutdownInv'
  BY DEF ShutdownInv, HoldsInv
<1>. QED
  BY <1>1, <1>2, <1>3, <1>4, <1>5, <1>6, <1>7, <1>8, <1>9 DEF PoolInv

LEMMA ShutdownReturnInv ==
  ASSUME PoolInv, TypeOK', ShutdownReturn
  PROVE  PoolInv'
<1> USE PoolAssumption DEF PoolInv, TypeOK, CallState, ShutdownReturn
<1>1. HoldsInv'
  BY DEF HoldsInv
<1>2. OnePlace'
  BY DEF HoldsInv, OnePlace, Pending
<1>3. Pending'
  BY DEF HoldsInv, OnePlace, Pending
<1>4. Accounted'
  BY DEF HoldsInv, OnePlace, Accounted, Queued
<1>5. Registered'
  BY DEF Registered, Pending, HoldsInv
<1>6. ReportedOnce'
  BY DEF ReportedOnce, Pending, HoldsInv
<1>7. LiveJobCancellable'
  BY DEF LiveJobCancellable, Registered, HoldsInv, OnePlace, Queued
<1>8. NoStaleCancel'
  BY DEF NoStaleCancel, HoldsInv, OnePlace, Pending, Queued
<1>9. ShutdownInv'
  BY DEF ShutdownInv, HoldsInv
<1>. QED
  BY <1>1, <1>2, <1>3, <1>4, <1>5, <1>6, <1>7, <1>8, <1>9 DEF PoolInv

LEMMA PoolNextKeeps == PoolInv /\ [Next]_vars => PoolInv'
<1> SUFFICES ASSUME PoolInv, [Next]_vars
             PROVE  PoolInv'
  OBVIOUS
<1>1. TypeOK'
  BY NextTypeOK DEF PoolInv
<1>2. ASSUME NEW j \in Jobs, Submit(j)
      PROVE  PoolInv'
  BY <1>1, <1>2, RefusedInv, RegisterInv, SendInv, FullInv, UnregisterInv,
     PanicInv DEF Submit
<1>3. ASSUME NEW w \in Workers, Work(w)
      PROVE  PoolInv'
  BY <1>1, <1>3, TakeInv, FinishInv, ReportInv, ExitInv DEF Work
<1>4. CASE Control
  BY <1>1, <1>4, CancelInv, CancelBaseInv, ShutdownCloseInv DEF Control
<1>5. CASE AwaitWorkers
  BY <1>1, <1>5, ShutdownReturnInv DEF AwaitWorkers
<1>6. CASE UNCHANGED vars
  BY <1>6 DEF vars, PoolInv, TypeOK, HoldsInv, OnePlace, Pending, Accounted,
     Registered, ReportedOnce, LiveJobCancellable, NoStaleCancel, ShutdownInv,
     Queued
<1>. QED
  BY <1>2, <1>3, <1>4, <1>5, <1>6 DEF Next

THEOREM PoolInductive == Spec => []PoolInv
  BY PoolAtFirst, PoolNextKeeps, PTL DEF Spec

-----------------------------------------------------------------------------
(***************************************************************************)
(* The map of cancel functions is exact: it holds one for every job that   *)
(* may still have to be stopped and for no other.                          *)
(***************************************************************************)
THEOREM CancelsAreExact == Spec => []CancelTableExact
<1>1. PoolInv => CancelTableExact
  BY DEF PoolInv, CancelTableExact
<1>. QED
  BY <1>1, PoolInductive, PTL

(***************************************************************************)
(* No job is reported twice, none that submit refused is reported.         *)
(***************************************************************************)
THEOREM OneReportPerJob == Spec => []ReportedOnce
<1>1. PoolInv => ReportedOnce
  BY DEF PoolInv
<1>. QED
  BY <1>1, PoolInductive, PTL

LEMMA ExitedIsDrained ==
  ASSUME PoolInv, \A w \in Workers : worker[w] = "exited",
         NEW j \in Jobs, call[j] = "accepted"
  PROVE  reports[j] = 1
<1>1. queue = <<>>
  BY PoolAssumption DEF PoolInv, ShutdownInv
<1>2. ~Queued(j)
  BY <1>1 DEF Queued
<1>3. \A w \in Workers : holds[w] # j
  BY PoolAssumption DEF PoolInv, HoldsInv
<1>. QED
  BY <1>2, <1>3 DEF PoolInv, Accounted

(***************************************************************************)
(* shutdown waits for the report of every job that was accepted.           *)
(***************************************************************************)
THEOREM ShutdownReportsAll == Spec => []ShutdownDrains
<1>1. PoolInv => ShutdownDrains
  BY ExitedIsDrained DEF ShutdownDrains, PoolInv, ShutdownInv
<1>. QED
  BY <1>1, PoolInductive, PTL

-----------------------------------------------------------------------------
(***************************************************************************)
(* The refinement of JobService, step by step.                             *)
(***************************************************************************)
LEMMA InitMaps == Init => Service!SInit
  BY DEF Init, Service!SInit, JobSeen, OpenSeen

LEMMA SendMaps ==
  ASSUME PoolInv, NEW j \in Jobs, SubmitSend(j)
  PROVE  Service!SAccept(j)
<1> USE DEF PoolInv, TypeOK, CallState, SubmitSend
<1>1. reports[j] = 0
  BY DEF ReportedOnce
<1>2. JobSeen(j) = "unknown" /\ OpenSeen = "open"
  BY <1>1 DEF JobSeen, OpenSeen, ShutdownInv
<1>3. ASSUME NEW k \in Jobs
      PROVE  JobSeen(k)' = IF k = j THEN "accepted" ELSE JobSeen(k)
  BY <1>1 DEF JobSeen
<1>4. OpenSeen' = OpenSeen
  BY DEF OpenSeen
<1>. QED
  BY <1>2, <1>3, <1>4 DEF Service!SAccept

LEMMA ReportMaps ==
  ASSUME PoolInv, NEW w \in Workers, Report(w)
  PROVE  Service!SReport(holds[w])
<1> USE DEF PoolInv, TypeOK, CallState, Report
<1>1. holds[w] \in Jobs /\ call[holds[w]] = "accepted" /\ reports[holds[w]] = 0
  BY DEF HoldsInv, Pending
<1>2. JobSeen(holds[w]) = "accepted"
  BY <1>1 DEF JobSeen
<1>3. OpenSeen # "stopped" /\ OpenSeen' = OpenSeen
  BY DEF OpenSeen, ShutdownInv
<1>4. ASSUME NEW k \in Jobs
      PROVE  JobSeen(k)' = IF k = holds[w] THEN "reported" ELSE JobSeen(k)
  BY <1>1 DEF JobSeen
<1>. QED
  BY <1>1, <1>2, <1>3, <1>4 DEF Service!SReport

LEMMA StopMaps ==
  ASSUME PoolInv, ShutdownReturn
  PROVE  Service!SStop
<1> USE DEF ShutdownReturn
<1>1. OpenSeen = "closing" /\ OpenSeen' = "stopped"
  BY DEF OpenSeen
<1>2. \A j \in Jobs : JobSeen(j) # "accepted"
  BY ExitedIsDrained DEF JobSeen
<1>3. \A j \in Jobs : JobSeen(j)' = JobSeen(j)
  BY DEF JobSeen
<1>. QED
  BY <1>1, <1>2, <1>3 DEF Service!SStop

LEMMA CloseMaps ==
  ASSUME PoolInv, ShutdownClose
  PROVE  Service!SClose
<1> USE DEF ShutdownClose
<1>1. OpenSeen = "open" /\ OpenSeen' = "closing"
  BY DEF OpenSeen, PoolInv, ShutdownInv, TypeOK
<1>2. \A j \in Jobs : JobSeen(j)' = JobSeen(j)
  BY DEF JobSeen
<1>. QED
  BY <1>1, <1>2 DEF Service!SClose

(***************************************************************************)
(* The other steps of submit move a call between states the service does   *)
(* not tell apart.                                                         *)
(***************************************************************************)
LEMMA SubmitStutters ==
  ASSUME PoolInv, NEW j \in Jobs,
         \/ SubmitRefused(j) \/ SubmitRegister(j) \/ SubmitFull(j)
         \/ SubmitUnregister(j) \/ SubmitPanic(j)
  PROVE  UNCHANGED Service!svars
<1>1. /\ call[j] \in {"new", "registered", "full"}
      /\ call'[j] \in CallState \ {"accepted"}
      /\ \A k \in Jobs : k # j => call'[k] = call[k]
      /\ reports' = reports
      /\ shutdown' = shutdown
  BY DEF PoolInv, TypeOK, CallState, SubmitRefused, SubmitRegister, SubmitFull,
         SubmitUnregister, SubmitPanic
<1>2. \A k \in Jobs : JobSeen(k)' = JobSeen(k)
  BY <1>1 DEF JobSeen
<1>3. OpenSeen' = OpenSeen
  BY <1>1 DEF OpenSeen
<1>. QED
  BY <1>2, <1>3 DEF Service!svars

LEMMA OthersStutter ==
  ASSUME UNCHANGED <<call, reports, shutdown>>
  PROVE  UNCHANGED Service!svars
  BY DEF Service!svars, JobSeen, OpenSeen

LEMMA NextMaps ==
  ASSUME PoolInv, [Next]_vars
  PROVE  [Service!SNext]_Service!svars
<1> USE DEF Service!SNext
<1>1. ASSUME NEW j \in Jobs, Submit(j)
      PROVE  [Service!SNext]_Service!svars
  BY <1>1, SendMaps, SubmitStutters DEF Submit
<1>2. ASSUME NEW w \in Workers, Work(w)
      PROVE  [Service!SNext]_Service!svars
  <2>1. CASE Report(w)
    <3>1. holds[w] \in Jobs
      BY <2>1 DEF PoolInv, TypeOK, HoldsInv, Report
    <3>. QED
      BY <2>1, <3>1, ReportMaps
  <2>2. CASE Take(w) \/ Finish(w) \/ Exit(w)
    BY <2>2, OthersStutter DEF Take, Finish, Exit
  <2>. QED
    BY <1>2, <2>1, <2>2 DEF Work
<1>3. CASE Control
  <2>1. CASE ShutdownClose
    BY <2>1, CloseMaps
  <2>2. CASE CancelBase \/ \E j \in Jobs : Cancel(j)
    BY <2>2, OthersStutter DEF CancelBase, Cancel
  <2>. QED
    BY <1>3, <2>1, <2>2 DEF Control
<1>4. CASE AwaitWorkers
  BY <1>4, StopMaps DEF AwaitWorkers
<1>5. CASE UNCHANGED vars
  BY <1>5, OthersStutter DEF vars
<1>. QED
  BY <1>1, <1>2, <1>3, <1>4, <1>5 DEF Next

(***************************************************************************)
(* The worker pool is a job service: seen through the answers of submit,   *)
(* the CrawlDone events and the return of shutdown, each of its steps is   *)
(* one of the service's or none.                                           *)
(***************************************************************************)
THEOREM PoolIsJobService == Spec => ImplementsJobService
<1>1. PoolInv /\ [Next]_vars => [Service!SNext]_Service!svars
  BY NextMaps
<1>. QED
  BY InitMaps, <1>1, PoolInductive, PTL DEF Spec, ImplementsJobService, Service!SSpec

-----------------------------------------------------------------------------
(***************************************************************************)
(* Safety of ChangeDebounce for any number of writes and timers.  The two  *)
(* halves of the argument lean on each other: no announcement is lost      *)
(* because e.changeTimer is only set while something will still look at    *)
(* e.changePending (OneWindow), and that holds because the bus is closed   *)
(* before the timer is dropped (BusClosedFirst), so that the disorder      *)
(* after Close is no longer visible to any client.                         *)
(***************************************************************************)
BusClosedFirst == busClosed <=> closing # "open"

DebounceInv == DebounceTypeOK /\ BusClosedFirst /\ OneWindow /\ NoChangeLost

\* The engine starts with no window and nothing owed (New, engine.go:183-201).
LEMMA DebounceAtFirst == DebounceInit => DebounceInv
<1> SUFFICES ASSUME DebounceInit PROVE DebounceInv
  OBVIOUS
<1>1. DebounceTypeOK BY DEF DebounceInit, DebounceTypeOK
<1>2. BusClosedFirst BY DEF DebounceInit, BusClosedFirst
<1>3. OneWindow BY DEF DebounceInit, OneWindow
<1>4. NoChangeLost BY DEF DebounceInit, NoChangeLost
<1> QED BY <1>1, <1>2, <1>3, <1>4 DEF DebounceInv

\* A store write owes nothing yet; it only becomes visible to the next publish.
LEMMA WriteKeeps ==
  ASSUME DebounceInv, NEW w \in Writes, Write(w)
  PROVE  DebounceInv'
<1> USE DebounceAssumption DEF DebounceInv, Write
<1>1. DebounceTypeOK' BY DEF DebounceTypeOK
<1>2. BusClosedFirst' BY DEF BusClosedFirst
<1>3. OneWindow' BY DEF OneWindow
<1>4. NoChangeLost' BY DEF NoChangeLost, DebounceTypeOK
<1> QED BY <1>1, <1>2, <1>3, <1>4

\* A collapsed call is owed an event, and OneWindow names who will send it.
LEMMA CollapsedKeeps ==
  ASSUME DebounceInv, NEW w \in Writes, AnnounceCollapsed(w)
  PROVE  DebounceInv'
<1> USE DebounceAssumption DEF DebounceInv, AnnounceCollapsed
<1>1. DebounceTypeOK' BY DEF DebounceTypeOK
<1>2. BusClosedFirst' BY DEF BusClosedFirst
<1>3. OneWindow' BY DEF OneWindow
<1>4. ~busClosed => armed # {} \/ callbacks > 0
  BY DEF OneWindow, BusClosedFirst, DebounceTypeOK
<1>5. NoChangeLost' BY <1>4 DEF NoChangeLost, DebounceTypeOK
<1> QED BY <1>1, <1>2, <1>3, <1>5

\* A leading call publishes everything committed and opens the only window.
LEMMA LeadingKeeps ==
  ASSUME DebounceInv, NEW w \in Writes, NEW t \in Timers, AnnounceLeading(w, t)
  PROVE  DebounceInv'
<1> USE DebounceAssumption DEF DebounceInv, AnnounceLeading, PublishChange
<1>1. DebounceTypeOK' BY DEF DebounceTypeOK, Committed
<1>2. BusClosedFirst' BY DEF BusClosedFirst
<1>3. OneWindow' BY DEF OneWindow, DebounceTypeOK
<1>4. ASSUME NEW v \in Writes, phase'[v] = "announced", ~busClosed'
      PROVE  v \in announced'
  BY <1>4 DEF DebounceTypeOK, Committed
<1>5. NoChangeLost' BY <1>4 DEF NoChangeLost
<1> QED BY <1>1, <1>2, <1>3, <1>5

\* The timer that runs out hands its window over to the callback.
LEMMA FireKeeps ==
  ASSUME DebounceInv, NEW t \in Timers, Fire(t)
  PROVE  DebounceInv'
<1> USE DebounceAssumption DEF DebounceInv, Fire
<1>1. DebounceTypeOK' BY DEF DebounceTypeOK
<1>2. BusClosedFirst' BY DEF BusClosedFirst
<1>3. OneWindow' BY DEF OneWindow, DebounceTypeOK
<1>4. callbacks' > 0 BY DEF DebounceTypeOK
<1>5. NoChangeLost' BY <1>4 DEF NoChangeLost
<1> QED BY <1>1, <1>2, <1>3, <1>5

\* The trailing event covers every call that was collapsed into it.
LEMMA TrailingKeeps ==
  ASSUME DebounceInv, Trailing
  PROVE  DebounceInv'
<1> USE DebounceAssumption DEF DebounceInv, Trailing, PublishChange
<1>0. callbacks' \in Nat BY DEF DebounceTypeOK
<1>a. armed' \subseteq Timers BY DEF DebounceTypeOK
<1>b. announced' \subseteq Writes BY DEF DebounceTypeOK, Committed
<1>c. crashed' \in BOOLEAN BY Zenon DEF DebounceTypeOK
<1>1. DebounceTypeOK' BY <1>0, <1>a, <1>b, <1>c DEF DebounceTypeOK
<1>2. BusClosedFirst' BY DEF BusClosedFirst
<1>3. OneWindow' BY DEF OneWindow, DebounceTypeOK
<1>4. ASSUME NEW v \in Writes, phase'[v] = "announced", ~busClosed'
      PROVE  v \in announced'
  BY <1>4 DEF DebounceTypeOK, Committed
<1>5. NoChangeLost' BY <1>4 DEF NoChangeLost
<1> QED BY <1>1, <1>2, <1>3, <1>5

\* The window closes only when no call was collapsed into it.
LEMMA QuietKeeps ==
  ASSUME DebounceInv, Quiet
  PROVE  DebounceInv'
<1> USE DebounceAssumption DEF DebounceInv, Quiet
<1>1. DebounceTypeOK' BY DEF DebounceTypeOK
<1>2. BusClosedFirst' BY DEF BusClosedFirst
<1>3. OneWindow' BY DEF OneWindow, DebounceTypeOK
<1>4. NoChangeLost' BY DEF NoChangeLost
<1> QED BY <1>1, <1>2, <1>3, <1>4

\* Close, its two critical sections.
LEMMA CloseKeeps ==
  ASSUME DebounceInv, CloseBus \/ CloseTimer
  PROVE  DebounceInv'
<1> USE DebounceAssumption DEF DebounceInv, CloseBus, CloseTimer
<1>1. DebounceTypeOK' BY DEF DebounceTypeOK
<1>2. BusClosedFirst' BY DEF BusClosedFirst, DebounceTypeOK
<1>3. OneWindow' BY DEF OneWindow
<1>4. busClosed' BY DEF BusClosedFirst
<1>5. NoChangeLost' BY <1>4 DEF NoChangeLost
<1> QED BY <1>1, <1>2, <1>3, <1>5

\* Every step of the announcer, the timers and Close keeps the invariant.
LEMMA DebounceNextKeeps == DebounceInv /\ [DebounceNext]_debounceVars => DebounceInv'
<1> SUFFICES ASSUME DebounceInv, [DebounceNext]_debounceVars PROVE DebounceInv'
  OBVIOUS
<1>1. CASE UNCHANGED debounceVars
  BY <1>1 DEF debounceVars, DebounceInv, DebounceTypeOK, BusClosedFirst, OneWindow, NoChangeLost
<1>2. CASE DebounceNext
  <2>1. ASSUME NEW w \in Writes, Write(w) PROVE DebounceInv'
    BY <2>1, WriteKeeps
  <2>2. ASSUME NEW w \in Writes, Announce(w) PROVE DebounceInv'
    BY <2>2, CollapsedKeeps, LeadingKeeps DEF Announce
  <2>3. ASSUME NEW t \in Timers, Fire(t) PROVE DebounceInv'
    BY <2>3, FireKeeps
  <2>4. CASE OnChangeWindowClosed
    BY <2>4, TrailingKeeps, QuietKeeps DEF OnChangeWindowClosed
  <2>5. CASE CloseBus \/ CloseTimer
    BY <2>5, CloseKeeps
  <2> QED BY <1>2, <2>1, <2>2, <2>3, <2>4, <2>5 DEF DebounceNext
<1> QED BY <1>1, <1>2

\* The inductive invariant of the debounce.
THEOREM DebounceInductive == DebounceSpec => []DebounceInv
BY DebounceAtFirst, DebounceNextKeeps, PTL DEF DebounceSpec

\* While the bus is open, an announced write is published or still owed an
\* event by a window that will close (announceChange, onChangeWindowClosed).
THEOREM ChangesAreNotLost == DebounceSpec => []NoChangeLost
<1>1. DebounceInv => NoChangeLost BY DEF DebounceInv
<1> QED BY <1>1, DebounceInductive, PTL

\* The callback of engine.go:246 finds its timer gone only once Close has dropped it.
THEOREM ClosingAloneLosesTheTimer == DebounceSpec => []OnlyCloseLosesTheTimer
<1>1. DebounceInit => OnlyCloseLosesTheTimer
  BY DEF DebounceInit, OnlyCloseLosesTheTimer
<1>2. DebounceInv /\ OnlyCloseLosesTheTimer /\ [DebounceNext]_debounceVars => OnlyCloseLosesTheTimer'
  <2> SUFFICES ASSUME DebounceInv, OnlyCloseLosesTheTimer, [DebounceNext]_debounceVars
               PROVE  OnlyCloseLosesTheTimer'
    OBVIOUS
  <2>1. CASE UNCHANGED debounceVars
    BY <2>1 DEF debounceVars, OnlyCloseLosesTheTimer
  <2>2. CASE Trailing
    <3>1. closing # "closed" => changeTimer # NoTimer
      BY <2>2 DEF Trailing, DebounceInv, OneWindow, DebounceTypeOK
    <3> QED BY <2>2, <3>1 DEF Trailing, OnlyCloseLosesTheTimer
  <2>3. CASE \E w \in Writes : Write(w) \/ Announce(w)
    BY <2>3 DEF Write, Announce, AnnounceCollapsed, AnnounceLeading, OnlyCloseLosesTheTimer
  <2>4. CASE (\E t \in Timers : Fire(t)) \/ Quiet \/ CloseBus \/ CloseTimer
    BY <2>4 DEF Fire, Quiet, CloseBus, CloseTimer, OnlyCloseLosesTheTimer
  <2> QED BY <2>1, <2>2, <2>3, <2>4 DEF DebounceNext, OnChangeWindowClosed
<1> QED BY <1>1, <1>2, DebounceInductive, PTL DEF DebounceSpec

\* Until Close there is one window at most, and e.changeTimer tells of it.
THEOREM OneWindowAtMost == DebounceSpec => []OneWindow
<1>1. DebounceInv => OneWindow BY DEF DebounceInv
<1> QED BY <1>1, DebounceInductive, PTL

\* Every variable of the debounce keeps its type.
THEOREM DebounceTypes == DebounceSpec => []DebounceTypeOK
<1>1. DebounceInv => DebounceTypeOK BY DEF DebounceInv
<1> QED BY <1>1, DebounceInductive, PTL

\* Clients hear of new writes only when no timer runs: the rate limit of
\* announceChange holds for every interleaving, those with Close included.
THEOREM EventsAreSpaced == DebounceSpec => NoEventInsideWindow
<1> DEFINE Spaced == announced' # announced => armed = {}
<1>1. DebounceInv /\ [DebounceNext]_debounceVars => [Spaced]_debounceVars
  <2> SUFFICES ASSUME DebounceInv, DebounceNext, announced' # announced PROVE armed = {}
    BY DEF debounceVars
  <2>1. ASSUME NEW w \in Writes, Announce(w) PROVE armed = {}
    BY <2>1 DEF Announce, AnnounceCollapsed, AnnounceLeading, PublishChange,
                DebounceInv, OneWindow, BusClosedFirst
  <2>2. CASE OnChangeWindowClosed
    BY <2>2 DEF OnChangeWindowClosed, Trailing, Quiet, PublishChange,
                DebounceInv, DebounceTypeOK, OneWindow, BusClosedFirst
  <2> QED BY <2>1, <2>2 DEF DebounceNext, Write, Fire, CloseBus, CloseTimer
<1> QED BY <1>1, DebounceInductive, PTL DEF DebounceSpec, NoEventInsideWindow

-----------------------------------------------------------------------------
(***************************************************************************)
(* Safety of ListingCache for any number of writes, readers, crawls and    *)
(* keys.  The store only grows, so what a reader has read stays true of    *)
(* it (Reads); the suspension counter is the number of running crawls      *)
(* (Counted), so a reader that begins while one runs is sent to the store  *)
(* (Shelter); and an entry can miss a write only in the three ways         *)
(* StaleForAReason names, because every other write still has to flush.    *)
(***************************************************************************)
Counted == suspend = Cardinality(Running)

Reads ==
  \A r \in Readers :
    /\ step[r] = "counting" => rows[r] \subseteq Stored
    /\ step[r] = "filling" => rows[r] \subseteq total[r]

Shelter ==
  \A r \in sheltered :
    /\ step[r] \in {"bypass", "answered", "failed"}
    /\ step[r] = "bypass" => promised[r] \subseteq Stored
    /\ step[r] = "answered" => promised[r] \subseteq rows[r]

CacheInv == CacheTypeOK /\ Counted /\ Reads /\ Shelter /\ StaleForAReason /\ TotalCoversRows

\* Running is a finite set, and empty when the counter says so.
LEMMA RunningFinite ==
  /\ IsFiniteSet(Running)
  /\ Cardinality(Running) \in 0 .. Cardinality(Crawls)
  /\ Running # {} => Cardinality(Running) > 0
<1>1. IsFiniteSet(Running) /\ Cardinality(Running) <= Cardinality(Crawls)
  BY CacheAssumption, FS_Subset DEF Running
<1>2. Cardinality(Running) \in Nat /\ Cardinality(Crawls) \in Nat
  BY <1>1, CacheAssumption, FS_CardinalityType
<1>3. Running # {} => Cardinality(Running) # 0
  BY <1>1, FS_EmptySet
<1> QED BY <1>1, <1>2, <1>3

\* The daemon starts with an empty, unsuspended cache (NewCache).
LEMMA CacheAtFirst == CacheInit => CacheInv
<1> SUFFICES ASSUME CacheInit PROVE CacheInv
  OBVIOUS
<1>1. Running = {} BY DEF CacheInit, Running
<1>2. Counted BY <1>1, FS_EmptySet DEF Counted, CacheInit
<1>3. suspend \in 0 .. Cardinality(Crawls)
  BY RunningFinite, <1>2 DEF Counted
<1>4. CacheTypeOK BY <1>3 DEF CacheInit, CacheTypeOK
<1>5. Reads /\ Shelter BY DEF CacheInit, Reads, Shelter
<1>6. StaleForAReason /\ TotalCoversRows
  BY DEF CacheInit, StaleForAReason, TotalCoversRows
<1> QED BY <1>2, <1>4, <1>5, <1>6 DEF CacheInv

\* A write that commits owes its flush, unless its method has none.
LEMMA CommitKeeps ==
  ASSUME CacheInv, NEW w \in Edits, Commit(w) \/ CommitFails(w)
  PROVE  CacheInv'
<1> USE DEF CacheInv, Commit, CommitFails, readVars
<1>1. CacheTypeOK' BY DEF CacheTypeOK
<1>2. Stored \subseteq Stored' BY DEF Stored, CacheTypeOK
<1>3. Counted' BY DEF Counted, Running
<1>4. Reads' BY <1>2 DEF Reads
<1>5. Shelter' BY <1>2 DEF Shelter
<1>6. ASSUME NEW v \in Edits, v \in Stored' \ Stored
      PROVE  write'[v] = "committed" \/ v \in Forgetful
  BY <1>6 DEF Stored, CacheTypeOK
<1>7. ASSUME NEW v \in Edits, v \in Stored PROVE write'[v] = write[v]
  BY <1>7 DEF Stored, CacheTypeOK
<1>8. Stored' \subseteq Edits BY DEF Stored
<1>9. StaleForAReason' BY <1>6, <1>7, <1>8 DEF StaleForAReason
<1>10. TotalCoversRows' BY DEF TotalCoversRows
<1> QED BY <1>1, <1>3, <1>4, <1>5, <1>9, <1>10

\* A flush leaves no listing that could be stale.
LEMMA FlushKeeps ==
  ASSUME CacheInv, NEW w \in Edits, Flush(w)
  PROVE  CacheInv'
<1> USE DEF CacheInv, Flush, Flushed, readVars
<1>1. CacheTypeOK' BY DEF CacheTypeOK
<1>2. Stored' = Stored BY DEF Stored, CacheTypeOK
<1>3. Counted' BY DEF Counted, Running
<1>4. Reads' BY <1>2 DEF Reads
<1>5. Shelter' BY <1>2 DEF Shelter
<1>6. StaleForAReason' /\ TotalCoversRows'
  BY DEF StaleForAReason, TotalCoversRows
<1> QED BY <1>1, <1>3, <1>4, <1>5, <1>6

\* SuspendCaching adds the crawl to the count.
LEMMA SuspendKeeps ==
  ASSUME CacheInv, NEW c \in Crawls, SuspendCaching(c)
  PROVE  CacheInv'
<1> USE DEF CacheInv, SuspendCaching, readVars
<1>1. Running' = Running \union {c} /\ c \notin Running
  BY DEF Running, CacheTypeOK
<1>2. Cardinality(Running') = Cardinality(Running) + 1
  BY <1>1, RunningFinite, FS_AddElement
<1>3. Counted' BY <1>2 DEF Counted
<1>4. IsFiniteSet(Running') /\ Running' \subseteq Crawls
  BY <1>1, RunningFinite, FS_AddElement DEF Running
<1>5. Cardinality(Running') <= Cardinality(Crawls)
  BY <1>4, CacheAssumption, FS_Subset
<1>6. suspend' \in 0 .. Cardinality(Crawls)
  BY <1>3, <1>4, <1>5, CacheAssumption, FS_CardinalityType DEF Counted
<1>7. CacheTypeOK' BY <1>6 DEF CacheTypeOK
<1>8. Stored' = Stored BY DEF Stored
<1>9. Reads' /\ Shelter' BY <1>8 DEF Reads, Shelter
<1>10. StaleForAReason' /\ TotalCoversRows'
  BY <1>8 DEF StaleForAReason, TotalCoversRows
<1> QED BY <1>3, <1>7, <1>9, <1>10

\* ResumeCaching takes it off again.
LEMMA ReleaseKeeps ==
  ASSUME CacheInv, NEW c \in Crawls, Release(c)
  PROVE  CacheInv'
<1> USE DEF CacheInv, Release, readVars
<1>1. Running' = Running \ {c} /\ c \in Running
  BY DEF Running, CacheTypeOK
<1>2. Cardinality(Running') = Cardinality(Running) - 1
  BY <1>1, RunningFinite, FS_RemoveElement
<1>3. Counted' BY <1>2 DEF Counted
<1>4. suspend' \in 0 .. Cardinality(Crawls)
  BY RunningFinite, <1>1, CacheAssumption, FS_CardinalityType DEF Counted
<1>5. CacheTypeOK' BY <1>4 DEF CacheTypeOK
<1>6. Stored' = Stored BY DEF Stored
<1>7. Reads' /\ Shelter' BY <1>6 DEF Reads, Shelter
<1>8. StaleForAReason' /\ TotalCoversRows'
  BY <1>6 DEF StaleForAReason, TotalCoversRows
<1> QED BY <1>3, <1>5, <1>7, <1>8

\* The flush of the last holder.
LEMMA ResumeKeeps ==
  ASSUME CacheInv, NEW c \in Crawls, ResumeFlush(c)
  PROVE  CacheInv'
<1> USE DEF CacheInv, ResumeFlush, Flushed, readVars
<1>1. CacheTypeOK' BY DEF CacheTypeOK, Returned
<1>2. Running' = Running BY DEF Running, CacheTypeOK
<1>3. Counted' BY <1>2 DEF Counted
<1>4. Stored' = Stored BY DEF Stored
<1>5. Reads' /\ Shelter' BY <1>4 DEF Reads, Shelter
<1>6. StaleForAReason' /\ TotalCoversRows'
  BY DEF StaleForAReason, TotalCoversRows
<1> QED BY <1>1, <1>3, <1>5, <1>6

\* A reader that begins while a crawl runs finds the counter above zero.
LEMMA BeginKeeps ==
  ASSUME CacheInv, NEW r \in Readers, Begin(r)
  PROVE  CacheInv'
<1> USE DEF CacheInv, Begin, storeVars
<1>1. CacheTypeOK' BY DEF CacheTypeOK, Stored
<1>2. Stored' = Stored /\ Running' = Running BY DEF Stored, Running
<1>3. Counted' BY <1>2 DEF Counted
<1>4. Reads' BY <1>2 DEF Reads, CacheTypeOK
<1>5. Running # {} => suspend > 0 BY RunningFinite DEF Counted
<1>6. r \notin sheltered BY DEF Shelter
<1>7. Shelter' BY <1>2, <1>5, <1>6 DEF Shelter, CacheTypeOK
<1>8. StaleForAReason' /\ TotalCoversRows'
  BY <1>2 DEF StaleForAReason, TotalCoversRows
<1> QED BY <1>1, <1>3, <1>4, <1>7, <1>8

\* Answers, misses and the two reads of the store: the cache is not touched.
LEMMA ReadKeeps ==
  ASSUME CacheInv, NEW r \in Readers,
         \/ ReadThrough(r) \/ HitList(r) \/ HitCount(r)
         \/ MissList(r) \/ MissCount(r)
         \/ ReadRows(r) \/ ReadTotal(r) \/ ReadFails(r)
  PROVE  CacheInv'
<1> USE DEF CacheInv, ReadThrough, HitList, HitCount, MissList, MissCount, ReadRows,
            ReadTotal, ReadFails, Answer, storeVars
<1>1. Stored \subseteq Edits BY DEF Stored
<1>2. lists[query[r]] # NoEntry =>
        /\ lists[query[r]].rows \subseteq Edits
        /\ lists[query[r]].total \subseteq Edits
  BY DEF CacheTypeOK, Entry
<1>3. /\ write' = write /\ lists' = lists /\ suspend' = suspend /\ crawl' = crawl
      /\ query' = query /\ promised' = promised
      /\ sheltered' = sheltered
  OBVIOUS
<1>4. step' \in [Readers -> {"new", "bypass", "lookup", "listing", "counting",
                             "filling", "answered", "failed"}]
  BY DEF CacheTypeOK
<1>5. rows' \in [Readers -> SUBSET Edits]
  BY <1>1, <1>2 DEF CacheTypeOK
<1>6. total' \in [Readers -> SUBSET Edits]
  BY <1>1 DEF CacheTypeOK
<1>7. CacheTypeOK' BY <1>3, <1>4, <1>5, <1>6 DEF CacheTypeOK
<1>8. Stored' = Stored /\ Running' = Running BY <1>3 DEF Stored, Running
<1>9. Counted' BY <1>3, <1>8 DEF Counted
<1>10. ASSUME NEW s \in Readers
       PROVE  /\ step'[s] = "counting" => rows'[s] \subseteq Stored
              /\ step'[s] = "filling" => rows'[s] \subseteq total'[s]
  BY DEF Reads, CacheTypeOK
<1>11. Reads' BY <1>8, <1>10 DEF Reads
<1>12. ASSUME NEW s \in sheltered
       PROVE  /\ step'[s] \in {"bypass", "answered", "failed"}
              /\ step'[s] = "bypass" => promised[s] \subseteq Stored
              /\ step'[s] = "answered" => promised[s] \subseteq rows'[s]
  BY DEF Shelter, CacheTypeOK
<1>13. Shelter' BY <1>3, <1>8, <1>12 DEF Shelter
<1>14. StaleForAReason' /\ TotalCoversRows'
  BY <1>3, <1>8 DEF StaleForAReason, TotalCoversRows
<1> QED BY <1>7, <1>9, <1>11, <1>13, <1>14

\* A fill may be stale, and then it says by which writes.
LEMMA FillKeeps ==
  ASSUME CacheInv, NEW r \in Readers, Fill(r)
  PROVE  CacheInv'
<1> DEFINE e == [rows |-> rows[r], total |-> total[r], late |-> Returned \ rows[r]]
<1> USE DEF CacheInv, Fill
<1>1. e \in Entry BY DEF Entry, CacheTypeOK, Returned
<1>2. query[r] \in Queries BY DEF CacheTypeOK
<1>3. lists' = [lists EXCEPT ![query[r]] = e] OBVIOUS
<1>4. ASSUME NEW q \in Queries
      PROVE  lists'[q] = IF q = query[r] THEN e ELSE lists[q]
  BY <1>3 DEF CacheTypeOK
<1>5. e.rows = rows[r] /\ e.total = total[r] /\ e.late = Returned \ rows[r]
  OBVIOUS
<1> HIDE DEF e
<1>6. lists' \in [Queries -> Entry \union {NoEntry}]
  BY <1>1, <1>2, <1>3 DEF CacheTypeOK
<1>7. CacheTypeOK' BY <1>6 DEF CacheTypeOK
<1>8. Stored' = Stored /\ Running' = Running BY DEF Stored, Running
<1>9. Counted' BY <1>8 DEF Counted
<1>10. Reads' BY <1>8 DEF Reads, CacheTypeOK
<1>11. r \notin sheltered BY DEF Shelter
<1>12. Shelter' BY <1>8, <1>11 DEF Shelter, CacheTypeOK
<1>13. \A w \in Stored \ e.rows : write[w] = "committed" \/ w \in e.late
  BY <1>5 DEF Stored, Returned
<1>14. StaleForAReason' BY <1>4, <1>8, <1>13 DEF StaleForAReason
<1>15. e.rows \subseteq e.total BY <1>5 DEF Reads
<1>16. TotalCoversRows' BY <1>4, <1>15 DEF TotalCoversRows
<1> QED BY <1>7, <1>9, <1>10, <1>12, <1>14, <1>16

\* Every step of the writers, the crawls and the readers keeps the invariant.
LEMMA CacheNextKeeps == CacheInv /\ [CacheNext]_cacheVars => CacheInv'
<1> SUFFICES ASSUME CacheInv, [CacheNext]_cacheVars PROVE CacheInv'
  OBVIOUS
<1>1. CASE UNCHANGED cacheVars
  BY <1>1 DEF cacheVars, storeVars, readVars, CacheInv, CacheTypeOK, Counted, Reads, Shelter,
              StaleForAReason, TotalCoversRows, Stored, Running
<1>2. ASSUME NEW w \in Edits, Modify(w) PROVE CacheInv'
  BY <1>2, CommitKeeps, FlushKeeps DEF Modify
<1>3. ASSUME NEW c \in Crawls, Crawl(c) PROVE CacheInv'
  BY <1>3, SuspendKeeps, ReleaseKeeps, ResumeKeeps DEF Crawl
<1>4. ASSUME NEW r \in Readers, ListOrCount(r) PROVE CacheInv'
  BY <1>4, BeginKeeps, ReadKeeps, FillKeeps DEF ListOrCount
<1> QED BY <1>1, <1>2, <1>3, <1>4 DEF CacheNext

\* The inductive invariant of the listing cache.
THEOREM CacheInductive == CacheSpec => []CacheInv
BY CacheAtFirst, CacheNextKeeps, PTL DEF CacheSpec

\* Every variable of the cache keeps its type; the suspension counter is never
\* negative and never above the number of crawls.
THEOREM CacheTypes == CacheSpec => []CacheTypeOK
<1>1. CacheInv => CacheTypeOK BY DEF CacheInv
<1> QED BY <1>1, CacheInductive, PTL

\* A cached listing misses a stored write only for one of three reasons:
\* the flush is due, the method has none, or the write overtook the fill.
THEOREM StaleEntriesAreExplained == CacheSpec => []StaleForAReason
<1>1. CacheInv => StaleForAReason BY DEF CacheInv
<1> QED BY <1>1, CacheInductive, PTL

\* A cached total is never older than the rows beside it (ListPatents).
THEOREM TotalsCoverRows == CacheSpec => []TotalCoversRows
<1>1. CacheInv => TotalCoversRows BY DEF CacheInv
<1> QED BY <1>1, CacheInductive, PTL

\* A listing begun while any crawl runs reflects all that was stored then,
\* however SuspendCaching and ResumeCaching nest.
THEOREM SuspendedListingsAreFresh == CacheSpec => []CrawlTimeReadsAreFresh
<1>1. CacheInv => CrawlTimeReadsAreFresh BY DEF CacheInv, Shelter, CrawlTimeReadsAreFresh
<1> QED BY <1>1, CacheInductive, PTL

-----------------------------------------------------------------------------
(***************************************************************************)
(* Bus, for any number of Publish calls, subscribers and any buffer.  A    *)
(* Publish holds each copied channel in exactly one place: still to be     *)
(* served (todo), found full (at), or dealt with.  From that follow both   *)
(* that nobody is passed over and that nobody is served twice.             *)
(***************************************************************************)
InStream(e, s) == \E i \in 1..Len(Stream(s)) : Stream(s)[i] = e

Served(e, s) == IsClosed(s) \/ e \in discarded[s] \/ InStream(e, s)

\* A Publish outside its loop holds no channel, one about to retry holds the full
\* one, and a channel found full is no longer among those to be served.
HeldOnce ==
  \A e \in Events :
    /\ progress[e] \in {"new", "done"} => todo[e] = {} /\ at[e] = NoSub
    /\ progress[e] = "new" => snapshot[e] = {}
    /\ progress[e] = "retry" => at[e] # NoSub
    /\ at[e] \notin todo[e]

\* Every copied channel is still held, or the event has been dealt with there.
HeldOrServed ==
  \A e \in Events : \A s \in snapshot[e] : s \in todo[e] \/ s = at[e] \/ Served(e, s)

\* An event in a stream was put there by a Publish that no longer holds the channel.
SentIsNotHeld ==
  \A s \in Subscribers, e \in Events :
    InStream(e, s) => progress[e] # "new" /\ s \notin todo[e] /\ at[e] # s

\* Only calls that have returned precede another.
PriorReturned == \A e \in Events : prior[e] \subseteq ReturnedCalls

\* The count of closes tells where a channel is: never subscribed, in b.subs, or closed.
ClosesExact ==
  /\ \A s \in Subscribers : closes[s] = IF s \in opened \ subs THEN 1 ELSE 0
  /\ busDown => subs = {}

BusInv == BusTypeOK /\ HeldOnce /\ HeldOrServed /\ SentIsNotHeld /\ PriorReturned /\ StreamInOrder /\ ClosesExact

-----------------------------------------------------------------------------
(* Sequences. *)

\* Sending appends to the stream.
LEMMA ConcatAppend ==
  ASSUME NEW S, NEW a \in Seq(S), NEW b \in Seq(S), NEW e \in S
  PROVE  a \o Append(b, e) = Append(a \o b, e)
<1> DEFINE l == a \o Append(b, e)
           r == Append(a \o b, e)
<1>0. Append(b, e) \in Seq(S) /\ a \o b \in Seq(S)
  BY AppendProperties, ConcatProperties
<1>1. l \in Seq(S) /\ r \in Seq(S)
  BY <1>0, AppendProperties, ConcatProperties
<1>2. Len(l) = Len(a) + Len(b) + 1 /\ Len(r) = Len(a) + Len(b) + 1
  BY <1>0, AppendProperties, ConcatProperties, LenProperties
<1>3. ASSUME NEW i \in 1..Len(l) PROVE l[i] = r[i]
  <2>1. CASE i <= Len(a) + Len(b)
    BY <1>0, <1>2, <2>1, AppendProperties, ConcatProperties, LenProperties
  <2>2. CASE i = Len(a) + Len(b) + 1
    BY <1>0, <1>2, <2>2, AppendProperties, ConcatProperties, LenProperties
  <2> QED BY <1>2, <2>1, <2>2, LenProperties
<1> HIDE DEF l, r
<1>4. l = r BY <1>1, <1>2, <1>3, SeqEqual
<1> QED BY <1>4 DEF l, r

\* Receiving moves an event within the stream.
LEMMA ConcatMove ==
  ASSUME NEW S, NEW a \in Seq(S), NEW b \in Seq(S), b # <<>>
  PROVE  Append(a, Head(b)) \o Tail(b) = a \o b
<1> DEFINE l == Append(a, Head(b)) \o Tail(b)
           r == a \o b
<1>0. Append(a, Head(b)) \in Seq(S) /\ Tail(b) \in Seq(S)
  BY AppendProperties, HeadTailProperties
<1>1. l \in Seq(S) /\ r \in Seq(S)
  BY <1>0, ConcatProperties
<1>2. Len(l) = Len(a) + Len(b) /\ Len(r) = Len(a) + Len(b)
  BY <1>0, AppendProperties, ConcatProperties, HeadTailProperties, LenProperties
<1>3. ASSUME NEW i \in 1..Len(l) PROVE l[i] = r[i]
  <2>1. CASE i <= Len(a)
    BY <1>0, <1>2, <2>1, AppendProperties, ConcatProperties, HeadTailProperties, LenProperties
  <2>2. CASE i = Len(a) + 1
    BY <1>0, <1>2, <2>2, AppendProperties, ConcatProperties, HeadTailProperties, LenProperties
  <2>3. CASE i > Len(a) + 1
    BY <1>0, <1>2, <2>3, AppendProperties, ConcatProperties, HeadTailProperties, LenProperties
  <2> QED BY <1>2, <2>1, <2>2, <2>3, LenProperties
<1> HIDE DEF l, r
<1>4. l = r BY <1>1, <1>2, <1>3, SeqEqual
<1> QED BY <1>4 DEF l, r

\* Discarding leaves the rest of the stream where it was, one place earlier.
LEMMA ConcatTail ==
  ASSUME NEW S, NEW a \in Seq(S), NEW b \in Seq(S), b # <<>>
  PROVE  /\ a \o Tail(b) \in Seq(S)
         /\ Len(a \o b) = Len(a \o Tail(b)) + 1
         /\ Len(a) \in 0..Len(a \o Tail(b))
         /\ (a \o b)[Len(a) + 1] = Head(b)
         /\ \A i \in 1..Len(a \o Tail(b)) :
              (a \o Tail(b))[i] = (a \o b)[IF i <= Len(a) THEN i ELSE i + 1]
<1>0. Tail(b) \in Seq(S) /\ Len(Tail(b)) = Len(b) - 1 /\ Len(b) > 0
  BY HeadTailProperties, LenProperties, EmptySeq
<1> QED BY <1>0, ConcatProperties, HeadTailProperties, LenProperties

-----------------------------------------------------------------------------
(* What the steps do to a stream. *)

LEMMA StreamType == BusTypeOK => \A s \in Subscribers : Stream(s) \in Seq(Events)
BY ConcatProperties DEF BusTypeOK, Stream

\* Of two streams that agree, the same is in them.
LEMMA SameStream ==
  ASSUME NEW s \in Subscribers, Stream(s)' = Stream(s)
  PROVE  \A e \in Events : InStream(e, s)' <=> InStream(e, s)
BY DEF InStream

\* An event sent is what the stream gains.
LEMMA Gains ==
  ASSUME BusTypeOK, NEW s \in Subscribers, NEW e \in Events, got' = got, chan'[s] = Append(chan[s], e)
  PROVE  /\ Stream(s)' = Append(Stream(s), e)
         /\ \A f \in Events : InStream(f, s)' <=> InStream(f, s) \/ f = e
<1>1. Stream(s)' = Append(Stream(s), e)
  BY ConcatAppend DEF BusTypeOK, Stream
<1>2. ASSUME NEW f \in Events PROVE InStream(f, s)' <=> InStream(f, s) \/ f = e
  BY <1>1, StreamType, AppendProperties, LenProperties DEF InStream
<1> QED BY <1>1, <1>2

\* The oldest event of the buffer is what a stream loses.
LEMMA Loses ==
  ASSUME BusTypeOK, NEW s \in Subscribers, got' = got, chan[s] # <<>>, chan'[s] = Tail(chan[s])
  PROVE  \A f \in Events : /\ InStream(f, s)' => InStream(f, s)
                           /\ InStream(f, s) => InStream(f, s)' \/ f = Head(chan[s])
<1> DEFINE old == got[s] \o chan[s]
           new == got[s] \o Tail(chan[s])
           n == Len(got[s])
<1>1. /\ new \in Seq(Events) /\ old \in Seq(Events) /\ Len(old) = Len(new) + 1 /\ n \in 0..Len(new)
      /\ old[n + 1] = Head(chan[s])
      /\ \A i \in 1..Len(new) : new[i] = old[IF i <= n THEN i ELSE i + 1]
  BY ConcatTail, ConcatProperties DEF BusTypeOK
<1>2. Stream(s) = old /\ Stream(s)' = new
  BY DEF Stream
<1> HIDE DEF old, new, n
<1>3. Len(new) \in Nat BY <1>1, LenProperties
<1> TAKE f \in Events
<1>4. ASSUME NEW i \in 1..Len(new), new[i] = f PROVE InStream(f, s)
  <2>1. (IF i <= n THEN i ELSE i + 1) \in 1..Len(old) BY <1>1, <1>3
  <2> QED BY <1>1, <1>2, <1>4, <2>1 DEF InStream
<1>5. ASSUME NEW i \in 1..Len(old), old[i] = f, f # Head(chan[s]) PROVE InStream(f, s)'
  <2>1. i # n + 1 BY <1>1, <1>5
  <2> DEFINE j == IF i <= n THEN i ELSE i - 1
  <2>2. j \in 1..Len(new) BY <1>1, <1>3, <2>1
  <2>3. new[j] = old[i] BY <1>1, <1>3, <2>1, <2>2
  <2> QED BY <1>2, <1>5, <2>2, <2>3 DEF InStream
<1> QED BY <1>2, <1>4, <1>5 DEF InStream

\* A consumer that receives changes no stream.
LEMMA ReceiveKeepsStream ==
  ASSUME BusTypeOK, NEW s \in Subscribers, Receive(s)
  PROVE  \A t \in Subscribers : Stream(t)' = Stream(t)
<1> TAKE t \in Subscribers
<1>1. CASE t = s
  BY <1>1, ConcatMove DEF Receive, Stream, BusTypeOK
<1>2. CASE t # s
  BY <1>2 DEF Receive, Stream, BusTypeOK
<1> QED BY <1>1, <1>2

-----------------------------------------------------------------------------
(* Order within one stream, for any sequence of events. *)

InOrder(q, pr) ==
  \A i, k \in 1..Len(q) : i < k => q[i] # q[k] /\ q[k] \notin pr[q[i]]

LEMMA OrderOfStreams == StreamInOrder <=> \A s \in Subscribers : InOrder(Stream(s), prior)
BY DEF StreamInOrder, InOrder

LEMMA AppendKeepsOrder ==
  ASSUME NEW q \in Seq(Events), NEW pr, NEW e \in Events, InOrder(q, pr),
         \A i \in 1..Len(q) : q[i] # e /\ e \notin pr[q[i]]
  PROVE  InOrder(Append(q, e), pr)
<1> DEFINE r == Append(q, e)
<1>1. /\ Len(q) \in Nat /\ Len(r) = Len(q) + 1 /\ r[Len(q) + 1] = e
      /\ \A i \in 1..Len(q) : r[i] = q[i]
  BY AppendProperties, LenProperties
<1> HIDE DEF r
<1>2. InOrder(r, pr)
  <2> SUFFICES ASSUME NEW i \in 1..Len(r), NEW k \in 1..Len(r), i < k
               PROVE  r[i] # r[k] /\ r[k] \notin pr[r[i]]
    BY DEF InOrder
  <2>1. i \in 1..Len(q) BY <1>1
  <2>2. CASE k \in 1..Len(q) BY <1>1, <2>1, <2>2 DEF InOrder
  <2>3. CASE k = Len(q) + 1 BY <1>1, <2>1, <2>3
  <2> QED BY <1>1, <2>2, <2>3
<1> QED BY <1>2 DEF r

LEMMA TailKeepsOrder ==
  ASSUME NEW a \in Seq(Events), NEW b \in Seq(Events), NEW pr, b # <<>>, InOrder(a \o b, pr)
  PROVE  InOrder(a \o Tail(b), pr)
<1> DEFINE old == a \o b
           new == a \o Tail(b)
           n == Len(a)
<1>1. /\ new \in Seq(Events) /\ Len(old) = Len(new) + 1 /\ n \in 0..Len(new)
      /\ \A i \in 1..Len(new) : new[i] = old[IF i <= n THEN i ELSE i + 1]
  BY ConcatTail
<1> HIDE DEF old, new, n
<1>2. Len(new) \in Nat BY <1>1, LenProperties
<1>3. InOrder(new, pr)
  <2> SUFFICES ASSUME NEW i \in 1..Len(new), NEW k \in 1..Len(new), i < k
               PROVE  new[i] # new[k] /\ new[k] \notin pr[new[i]]
    BY DEF InOrder
  <2> DEFINE x == IF i <= n THEN i ELSE i + 1
             y == IF k <= n THEN k ELSE k + 1
  <2>1. x \in 1..Len(old) /\ y \in 1..Len(old) /\ x < y BY <1>1, <1>2
  <2>2. new[i] = old[x] /\ new[k] = old[y] BY <1>1
  <2> QED BY <2>1, <2>2 DEF InOrder, old
<1> QED BY <1>3 DEF new

-----------------------------------------------------------------------------
(* The steps. *)

\* Steps that leave the channels alone leave the streams alone.
LEMMA QuietStreams ==
  ASSUME UNCHANGED <<chan, got>>
  PROVE  /\ \A s \in Subscribers : Stream(s)' = Stream(s)
         /\ \A s \in Subscribers, e \in Events : InStream(e, s)' <=> InStream(e, s)
BY DEF Stream, InStream

LEMMA InitEstablishes == BusInit => BusInv
<1> SUFFICES ASSUME BusInit PROVE BusInv
  OBVIOUS
<1> USE DEF BusInit
<1>1. BusTypeOK
  <2>1. <<>> \in Seq(Events) /\ Len(<<>>) = 0 BY EmptySeq
  <2>2. chan \in [Subscribers -> Seq(Events)] /\ got \in [Subscribers -> Seq(Events)] BY <2>1
  <2>3. \A s \in Subscribers : Len(chan[s]) <= SubBuffer BY <2>1, BusAssumption
  <2> QED BY <2>2, <2>3 DEF BusTypeOK
<1>2. \A s \in Subscribers : Stream(s) = <<>>
  BY EmptySeq, ConcatEmptySeq DEF Stream
<1>3. HeldOnce BY BusAssumption DEF HeldOnce
<1>4. HeldOrServed BY DEF HeldOrServed
<1>5. SentIsNotHeld BY <1>2, EmptySeq DEF SentIsNotHeld, InStream
<1>6. PriorReturned BY DEF PriorReturned
<1>7. StreamInOrder BY <1>2, EmptySeq DEF StreamInOrder
<1>8. ClosesExact BY DEF ClosesExact
<1> QED BY <1>1, <1>3, <1>4, <1>5, <1>6, <1>7, <1>8 DEF BusInv

\* Subscribe, unsubscribe and Close touch neither a stream nor a Publish: they only
\* close channels, and a channel once closed stays closed.
LEMMA MembershipKeeps ==
  ASSUME BusInv, Close \/ \E s \in Subscribers : Subscribe(s) \/ Unsubscribe(s)
  PROVE  BusInv'
<1>1. UNCHANGED <<chan, got, released, publishVars>>
  <2>1. CASE Close BY <2>1 DEF Close
  <2>2. ASSUME NEW s \in Subscribers, Subscribe(s) \/ Unsubscribe(s)
        PROVE  UNCHANGED <<chan, got, released, publishVars>>
    BY <2>2 DEF Subscribe, Unsubscribe
  <2> QED BY <2>1, <2>2
<1> USE DEF BusInv
<1>2. BusTypeOK'
  <2> DEFINE Sets == /\ busDown' \in BOOLEAN /\ closes' \in [Subscribers -> Nat]
                     /\ subs' \subseteq opened' /\ opened' \subseteq Subscribers
                     /\ opened \subseteq opened'
  <2>0. /\ busDown \in BOOLEAN /\ closes \in [Subscribers -> Nat]
        /\ subs \subseteq opened /\ opened \subseteq Subscribers
    BY DEF BusTypeOK
  <2> HIDE DEF BusInv
  <2>1. ASSUME Close PROVE Sets BY <2>0, <2>1 DEF Close
  <2>2. ASSUME NEW s \in Subscribers, Subscribe(s) PROVE Sets
    BY <2>0, <2>2 DEF Subscribe
  <2>3. ASSUME NEW s \in Subscribers, Unsubscribe(s) PROVE Sets
    BY <2>0, <2>3 DEF Unsubscribe
  <2>4. Sets
    BY <2>1, <2>2, <2>3
  <2>5. BusTypeOK BY DEF BusInv
  <2>6. UNCHANGED <<chan, got, released, progress, todo, at, snapshot, prior, discarded>>
    BY <1>1 DEF publishVars
  <2> QED BY <2>4, <2>5, <2>6 DEF BusTypeOK
<1>3. ClosesExact'
  <2>1. CASE Close BY <2>1 DEF Close, BusTypeOK, ClosesExact
  <2>2. ASSUME NEW s \in Subscribers, Subscribe(s) PROVE ClosesExact'
    BY <2>2 DEF Subscribe, BusTypeOK, ClosesExact
  <2>3. ASSUME NEW s \in Subscribers, Unsubscribe(s) PROVE ClosesExact'
    BY <2>3 DEF Unsubscribe, BusTypeOK, ClosesExact
  <2> QED BY <2>1, <2>2, <2>3
<1>4. \A r \in Subscribers : closes[r] <= closes'[r]
  <2>1. CASE Close BY <2>1 DEF Close, BusTypeOK
  <2>2. ASSUME NEW s \in Subscribers, Subscribe(s)
        PROVE  \A r \in Subscribers : closes[r] <= closes'[r]
    BY <2>2 DEF Subscribe, BusTypeOK
  <2>3. ASSUME NEW s \in Subscribers, Unsubscribe(s)
        PROVE  \A r \in Subscribers : closes[r] <= closes'[r]
    BY <2>3 DEF Unsubscribe, BusTypeOK
  <2> QED BY <2>1, <2>2, <2>3
<1>5. HeldOnce' BY <1>1 DEF HeldOnce, publishVars
<1>6. \A r \in Subscribers : IsClosed(r) => IsClosed(r)' BY <1>2, <1>4 DEF BusTypeOK, IsClosed
<1>10. HeldOrServed' BY <1>1, <1>6, QuietStreams DEF HeldOrServed, Served, BusTypeOK, publishVars
<1>7. SentIsNotHeld' BY <1>1, QuietStreams DEF SentIsNotHeld, publishVars
<1>8. PriorReturned' BY <1>1 DEF PriorReturned, ReturnedCalls, publishVars
<1>9. StreamInOrder' BY <1>1, QuietStreams DEF StreamInOrder, publishVars
<1> QED BY <1>2, <1>3, <1>5, <1>7, <1>8, <1>9, <1>10

\* A Publish that begins has sent nothing: no stream holds its event.
LEMMA PublishKeeps ==
  ASSUME BusInv, NEW e \in Events, Publish(e)
  PROVE  BusInv'
<1> USE DEF BusInv, Publish
<1>1. BusTypeOK' BY DEF BusTypeOK, ReturnedCalls
<1>2. HeldOnce' BY BusAssumption DEF HeldOnce, BusTypeOK, ClosesExact
<1>3. HeldOrServed' BY QuietStreams DEF HeldOrServed, Served, IsClosed, BusTypeOK
<1>4. \A s \in Subscribers : ~InStream(e, s) BY DEF SentIsNotHeld
<1>5. SentIsNotHeld'
  <2> SUFFICES ASSUME NEW s \in Subscribers, NEW f \in Events, InStream(f, s)'
               PROVE  (progress[f] # "new" /\ s \notin todo[f] /\ at[f] # s)'
    BY DEF SentIsNotHeld
  <2>1. InStream(f, s) /\ f # e BY <1>4, QuietStreams
  <2> QED BY <2>1 DEF SentIsNotHeld, BusTypeOK
<1>6. PriorReturned' BY DEF PriorReturned, ReturnedCalls, BusTypeOK
<1>7. StreamInOrder'
  <2> SUFFICES ASSUME NEW s \in Subscribers, NEW i \in 1..Len(Stream(s)), NEW k \in 1..Len(Stream(s)), i < k
               PROVE  Stream(s)[i] # Stream(s)[k] /\ Stream(s)[k] \notin prior'[Stream(s)[i]]
    BY QuietStreams DEF StreamInOrder
  <2>1. Stream(s)[i] \in Events BY StreamType, ElementOfSeq
  <2>2. Stream(s)[i] # e BY <1>4, <2>1 DEF InStream
  <2>3. prior'[Stream(s)[i]] = prior[Stream(s)[i]] BY <2>1, <2>2 DEF BusTypeOK
  <2> QED BY <2>3 DEF StreamInOrder
<1>8. ClosesExact' BY DEF ClosesExact
<1> QED BY <1>1, <1>2, <1>3, <1>5, <1>6, <1>7, <1>8

\* A send, first or repeated, appends an event whose Publish has just let go of the
\* channel: it is in no place of the stream, and its Publish has not returned.
LEMMA AppendingKeepsStreams ==
  ASSUME BusInv, NEW e \in Events, NEW s \in Subscribers, got' = got, prior' = prior,
         progress[e] \in {"sending", "retry"}, s \in todo[e] \/ at[e] = s,
         chan' = [chan EXCEPT ![s] = Append(@, e)]
  PROVE  /\ StreamInOrder'
         /\ \A t \in Subscribers, f \in Events :
              InStream(f, t)' <=> InStream(f, t) \/ (t = s /\ f = e)
<1> USE DEF BusInv
<1>1. Stream(s)' = Append(Stream(s), e) /\ \A f \in Events : InStream(f, s)' <=> InStream(f, s) \/ f = e
  BY Gains DEF BusTypeOK
<1>2. \A t \in Subscribers \ {s} : Stream(t)' = Stream(t) BY DEF Stream, BusTypeOK
<1>3. \A t \in Subscribers \ {s}, f \in Events : InStream(f, t)' <=> InStream(f, t)
  BY <1>2, SameStream
<1>4. ~InStream(e, s) BY DEF SentIsNotHeld
<1>5. InOrder(Stream(s), prior) BY OrderOfStreams
<1>6. Stream(s) \in Seq(Events) BY StreamType
<1>7. ASSUME NEW i \in 1..Len(Stream(s))
      PROVE  Stream(s)[i] # e /\ e \notin prior[Stream(s)[i]]
  <2>1. Stream(s)[i] \in Events BY <1>6, ElementOfSeq
  <2>2. e \notin ReturnedCalls BY DEF ReturnedCalls
  <2> QED BY <1>4, <2>1, <2>2 DEF InStream, PriorReturned
<1>8. InOrder(Append(Stream(s), e), prior) BY <1>5, <1>6, <1>7, AppendKeepsOrder
<1>9. StreamInOrder'
  <2>1. ASSUME NEW t \in Subscribers PROVE InOrder(Stream(t)', prior)
    BY <1>1, <1>2, <1>8, OrderOfStreams
  <2> QED BY <2>1 DEF StreamInOrder, InOrder
<1> QED BY <1>1, <1>3, <1>9

\* A send into a channel that has room keeps the type of the channels.
LEMMA RoomForOne ==
  ASSUME BusTypeOK, NEW e \in Events, NEW s \in Subscribers, Len(chan[s]) < SubBuffer,
         chan' = [chan EXCEPT ![s] = Append(@, e)]
  PROVE  /\ chan' \in [Subscribers -> Seq(Events)]
         /\ \A t \in Subscribers : Len(chan'[t]) <= SubBuffer
<1>1. chan[s] \in Seq(Events) BY DEF BusTypeOK
<1>2. Append(chan[s], e) \in Seq(Events) /\ Len(Append(chan[s], e)) = Len(chan[s]) + 1
  BY <1>1, AppendProperties
<1>3. Len(chan[s]) + 1 <= SubBuffer BY <1>1, LenProperties, BusAssumption
<1> QED BY <1>2, <1>3 DEF BusTypeOK

\* The first select: sent, found closed, or found full and kept in hand.
LEMMA SendKeeps ==
  ASSUME BusInv, NEW e \in Events, NEW s \in Subscribers, Send(e, s)
  PROVE  BusInv'
<1> USE DEF BusInv
<1>0. /\ progress[e] = "sending" /\ at[e] = NoSub /\ s \in todo[e]
      /\ todo' = [todo EXCEPT ![e] = @ \ {s}]
      /\ UNCHANGED <<busDown, subs, opened, closes, got, released, progress, snapshot, prior, discarded>>
  BY DEF Send
<1>1. \/ IsClosed(s) /\ UNCHANGED <<chan, at>>
      \/ Len(chan[s]) < SubBuffer /\ chan' = [chan EXCEPT ![s] = Append(@, e)] /\ UNCHANGED at
      \/ at' = [at EXCEPT ![e] = s] /\ UNCHANGED chan
  BY DEF Send
<1>2. BusTypeOK'
  <2>1. chan' \in [Subscribers -> Seq(Events)] /\ \A t \in Subscribers : Len(chan'[t]) <= SubBuffer
    BY <1>1, RoomForOne DEF BusTypeOK
  <2>2. at' \in [Events -> Subscribers \union {NoSub}] BY <1>1 DEF BusTypeOK
  <2>3. todo' \in [Events -> SUBSET Subscribers] BY <1>0 DEF BusTypeOK
  <2> QED BY <1>0, <2>1, <2>2, <2>3 DEF BusTypeOK
<1>3. HeldOnce' BY <1>0, <1>1, BusAssumption DEF HeldOnce, BusTypeOK
<1>a. ASSUME chan' = chan
      PROVE  StreamInOrder' /\ \A t \in Subscribers, f \in Events : InStream(f, t)' <=> InStream(f, t)
  BY <1>0, <1>a, QuietStreams DEF StreamInOrder
<1>b. ASSUME chan' = [chan EXCEPT ![s] = Append(@, e)]
      PROVE  /\ StreamInOrder'
             /\ \A t \in Subscribers, f \in Events :
                  InStream(f, t)' <=> InStream(f, t) \/ (t = s /\ f = e)
  BY <1>0, <1>b, AppendingKeepsStreams
<1>c. StreamInOrder' BY <1>1, <1>a, <1>b
<1>d. \A t \in Subscribers, f \in Events : InStream(f, t) => InStream(f, t)'
  BY <1>1, <1>a, <1>b
<1>e. \A t \in Subscribers, f \in Events :
        InStream(f, t)' => InStream(f, t) \/ (t = s /\ f = e /\ at' = at)
  BY <1>1, <1>a, <1>b
<1>f. IsClosed(s) \/ InStream(e, s)' \/ at'[e] = s
  BY <1>1, <1>b DEF BusTypeOK
<1>5. HeldOrServed'
  <2> SUFFICES ASSUME NEW f \in Events, NEW t \in snapshot[f]
               PROVE  (t \in todo[f] \/ t = at[f] \/ Served(f, t))'
    BY <1>0 DEF HeldOrServed
  <2>0. t \in Subscribers BY DEF BusTypeOK
  <2>1. CASE f = e /\ t = s
    BY <1>0, <1>f, <2>0, <2>1 DEF Served, IsClosed
  <2>2. CASE t \in todo[f] /\ ~(f = e /\ t = s)
    BY <1>0, <2>2 DEF BusTypeOK
  <2>3. CASE t = at[f]
    BY <1>0, <1>1, <2>0, <2>3, BusAssumption DEF BusTypeOK
  <2>4. CASE Served(f, t)
    BY <1>0, <1>d, <2>0, <2>4 DEF Served, IsClosed
  <2> QED BY <2>1, <2>2, <2>3, <2>4 DEF HeldOrServed
<1>6. SentIsNotHeld'
  <2> SUFFICES ASSUME NEW t \in Subscribers, NEW f \in Events, InStream(f, t)'
               PROVE  (progress[f] # "new" /\ t \notin todo[f] /\ at[f] # t)'
    BY DEF SentIsNotHeld
  <2>1. CASE t = s /\ f = e /\ at' = at
    BY <1>0, <2>1, BusAssumption DEF BusTypeOK
  <2>2. CASE InStream(f, t)
    BY <1>0, <1>1, <2>2 DEF SentIsNotHeld, BusTypeOK
  <2> QED BY <1>e, <2>1, <2>2
<1>7. PriorReturned' BY <1>0 DEF PriorReturned, ReturnedCalls
<1>8. ClosesExact' BY <1>0 DEF ClosesExact
<1> QED BY <1>2, <1>3, <1>c, <1>5, <1>6, <1>7, <1>8

\* The second select: the oldest event leaves the stream and is on record as given
\* up; what remains keeps its order.
LEMMA DiscardKeeps ==
  ASSUME BusInv, NEW e \in Events, Discard(e)
  PROVE  BusInv'
<1> USE DEF BusInv
<1>s. PICK s \in Subscribers : at[e] = s BY DEF Discard, BusTypeOK
<1>0. /\ progress[e] = "sending"
      /\ progress' = [progress EXCEPT ![e] = "retry"]
      /\ UNCHANGED <<busDown, subs, opened, closes, got, released, todo, at, snapshot, prior>>
  BY DEF Discard
<1>1. \/ chan[s] = <<>> /\ UNCHANGED <<chan, discarded>>
      \/ /\ chan[s] # <<>>
         /\ chan' = [chan EXCEPT ![s] = Tail(@)]
         /\ discarded' = [discarded EXCEPT ![s] = @ \union {Head(chan[s])}]
  BY <1>s DEF Discard
<1>t. chan[s] # <<>> => /\ Tail(chan[s]) \in Seq(Events) /\ Head(chan[s]) \in Events
                        /\ Len(Tail(chan[s])) <= SubBuffer
  BY <1>0, HeadTailProperties, LenProperties, BusAssumption DEF BusTypeOK
<1>2. BusTypeOK'
  <2>c. /\ chan \in [Subscribers -> Seq(Events)]
        /\ \A r \in Subscribers : Len(chan[r]) <= SubBuffer
    BY DEF BusTypeOK
  <2>1. chan' \in [Subscribers -> Seq(Events)] /\ \A r \in Subscribers : Len(chan'[r]) <= SubBuffer
    <3>1. CASE chan' = chan BY <2>c, <3>1
    <3>2. CASE chan[s] # <<>> /\ chan' = [chan EXCEPT ![s] = Tail(@)]
      <4> DEFINE rest == Tail(chan[s])
      <4>1. rest \in Seq(Events) /\ Len(rest) <= SubBuffer BY <1>t, <3>2
      <4>2. chan' = [chan EXCEPT ![s] = rest] BY <3>2
      <4> HIDE DEF rest
      <4> QED BY <2>c, <4>1, <4>2
    <3> QED BY <1>1, <3>1, <3>2
  <2>a. chan[s] # <<>> => discarded[s] \union {Head(chan[s])} \in SUBSET Events BY <1>t DEF BusTypeOK
  <2>2. discarded' \in [Subscribers -> SUBSET Events] BY <1>1, <2>a DEF BusTypeOK
  <2>3. progress' \in [Events -> {"new", "sending", "retry", "done"}] BY <1>0 DEF BusTypeOK
  <2> QED BY <1>0, <2>1, <2>2, <2>3 DEF BusTypeOK
<1>3. HeldOnce' BY <1>0, <1>s, BusAssumption DEF HeldOnce, BusTypeOK
<1>a. ASSUME chan' = chan
      PROVE  StreamInOrder' /\ \A t \in Subscribers, f \in Events : InStream(f, t)' <=> InStream(f, t)
  BY <1>0, <1>a, QuietStreams DEF StreamInOrder
<1>b. ASSUME chan[s] # <<>>, chan' = [chan EXCEPT ![s] = Tail(@)]
      PROVE  /\ StreamInOrder'
             /\ \A t \in Subscribers, f \in Events :
                  /\ InStream(f, t)' => InStream(f, t)
                  /\ InStream(f, t) => InStream(f, t)' \/ (t = s /\ f = Head(chan[s]))
  <2>1. chan'[s] = Tail(chan[s]) /\ \A t \in Subscribers \ {s} : chan'[t] = chan[t]
    BY <1>0, <1>b DEF BusTypeOK
  <2>2. \A t \in Subscribers \ {s} : Stream(t)' = Stream(t) BY <1>0, <2>1 DEF Stream
  <2>3. InOrder(Stream(s)', prior)
    BY <1>0, <1>b, <2>1, OrderOfStreams, TailKeepsOrder DEF Stream, BusTypeOK
  <2>4. ASSUME NEW t \in Subscribers PROVE InOrder(Stream(t)', prior)
    BY <2>2, <2>3, OrderOfStreams
  <2>5. StreamInOrder' BY <1>0, <2>4 DEF StreamInOrder, InOrder
  <2>6. \A f \in Events : /\ InStream(f, s)' => InStream(f, s)
                          /\ InStream(f, s) => InStream(f, s)' \/ f = Head(chan[s])
    BY <1>0, <1>b, <2>1, Loses
  <2>7. \A t \in Subscribers \ {s}, f \in Events : InStream(f, t)' <=> InStream(f, t)
    BY <2>2, SameStream
  <2> QED BY <2>5, <2>6, <2>7
<1>c. StreamInOrder' BY <1>1, <1>a, <1>b
<1>d. \A t \in Subscribers, f \in Events : InStream(f, t)' => InStream(f, t)
  BY <1>1, <1>a, <1>b
<1>e. \A t \in Subscribers, f \in Events : InStream(f, t) => InStream(f, t)' \/ f \in discarded'[t]
  <2>1. CASE UNCHANGED <<chan, discarded>> BY <1>a, <2>1
  <2>2. CASE /\ chan[s] # <<>>
             /\ chan' = [chan EXCEPT ![s] = Tail(@)]
             /\ discarded' = [discarded EXCEPT ![s] = @ \union {Head(chan[s])}]
    <3>1. Head(chan[s]) \in discarded'[s] BY <2>2 DEF BusTypeOK
    <3> QED BY <1>b, <2>2, <3>1
  <2> QED BY <1>1, <2>1, <2>2
<1>f. \A t \in Subscribers : discarded[t] \subseteq discarded'[t]
  <2>1. CASE discarded' = discarded BY <2>1
  <2>2. CASE discarded' = [discarded EXCEPT ![s] = @ \union {Head(chan[s])}]
    <3>1. discarded'[s] = discarded[s] \union {Head(chan[s])} BY <2>2 DEF BusTypeOK
    <3>2. \A t \in Subscribers \ {s} : discarded'[t] = discarded[t] BY <2>2 DEF BusTypeOK
    <3> QED BY <3>1, <3>2
  <2> QED BY <1>1, <2>1, <2>2
<1>5. HeldOrServed'
  <2>1. ASSUME NEW f \in Events, NEW t \in Subscribers, Served(f, t) PROVE Served(f, t)'
    BY <1>0, <1>e, <1>f, <2>1 DEF Served, IsClosed
  <2> QED BY <1>0, <2>1 DEF HeldOrServed, BusTypeOK
<1>6. SentIsNotHeld' BY <1>0, <1>d DEF SentIsNotHeld, BusTypeOK
<1>7. PriorReturned' BY <1>0 DEF PriorReturned, ReturnedCalls, BusTypeOK
<1>8. ClosesExact' BY <1>0 DEF ClosesExact
<1> QED BY <1>2, <1>3, <1>5, <1>6, <1>7, <1>8, <1>c

\* The third select: sent, found closed, or given up for this subscriber.
LEMMA RetryKeeps ==
  ASSUME BusInv, NEW e \in Events, Retry(e)
  PROVE  BusInv'
<1> USE DEF BusInv
<1>s. PICK s \in Subscribers : at[e] = s BY DEF Retry, BusTypeOK, HeldOnce
<1>0. /\ progress[e] = "retry" /\ s \notin todo[e]
      /\ progress' = [progress EXCEPT ![e] = "sending"]
      /\ at' = [at EXCEPT ![e] = NoSub]
      /\ UNCHANGED <<busDown, subs, opened, closes, got, released, todo, snapshot, prior>>
  BY <1>s DEF Retry, HeldOnce
<1>1. \/ IsClosed(s) /\ UNCHANGED <<chan, discarded>>
      \/ /\ Len(chan[s]) < SubBuffer
         /\ chan' = [chan EXCEPT ![s] = Append(@, e)] /\ UNCHANGED discarded
      \/ discarded' = [discarded EXCEPT ![s] = @ \union {e}] /\ UNCHANGED chan
  BY <1>s DEF Retry
<1>2. BusTypeOK'
  <2>1. chan' \in [Subscribers -> Seq(Events)] /\ \A t \in Subscribers : Len(chan'[t]) <= SubBuffer
    BY <1>0, <1>1, RoomForOne DEF BusTypeOK
  <2>2. discarded' \in [Subscribers -> SUBSET Events] BY <1>0, <1>1 DEF BusTypeOK
  <2> QED BY <1>0, <2>1, <2>2 DEF BusTypeOK
<1>3. HeldOnce' BY <1>0, BusAssumption DEF HeldOnce, BusTypeOK
<1>a. ASSUME chan' = chan
      PROVE  StreamInOrder' /\ \A t \in Subscribers, f \in Events : InStream(f, t)' <=> InStream(f, t)
  BY <1>0, <1>a, QuietStreams DEF StreamInOrder
<1>b. ASSUME chan' = [chan EXCEPT ![s] = Append(@, e)]
      PROVE  /\ StreamInOrder'
             /\ \A t \in Subscribers, f \in Events :
                  InStream(f, t)' <=> InStream(f, t) \/ (t = s /\ f = e)
  BY <1>0, <1>b, <1>s, AppendingKeepsStreams
<1>c. StreamInOrder' BY <1>1, <1>a, <1>b
<1>d. \A t \in Subscribers, f \in Events : InStream(f, t) => InStream(f, t)'
  BY <1>1, <1>a, <1>b
<1>e. \A t \in Subscribers, f \in Events : InStream(f, t)' => InStream(f, t) \/ (t = s /\ f = e)
  BY <1>1, <1>a, <1>b
<1>f. IsClosed(s) \/ InStream(e, s)' \/ e \in discarded'[s]
  BY <1>0, <1>1, <1>b DEF BusTypeOK
<1>g. \A t \in Subscribers : discarded[t] \subseteq discarded'[t]
  BY <1>0, <1>1 DEF BusTypeOK
<1>5. HeldOrServed'
  <2>1. ASSUME NEW f \in Events, NEW t \in Subscribers, Served(f, t) PROVE Served(f, t)'
    BY <1>0, <1>d, <1>g, <2>1 DEF Served, IsClosed
  <2>2. Served(e, s)' BY <1>0, <1>f DEF Served, IsClosed
  <2> SUFFICES ASSUME NEW f \in Events, NEW t \in snapshot[f]
               PROVE  (t \in todo[f] \/ t = at[f] \/ Served(f, t))'
    BY <1>0 DEF HeldOrServed
  <2>3. t \in Subscribers BY DEF BusTypeOK
  <2>4. CASE f = e /\ t = s BY <2>2, <2>4
  <2>5. CASE ~(f = e /\ t = s) BY <1>0, <1>s, <2>1, <2>3, <2>5 DEF HeldOrServed, BusTypeOK
  <2> QED BY <2>4, <2>5
<1>6. SentIsNotHeld'
  <2> SUFFICES ASSUME NEW t \in Subscribers, NEW f \in Events, InStream(f, t)'
               PROVE  (progress[f] # "new" /\ t \notin todo[f] /\ at[f] # t)'
    BY DEF SentIsNotHeld
  <2>1. CASE t = s /\ f = e BY <1>0, <2>1, BusAssumption DEF BusTypeOK
  <2>2. CASE InStream(f, t) BY <1>0, <2>2, BusAssumption DEF SentIsNotHeld, BusTypeOK
  <2> QED BY <1>e, <2>1, <2>2
<1>7. PriorReturned' BY <1>0 DEF PriorReturned, ReturnedCalls, BusTypeOK
<1>8. ClosesExact' BY <1>0 DEF ClosesExact
<1> QED BY <1>2, <1>3, <1>5, <1>6, <1>7, <1>8, <1>c

\* Publish returns once it holds no channel.
LEMMA ReturnKeeps ==
  ASSUME BusInv, NEW e \in Events, PublishReturn(e)
  PROVE  BusInv'
<1> USE DEF BusInv, PublishReturn
<1>1. BusTypeOK' BY DEF BusTypeOK
<1>2. HeldOnce' BY DEF HeldOnce, BusTypeOK
<1>3. HeldOrServed' BY QuietStreams DEF HeldOrServed, Served, IsClosed, BusTypeOK
<1>4. SentIsNotHeld' BY QuietStreams DEF SentIsNotHeld, BusTypeOK
<1>5. PriorReturned' BY DEF PriorReturned, ReturnedCalls, BusTypeOK
<1>6. StreamInOrder' BY QuietStreams DEF StreamInOrder
<1>7. ClosesExact' BY DEF ClosesExact
<1> QED BY <1>1, <1>2, <1>3, <1>4, <1>5, <1>6, <1>7

\* A consumer that receives, or finds its channel closed, changes no stream.
LEMMA ConsumeKeeps ==
  ASSUME BusInv, NEW s \in Subscribers, Consume(s)
  PROVE  BusInv'
<1> USE DEF BusInv
<1>0. UNCHANGED <<busDown, subs, opened, closes, publishVars>>
  BY DEF Consume, Receive, ReceiveClosed
<1>1. BusTypeOK'
  <2>1. CASE Receive(s)
    <3>1. chan[s] \in Seq(Events) /\ chan[s] # <<>> /\ got[s] \in Seq(Events)
      BY <2>1 DEF Receive, BusTypeOK
    <3>2. /\ Head(chan[s]) \in Events /\ Tail(chan[s]) \in Seq(Events)
          /\ Len(Tail(chan[s])) <= SubBuffer
      BY <3>1, HeadTailProperties, LenProperties, BusAssumption DEF BusTypeOK
    <3>3. Append(got[s], Head(chan[s])) \in Seq(Events) BY <3>1, <3>2, AppendProperties
    <3>4. /\ chan' \in [Subscribers -> Seq(Events)] /\ got' \in [Subscribers -> Seq(Events)]
          /\ \A t \in Subscribers : Len(chan'[t]) <= SubBuffer
      BY <2>1, <3>2, <3>3 DEF Receive, BusTypeOK
    <3>5. released' \subseteq opened BY <2>1 DEF Receive, BusTypeOK
    <3> QED BY <1>0, <3>4, <3>5 DEF BusTypeOK, publishVars
  <2>2. CASE ReceiveClosed(s)
    <3>1. s \in opened BY <2>2 DEF ReceiveClosed, IsClosed, ClosesExact, BusTypeOK
    <3> QED BY <1>0, <2>2, <3>1 DEF ReceiveClosed, BusTypeOK, publishVars
  <2> QED BY <2>1, <2>2 DEF Consume
<1>2. \A t \in Subscribers : Stream(t)' = Stream(t)
  BY ReceiveKeepsStream, QuietStreams DEF Consume, ReceiveClosed
<1>3. \A t \in Subscribers, f \in Events : InStream(f, t)' <=> InStream(f, t)
  BY <1>2, SameStream
<1>4. HeldOnce' BY <1>0 DEF HeldOnce, publishVars
<1>5. HeldOrServed' BY <1>0, <1>3 DEF HeldOrServed, Served, IsClosed, BusTypeOK, publishVars
<1>6. SentIsNotHeld' BY <1>0, <1>3 DEF SentIsNotHeld, publishVars
<1>7. PriorReturned' BY <1>0 DEF PriorReturned, ReturnedCalls, publishVars
<1>8. StreamInOrder' BY <1>0, <1>2 DEF StreamInOrder, publishVars
<1>9. ClosesExact' BY <1>0 DEF ClosesExact
<1> QED BY <1>1, <1>4, <1>5, <1>6, <1>7, <1>8, <1>9

\* Every step of subscribers, publishers and consumers keeps the invariant.
LEMMA NextKeeps == BusInv /\ [BusNext]_busVars => BusInv'
<1> SUFFICES ASSUME BusInv, [BusNext]_busVars PROVE BusInv'
  OBVIOUS
<1>1. CASE UNCHANGED busVars
  BY <1>1, QuietStreams DEF busVars, BusInv, BusTypeOK, HeldOnce, HeldOrServed, Served, IsClosed,
     SentIsNotHeld, PriorReturned, ReturnedCalls, StreamInOrder, ClosesExact
<1>2. ASSUME NEW s \in Subscribers, Subscribe(s) \/ Unsubscribe(s) PROVE BusInv'
  BY <1>2, MembershipKeeps
<1>3. ASSUME NEW s \in Subscribers, Consume(s) PROVE BusInv'
  BY <1>3, ConsumeKeeps
<1>4. ASSUME NEW e \in Events, Publish(e) PROVE BusInv'
  BY <1>4, PublishKeeps
<1>5. ASSUME NEW e \in Events, PublishStep(e) PROVE BusInv'
  BY <1>5, SendKeeps, DiscardKeeps, RetryKeeps, ReturnKeeps DEF PublishStep
<1>6. CASE Close BY <1>6, MembershipKeeps
<1> QED BY <1>1, <1>2, <1>3, <1>4, <1>5, <1>6 DEF BusNext

-----------------------------------------------------------------------------
\* The inductive invariant of the bus.
THEOREM BusInductive == BusSpec => []BusInv
BY InitEstablishes, NextKeeps, PTL DEF BusSpec

\* What the bus keeps is of its type: in particular no channel holds more than its
\* buffer, although publishers count its room outside b.mu (Publish, bus.go:63-102).
THEOREM BusTypes == BusSpec => []BusTypeOK
<1>1. BusInv => BusTypeOK BY DEF BusInv
<1> QED BY <1>1, BusInductive, PTL

\* A Publish that returned has passed nobody over (Publish, bus.go:63-102).
THEOREM NobodyIsPassedOver == BusSpec => []EverySubscriberServed
<1>1. BusInv => EverySubscriberServed
  <2> SUFFICES ASSUME BusInv, NEW e \in ReturnedCalls, NEW s \in snapshot[e]
               PROVE  Served(e, s)
    BY DEF EverySubscriberServed, Served, InStream
  <2>1. e \in Events /\ todo[e] = {} /\ at[e] = NoSub /\ s \in Subscribers
    BY DEF ReturnedCalls, BusInv, HeldOnce, BusTypeOK
  <2> QED BY <2>1, BusAssumption DEF BusInv, HeldOrServed
<1> QED BY <1>1, BusInductive, PTL

\* Nobody is served twice, nor out of the order in which calls followed each other.
THEOREM StreamsStayInOrder == BusSpec => []StreamInOrder
<1>1. BusInv => StreamInOrder BY DEF BusInv
<1> QED BY <1>1, BusInductive, PTL

\* No channel is closed twice, which would panic, and a closed bus leaves none open
\* (unsubscribe and Close, bus.go:51-61 and 105-117).
THEOREM ChannelsCloseOnce == BusSpec => []ClosedOnce
<1>1. BusInv => ClosedOnce BY DEF BusInv, ClosesExact, ClosedOnce, BusTypeOK
<1> QED BY <1>1, BusInductive, PTL
=============================================================================
