-------------------------------- MODULE Shell --------------------------------
(***************************************************************************)
(* The shell of the terminal frontend (internal/tui/app.go, app_actions.go,*)
(* app_commands.go, app_history.go): the stack of overlays and the one     *)
(* command that waits for a confirmation, the stack of panes with the      *)
(* history of visited patents, and the batch of XML downloads.             *)
(*                                                                         *)
(* The model update (App.Update) handles one message at a time; commands   *)
(* run in goroutines and their messages come back in any order, between    *)
(* key presses.  A key on a dialog does not close it: it sends a message   *)
(* that closes what is on top when it arrives.                             *)
(***************************************************************************)
EXTENDS Integers, SequencesExt, FiniteSets, Bags

CONSTANTS
  Numbers,     \* patents, positive numbers
  Jobs,        \* jobs that additions may start
  MaxAsks,     \* a bound: commands that ask for confirmation
  Batches,     \* sizes of the XML downloads asked for
  Keys,        \* a bound: commands the user gives
  Doubled,     \* a bound: answers to dialogs under way
  Deletions,   \* a bound: patents other clients delete
  HistoryCap   \* how many visited patents recordHistory keeps

ASSUME ShellAssumption ==
  /\ Numbers \subseteq Nat \ {0} /\ Batches \subseteq Nat \ {0}
  /\ {MaxAsks, Keys, Doubled, Deletions} \subseteq Nat
  /\ HistoryCap \in Nat \ {0}

VARIABLES
  overlays,   \* a.overlays, the focused one last
  pending,    \* a.confirmCmd: the question whose command waits, 0 for nil
  revert,     \* a.revertPatent is set
  panes,      \* the patents of a.panes; 0, the list, at the bottom
  history,    \* a.history
  cursor,     \* a.historyCursor, from -1
  batch,      \* a.xmlBatch: the downloads it counts, or NoBatch
  inflight,   \* messages on their way to Update
  stored,     \* patents in the database
  asks,       \* the commands that asked so far: "plain" or "replay"
  ran,        \* history: how often each of their commands ran
  unasked,    \* history: a command ran on the answer to another dialog
  crashed,    \* Update indexed outside a.history
  budget      \* commands the user may still give

viewVars == <<overlays, pending, revert>>
paneVars == <<panes, history, cursor>>
askVars == <<asks, ran, unasked>>
vars == <<viewVars, paneVars, batch, inflight, stored, askVars, crashed, budget>>

NoBatch == [total |-> 0, done |-> 0]
Confirm(ask) == [kind |-> "confirm", ask |-> ask]     \* ask 0: nothing waits for it
Notice == [kind |-> "notice"]
Spinner == [kind |-> "spinner"]
Loading(job) == [kind |-> "loading", job |-> job, done |-> "no"]

Pop == IF overlays = <<>> THEN overlays ELSE Front(overlays)
On(kinds) == overlays # <<>> /\ Last(overlays).kind \in kinds
TakesKeys == On({"confirm", "notice"})    \* KeyHandler overlays consume every key

Sent(ms) == inflight (+) SetToBag(ms)
Answers == {m \in BagToSet(inflight) : m.type \in {"accept", "reject", "close"}}
Answering == BagCardinality([m \in Answers |-> inflight[m]])

Init ==
  /\ overlays = <<>> /\ pending = 0 /\ revert = FALSE
  /\ panes = <<0>>
  /\ \/ history = <<>> /\ cursor = 0
     \/ \E visits \in [1..3 -> Numbers] :
          /\ \A i, j \in 1..3 : i < j => visits[i] < visits[j]
          /\ history = visits /\ cursor = 1
  /\ batch = NoBatch /\ inflight = EmptyBag /\ stored = Numbers
  /\ asks = <<>> /\ ran = [a \in 1..MaxAsks |-> 0] /\ unasked = FALSE
  /\ crashed = FALSE /\ budget = Keys

Command == ~crashed /\ budget > 0 /\ budget' = budget - 1

-----------------------------------------------------------------------------
\* Visited patents.  cursor counts from 0, as the code does.

Recorded(n) ==
  LET kept == IF cursor + 1 < Len(history) THEN SubSeq(history, 1, cursor + 1) ELSE history
      grown == Append(kept, n)
      capped == IF Len(grown) > HistoryCap THEN Tail(grown) ELSE grown
  IN IF kept # <<>> /\ cursor + 1 \notin DOMAIN kept
     THEN crashed' = TRUE /\ UNCHANGED <<history, cursor>>
     ELSE /\ UNCHANGED crashed
          /\ IF kept # <<>> /\ kept[cursor + 1] = n
             THEN history' = kept /\ UNCHANGED cursor
             ELSE history' = capped /\ cursor' = Len(capped) - 1

OpenDetail(n) ==
  /\ Command /\ overlays = <<>> /\ n \in stored
  /\ Recorded(n)
  /\ panes' = IF crashed' THEN panes ELSE Append(panes, n)
  /\ UNCHANGED <<viewVars, batch, inflight, stored, askVars>>

SyncedCursor(n) ==
  LET places == {i \in DOMAIN history : history[i] = n}
  IN IF places = {} THEN cursor ELSE (CHOOSE i \in places : \A j \in places : j <= i) - 1

Back ==
  /\ Command /\ overlays = <<>> /\ Len(panes) > 1
  /\ panes' = Front(panes)
  /\ cursor' = SyncedCursor(Last(panes'))
  /\ UNCHANGED <<viewVars, history, batch, inflight, stored, askVars, crashed>>

HistoryMove(target) ==
  /\ Command /\ ~TakesKeys
  /\ history # <<>> /\ target \in {cursor - 1, cursor + 1}
  /\ target >= 0 /\ (target > cursor => target < Len(history))
  /\ IF target + 1 \in DOMAIN history
     THEN /\ inflight' = Sent({[type |-> "checked", target |-> target, number |-> history[target + 1],
                                found |-> history[target + 1] \in stored]})
          /\ UNCHANGED crashed
     ELSE crashed' = TRUE /\ UNCHANGED inflight
  /\ UNCHANGED <<viewVars, paneVars, batch, stored, askVars>>

HistoryFound(m) ==
  /\ m.found
  /\ cursor' = m.target
  /\ panes' = IF Last(panes) = 0 THEN Append(panes, m.number)
              ELSE [panes EXCEPT ![Len(panes)] = m.number]
  /\ UNCHANGED <<overlays, history>>

HistoryMissing(m) ==
  /\ m.number \notin stored
  /\ overlays' = Append(overlays, Notice)
  /\ IF m.target + 1 \in DOMAIN history
     THEN /\ history' = RemoveAt(history, m.target + 1)
          /\ cursor' = IF cursor >= Len(history') THEN Len(history') - 1 ELSE cursor
     ELSE UNCHANGED <<history, cursor>>
  /\ UNCHANGED panes

HistoryFailed == overlays' = Append(overlays, Notice) /\ UNCHANGED paneVars

HistoryCheckResult(m) ==
  /\ m.type = "checked"
  /\ HistoryFound(m) \/ HistoryMissing(m) \/ HistoryFailed
  /\ inflight' = inflight (-) SetToBag({m})
  /\ UNCHANGED <<pending, revert, batch, stored, askVars, crashed, budget>>

PatentDeleted(n) ==
  /\ n \in stored /\ Cardinality(Numbers \ stored) < Deletions
  /\ stored' = stored \ {n}
  /\ UNCHANGED <<viewVars, paneVars, batch, inflight, askVars, crashed, budget>>

-----------------------------------------------------------------------------
\* Questions and their answers.

Put(kind) ==
  /\ Len(asks) < MaxAsks
  /\ asks' = Append(asks, kind)
  /\ pending' = Len(asks')
  /\ overlays' = Append(overlays, Confirm(Len(asks')))
  /\ UNCHANGED <<ran, unasked>>

\* a bulk action, a deletion, clearing the cache
AskFirst ==
  /\ Command /\ overlays = <<>> /\ Put("plain")
  /\ UNCHANGED <<revert, paneVars, batch, inflight, stored, crashed>>

\* an entry of the activity history, whose overlay opens over any other
AskReplay ==
  /\ Command /\ ~TakesKeys /\ Put("replay")
  /\ UNCHANGED <<revert, paneVars, batch, inflight, stored, crashed>>

\* an export is prepared, an addition checked, before either asks
Prepare ==
  /\ Command /\ overlays = <<>>
  /\ inflight' = Sent({[type |-> "prepared"]})
  /\ UNCHANGED <<viewVars, paneVars, batch, stored, askVars, crashed>>

Prepared(m) ==
  /\ m.type = "prepared" /\ Put("plain")
  /\ inflight' = inflight (-) SetToBag({m})
  /\ UNCHANGED <<revert, paneVars, batch, stored, crashed, budget>>

Answer(type) ==
  /\ ~crashed /\ Answering < Doubled
  /\ inflight' = Sent({[type |-> type, to |-> IF type = "close" THEN 0 ELSE Last(overlays).ask]})
  /\ UNCHANGED <<viewVars, paneVars, batch, stored, askVars, crashed, budget>>

PressYes == On({"confirm"}) /\ Answer("accept")

\* slip: closes a progress overlay by the commands it Handles, once it is done
PressEscWhenDone ==
  \/ On({"confirm"}) /\ Answer("reject")
  \/ On({"notice"}) /\ Answer("close")
  \/ /\ ~crashed /\ On({"spinner", "loading"})
     /\ On({"loading"}) => Last(overlays).done # "no"
     /\ overlays' = Pop
     /\ UNCHANGED <<pending, revert, paneVars, batch, inflight, stored, askVars, crashed, budget>>

\* esc: any other key for a dialog; spinners and progress close at once
PressEsc ==
  \/ On({"confirm"}) /\ Answer("reject")
  \/ On({"notice"}) /\ Answer("close")
  \/ /\ ~crashed /\ On({"spinner", "loading"})
     /\ overlays' = Pop
     /\ UNCHANGED <<pending, revert, paneVars, batch, inflight, stored, askVars, crashed, budget>>

Ran(m) ==
  /\ ran' = IF pending = 0 THEN ran ELSE [ran EXCEPT ![pending] = @ + 1]
  /\ unasked' = (unasked \/ pending \notin {0, m.to})
  /\ inflight' = IF pending # 0 /\ asks[pending] = "replay"
                 THEN (inflight (-) SetToBag({m})) (+) SetToBag({[type |-> "replay"]})
                 ELSE inflight (-) SetToBag({m})

\* slip: keeps the command after it ran
ConfirmAcceptKeeps(m) ==
  /\ m.type = "accept"
  /\ overlays' = Pop /\ revert' = FALSE /\ UNCHANGED pending
  /\ Ran(m)
  /\ UNCHANGED <<paneVars, batch, stored, asks, crashed, budget>>

ConfirmAccept(m) ==
  /\ m.type = "accept"
  /\ overlays' = Pop /\ pending' = 0 /\ revert' = FALSE
  /\ Ran(m)
  /\ UNCHANGED <<paneVars, batch, stored, asks, crashed, budget>>

ConfirmReject(m) ==
  /\ m.type = "reject"
  /\ overlays' = Pop /\ pending' = 0 /\ revert' = FALSE
  /\ inflight' = inflight (-) SetToBag({m})
  /\ UNCHANGED <<paneVars, batch, stored, askVars, crashed, budget>>

CloseOverlay(m) ==
  LET keeps == On({"loading"}) /\ Last(overlays).done = "ok"
  IN /\ m.type = "close"
     /\ overlays' = IF keeps THEN Append(Pop, Confirm(0)) ELSE Pop
     /\ revert' = (revert \/ keeps)
     /\ inflight' = inflight (-) SetToBag({m})
     /\ UNCHANGED <<pending, paneVars, batch, stored, askVars, crashed, budget>>

ConfirmHistoryReplay(m) ==
  /\ m.type = "replay"
  /\ overlays' = <<>> /\ panes' = <<Head(panes)>>
  /\ inflight' = inflight (-) SetToBag({m})
  /\ UNCHANGED <<pending, revert, history, cursor, batch, stored, askVars, crashed, budget>>

-----------------------------------------------------------------------------
\* Additions and the jobs they start.

Started(j) == [type |-> "started", job |-> j]

\* the daemon answers the request and, apart from that, reports the job's end
Add(j, reply) ==
  /\ Command /\ overlays = <<>>
  /\ \A m \in BagToSet(inflight) : m.type \in {"already", "started", "crawldone"} => m.job # j
  /\ \A o \in Range(overlays) : o.kind = "loading" => o.job # j
  /\ inflight' = Sent({[type |-> reply, job |-> j], [type |-> "crawldone", job |-> j]})
  /\ UNCHANGED <<viewVars, paneVars, batch, stored, askVars, crashed>>

AlreadyInDB(m) ==
  /\ m.type = "already"
  /\ overlays' = Append(overlays, Confirm(0))
  /\ inflight' = (inflight (-) SetToBag({m})) (+) SetToBag({Started(m.job)})
  /\ UNCHANGED <<pending, revert, paneVars, batch, stored, askVars, crashed, budget>>

CrawlStarted(m) ==
  /\ m.type = "started"
  /\ overlays' = Append(overlays, Loading(m.job))
  /\ inflight' = inflight (-) SetToBag({m})
  /\ UNCHANGED <<pending, revert, paneVars, batch, stored, askVars, crashed, budget>>

CrawlDone(m) ==
  /\ m.type = "crawldone"
  /\ \E outcome \in {"ok", "failed"} :
       overlays' = [i \in DOMAIN overlays |->
                      IF overlays[i].kind = "loading" /\ overlays[i].job = m.job
                      THEN [overlays[i] EXCEPT !.done = outcome] ELSE overlays[i]]
  /\ inflight' = inflight (-) SetToBag({m})
  /\ UNCHANGED <<pending, revert, paneVars, batch, stored, askVars, crashed, budget>>

-----------------------------------------------------------------------------
\* XML downloads: one behind a spinner, several in a batch that counts replies.

FetchXML(k) ==
  /\ Command /\ overlays = <<>>
  /\ inflight' = inflight (+) [m \in {[type |-> "xml"]} |-> k]
  /\ IF k = 1 THEN overlays' = Append(overlays, Spinner) /\ batch' = NoBatch
              ELSE batch' = [total |-> k, done |-> 0] /\ UNCHANGED overlays
  /\ UNCHANGED <<pending, revert, paneVars, stored, askVars, crashed>>

\* slip: counts the downloads that succeeded
BatchTickOnSuccess(failed) ==
  batch' = IF failed THEN batch
           ELSE IF batch.done + 1 < batch.total THEN [batch EXCEPT !.done = @ + 1] ELSE NoBatch

BatchTick(failed) ==
  batch' = IF batch.done + 1 < batch.total THEN [batch EXCEPT !.done = @ + 1] ELSE NoBatch

XMLFetched(m) ==
  /\ m.type = "xml"
  /\ IF batch # NoBatch
     THEN (\E failed \in BOOLEAN : BatchTick(failed)) /\ UNCHANGED overlays
     ELSE overlays' = (IF On({"spinner"}) THEN Pop ELSE overlays) /\ UNCHANGED batch
  /\ inflight' = inflight (-) SetToBag({m})
  /\ UNCHANGED <<pending, revert, paneVars, stored, askVars, crashed, budget>>

-----------------------------------------------------------------------------

Deliver ==
  /\ ~crashed
  /\ \E m \in BagToSet(inflight) :
       \/ ConfirmAccept(m) \/ ConfirmReject(m) \/ CloseOverlay(m)
       \/ HistoryCheckResult(m) \/ ConfirmHistoryReplay(m) \/ Prepared(m)
       \/ AlreadyInDB(m) \/ CrawlStarted(m) \/ CrawlDone(m) \/ XMLFetched(m)

User ==
  \/ \E n \in Numbers : OpenDetail(n)
  \/ Back \/ HistoryMove(cursor - 1) \/ HistoryMove(cursor + 1)
  \/ AskFirst \/ AskReplay \/ Prepare
  \/ \E j \in Jobs, reply \in {"already", "started"} : Add(j, reply)
  \/ \E k \in Batches : FetchXML(k)
  \/ PressYes

Next == User \/ PressEsc \/ Deliver \/ \E n \in Numbers : PatentDeleted(n)

Spec == Init /\ [][Next]_vars

\* Messages arrive, and the user keeps pressing esc.
FairSpec == Spec /\ WF_vars(Deliver) /\ WF_vars(PressEsc)

-----------------------------------------------------------------------------

\* Questions are answered to a command at most once: a doubled y, or a y to
\* another dialog, never runs an accepted command again (confirmCmd is cleared).
RunsOncePerAsking == \A a \in DOMAIN ran : ran[a] <= 1

\* How often a message is on its way.
Copies(m, bag) == IF BagIn(m, bag) THEN bag[m] ELSE 0

\* A batch of XML downloads never waits for more replies than are on their way,
\* whatever else was fetched meanwhile: its final tally is always reported.
BatchIsAnswered ==
  batch # NoBatch =>
    batch.total - batch.done <= Copies([type |-> "xml"], inflight)

\* Whatever opened and in whatever order, a user who keeps pressing esc gets
\* back to the panes.
UserGetsOut == overlays # <<>> ~> (overlays = <<>> \/ crashed)

\* A command that waits for a confirmation runs by a yes to the dialog that
\* asked for it (confirm.go: "Confirm is a yes/no modal that blocks until the
\* user makes a choice").
RunsByItsOwnYes == ~unasked
=============================================================================
