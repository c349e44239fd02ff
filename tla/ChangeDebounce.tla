--------------------------- MODULE ChangeDebounce ---------------------------
(***************************************************************************)
(* The debounced EventDBChanged announcement of the engine                 *)
(* (internal/engine/engine.go: announceChange, onChangeWindowClosed,       *)
(* Close).  A write first commits to the store and then calls              *)
(* announceChange.  The first announcement of a quiet period is published  *)
(* at once and opens a window; those that fall into the window are         *)
(* collapsed into one publish when it closes.  A window is a time.Timer:   *)
(* its callback runs in a goroutine of its own that still has to take      *)
(* e.changeMu when the timer has fired, and Stop does not recall it.       *)
(***************************************************************************)
EXTENDS Naturals, FiniteSets

CONSTANTS
  Writes,  \* the writes, each followed by a call of announceChange
  Timers,  \* the time.Timer objects; one that is not running is reused
  NoTimer  \* the nil of e.changeTimer

ASSUME DebounceAssumption == NoTimer \notin Timers

VARIABLES
  phase,          \* of each write: "new", "written", "announced"
  changeTimer,    \* e.changeTimer
  changePending,  \* e.changePending
  armed,          \* the timers that are running down
  callbacks,      \* fired callbacks that still have to take e.changeMu
  busClosed,      \* e.bus is closed; Publish does nothing any more
  closing,        \* of Close: "open", "busClosed", "closed"
  announced,      \* the writes a delivered EventDBChanged told clients of
  crashed         \* the callback dereferenced a nil timer

debounceVars == <<phase, changeTimer, changePending, armed, callbacks, busClosed,
          closing, announced, crashed>>

DebounceInit ==
  /\ phase = [w \in Writes |-> "new"]
  /\ changeTimer = NoTimer
  /\ changePending = FALSE
  /\ armed = {}
  /\ callbacks = 0
  /\ busClosed = FALSE
  /\ closing = "open"
  /\ announced = {}
  /\ crashed = FALSE

Committed == {w \in Writes : phase[w] # "new"}

(***************************************************************************)
(* publishChange: whoever reloads on the event reads every write committed *)
(* before it.  The bus drops what is published after its Close.            *)
(***************************************************************************)
PublishChange ==
  announced' = IF busClosed THEN announced ELSE Committed

-----------------------------------------------------------------------------
\* The store operation that precedes the announcement.
Write(w) ==
  /\ ~crashed
  /\ phase[w] = "new"
  /\ phase' = [phase EXCEPT ![w] = "written"]
  /\ UNCHANGED <<changeTimer, changePending, armed, callbacks, busClosed, closing,
                 announced, crashed>>

\* A slip: the event of a call inside the window is forgotten.
AnnounceCollapsedForgets(w) ==
  /\ ~crashed
  /\ phase[w] = "written"
  /\ changeTimer # NoTimer
  /\ phase' = [phase EXCEPT ![w] = "announced"]
  /\ UNCHANGED <<changeTimer, changePending, armed, callbacks, busClosed, closing,
                 announced, crashed>>

\* A slip: a call inside the window publishes all the same.
AnnounceCollapsedPublishes(w) ==
  /\ ~crashed
  /\ phase[w] = "written"
  /\ changeTimer # NoTimer
  /\ phase' = [phase EXCEPT ![w] = "announced"]
  /\ PublishChange
  /\ UNCHANGED <<changeTimer, changePending, armed, callbacks, busClosed, closing,
                 crashed>>

\* announceChange inside an open window.
AnnounceCollapsed(w) ==
  /\ ~crashed
  /\ phase[w] = "written"
  /\ changeTimer # NoTimer
  /\ phase' = [phase EXCEPT ![w] = "announced"]
  /\ changePending' = TRUE
  /\ UNCHANGED <<changeTimer, armed, callbacks, busClosed, closing, announced,
                 crashed>>

\* announceChange in a quiet period: publish, then open a window.
AnnounceLeading(w, t) ==
  /\ ~crashed
  /\ phase[w] = "written"
  /\ changeTimer = NoTimer
  /\ t \notin armed
  /\ phase' = [phase EXCEPT ![w] = "announced"]
  /\ PublishChange
  /\ changeTimer' = t
  /\ armed' = armed \union {t}
  /\ UNCHANGED <<changePending, callbacks, busClosed, closing, crashed>>

\* changeDebounce has passed: the callback's goroutine starts.
Fire(t) ==
  /\ ~crashed
  /\ t \in armed
  /\ armed' = armed \ {t}
  /\ callbacks' = callbacks + 1
  /\ UNCHANGED <<phase, changeTimer, changePending, busClosed, closing,
                 announced, crashed>>

\* A slip: the window is not reopened behind the trailing event.
TrailingNoReset ==
  /\ ~crashed
  /\ callbacks > 0 /\ changePending
  /\ callbacks' = callbacks - 1
  /\ changePending' = FALSE
  /\ PublishChange
  /\ UNCHANGED <<phase, changeTimer, armed, busClosed, closing, crashed>>

(***************************************************************************)
(* onChangeWindowClosed with writes pending: the trailing event, then      *)
(* e.changeTimer.Reset.  Reset rearms the timer e.changeTimer refers to,   *)
(* and panics when Close has set it to nil.                                *)
(***************************************************************************)
Trailing ==
  /\ ~crashed
  /\ callbacks > 0 /\ changePending
  /\ callbacks' = callbacks - 1
  /\ changePending' = FALSE
  /\ PublishChange
  /\ armed' = armed \union ({changeTimer} \ {NoTimer})
  /\ crashed' = (changeTimer = NoTimer)
  /\ UNCHANGED <<phase, changeTimer, busClosed, closing>>

\* onChangeWindowClosed without writes: the next change leads again.
Quiet ==
  /\ ~crashed
  /\ callbacks > 0 /\ ~changePending
  /\ callbacks' = callbacks - 1
  /\ changeTimer' = NoTimer
  /\ UNCHANGED <<phase, changePending, armed, busClosed, closing, announced,
                 crashed>>

\* Close, past pool.shutdown: the bus goes first.
CloseBus ==
  /\ ~crashed
  /\ closing = "open"
  /\ closing' = "busClosed"
  /\ busClosed' = TRUE
  /\ UNCHANGED <<phase, changeTimer, changePending, armed, callbacks, announced,
                 crashed>>

\* Then the window, under e.changeMu.  Stop recalls no fired callback.
CloseTimer ==
  /\ ~crashed
  /\ closing = "busClosed"
  /\ closing' = "closed"
  /\ armed' = armed \ {changeTimer}
  /\ changeTimer' = NoTimer
  /\ UNCHANGED <<phase, changePending, callbacks, busClosed, announced, crashed>>

Announce(w) == AnnounceCollapsed(w) \/ \E t \in Timers : AnnounceLeading(w, t)

OnChangeWindowClosed == Trailing \/ Quiet

DebounceNext ==
  \/ \E w \in Writes : Write(w) \/ Announce(w)
  \/ \E t \in Timers : Fire(t)
  \/ OnChangeWindowClosed
  \/ CloseBus \/ CloseTimer

DebounceSpec == DebounceInit /\ [][DebounceNext]_debounceVars

(***************************************************************************)
(* A goroutine that has written goes on to announce; timers fire and their *)
(* callbacks get the mutex, which nobody holds across a blocking call.     *)
(* Nothing obliges anyone to write or to close.                            *)
(***************************************************************************)
DebounceFairness ==
  /\ \A w \in Writes : WF_debounceVars(Announce(w))
  /\ \A t \in Timers : WF_debounceVars(Fire(t))
  /\ WF_debounceVars(OnChangeWindowClosed)

DebounceFairSpec == DebounceSpec /\ DebounceFairness

-----------------------------------------------------------------------------
DebounceTypeOK ==
  /\ phase \in [Writes -> {"new", "written", "announced"}]
  /\ changeTimer \in Timers \union {NoTimer}
  /\ changePending \in BOOLEAN
  /\ armed \subseteq Timers
  /\ callbacks \in Nat
  /\ busClosed \in BOOLEAN
  /\ closing \in {"open", "busClosed", "closed"}
  /\ announced \subseteq Writes
  /\ crashed \in BOOLEAN

(***************************************************************************)
(* announceChange (engine.go:221-225) collapses calls, it does not lose    *)
(* them: while the bus is open, a write whose announceChange has returned  *)
(* is either covered by a published event or still owed one by a window    *)
(* that is open and will close.                                            *)
(***************************************************************************)
NoChangeLost ==
  \A w \in Writes :
    phase[w] = "announced" /\ ~busClosed =>
      \/ w \in announced
      \/ changePending /\ (armed # {} \/ callbacks > 0)

(***************************************************************************)
(* "A crawl that writes thousands of rows therefore triggers a few client  *)
(* reloads, not thousands" (engine.go:224-225): clients hear of new writes *)
(* only when no window is running down, however callbacks, announcers and  *)
(* Close interleave.                                                       *)
(***************************************************************************)
NoEventInsideWindow ==
  [][announced' # announced => armed = {}]_debounceVars

(***************************************************************************)
(* Until Close there is never a second window beside the first, and        *)
(* e.changeTimer is set exactly while a timer runs or its callback waits:  *)
(* what Close would stop is what there is to stop.                         *)
(***************************************************************************)
OneWindow ==
  closing # "closed" =>
    IF changeTimer = NoTimer
      THEN armed = {} /\ callbacks = 0
      ELSE \/ armed = {changeTimer} /\ callbacks = 0
           \/ armed = {} /\ callbacks = 1

(***************************************************************************)
(* A callback that finds no timer to reopen (engine.go:246) panics, and    *)
(* nobody recovers it.  That takes a Close that has dropped the timer      *)
(* while the callback waited for e.changeMu: a daemon that is not closing  *)
(* is safe from it, however writes and windows overlap.                    *)
(***************************************************************************)
OnlyCloseLosesTheTimer == crashed => closing = "closed"

\* A committed write is announced to the clients (engine.go:221) unless the
\* engine closes first.
WritesAreAnnounced ==
  \A w \in Writes : phase[w] = "written" ~> w \in announced \/ busClosed
=============================================================================
