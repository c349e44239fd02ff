----------------------------- MODULE PatentPanes -----------------------------
(***************************************************************************)
(* The panes that show one patent: its record ("detail", pane/detail.go),  *)
(* its text ("text", pane/fulltext.go) with the buffer of passages noted   *)
(* (tui/notes.go), and its entry on the information disclosure statement   *)
(* of a project ("ids", pane/ids.go), down to the engine and the store     *)
(* that keep the entry (engine_ids.go, sqlite/ids.go).                     *)
(*                                                                         *)
(* What is drawn is a sequence of lines; a line knows what it is about,    *)
(* whether a jump key leads to it and whether j and k stop at it.  Wording *)
(* is left out, and so are the dates and the kind code of an entry.        *)
(***************************************************************************)
EXTENDS Integers, SequencesExt, FiniteSets, Paginator

CONSTANTS
  Kinds,        \* the panes shown
  Projects,     \* one of them, or Nobody, is active
  Texts,        \* the claims and paragraphs of each version of the text
  Wraps,        \* the lines a text is wrapped into, by the width of the window
  Heights,      \* rows a page may have
  Steps,        \* a bound: keys, windows and changes by others, by pane
  Outstanding,  \* a bound: requests under way at a key or a change
  Faults,       \* a bound: calls that fail
  Busy          \* whether another change may start while one is under way

Nobody == 0

PanesAssumption ==
  /\ Kinds \subseteq {"detail", "text", "ids"} /\ Projects \subseteq Nat \ {Nobody}
  /\ Texts \in [{"uspto", "google"} -> [claims : Nat, paras : Nat]]
  /\ {Wraps, Heights} \subseteq SUBSET (Nat \ {0}) /\ \A k \in Kinds : Steps[k] \in Nat
  /\ {Outstanding, Faults} \subseteq Nat /\ Busy \in BOOLEAN

VARIABLES
  kind,      \* the pane that is shown
  view,      \* its fields
  requests,  \* calls under way
  db,        \* what the daemon has of the patent
  told,      \* every announced change of db has reached the program
  notes,     \* the passages noted, and those nothing may lose
  budget     \* steps and faults left

vars == <<kind, view, requests, db, told, notes, budget>>

-----------------------------------------------------------------------------
(* Entries.  A membership without a status has none. *)

Statuses == {"pending", "submitted", "accepted", "ignored"}
None == [status |-> ""]
Pending == [status |-> "pending", full |-> FALSE, passages |-> {}, sent |-> FALSE]

NextStatus(s) ==
  CASE s = "pending" -> "submitted" [] s = "submitted" -> "accepted"
    [] s = "accepted" -> "ignored" [] s = "ignored" -> "pending"

(* Slip: a status that is not that of a submission keeps the date of one. *)
StoredUndated(e) == [e EXCEPT !.sent = @ \/ (e.status = "submitted")]

(* Engine.saveIDSEntry and Repo.SaveIDSEntry date a submission and take the date
   from what is not submitted; the first creates the membership.                *)
Stored(e) == [e EXCEPT !.sent = (e.status = "submitted") \/ (@ /\ e.status = "accepted")]

SaveIDSEntry(d, p, e) == [d EXCEPT !.ids[p] = Stored(e)]
DeleteIDSEntry(d, p) == IF p = Nobody THEN d ELSE [d EXCEPT !.ids[p] = None]

IDSEntryOf(d, p) == IF p = Nobody THEN None ELSE d.ids[p]

(* What BulkSetIDSStatus saves of one patent. *)
BulkSet(e, status) == IF e = None THEN [Pending EXCEPT !.status = status, !.full = TRUE]
                      ELSE [e EXCEPT !.status = status]

(* What CycleIDSEntryStatusesCmd saves of one patent. *)
Cycled(e) == LET was == IF e = None THEN Pending ELSE e IN [was EXCEPT !.status = NextStatus(@)]

-----------------------------------------------------------------------------
(* Lines. *)

Line(about, jump, stop) == [about |-> about, jump |-> jump, stop |-> stop]
Lines(n, about) == [i \in 1..n |-> Line(about, FALSE, FALSE)]
Blank == <<"", 0>>
Field(label, jump) == <<Line(<<label, 0>>, jump, TRUE)>>
WrappedField(label, n) == Field(label, TRUE) \o Lines(n - 1, <<label, 0>>)
Section(label, n) == Lines(1, Blank) \o Field(label, TRUE) \o Lines(n, <<label, 0>>)

(* body: fields of a project only with one, the hint only with differences. *)
DetailBody(v) ==
  Field("Title", FALSE) \o Field("Assignee", TRUE) \o Lines(IF v.hint THEN 1 ELSE 0, Blank)
  \o WrappedField("Classifications", v.wrap)
  \o (IF v.project = Nobody THEN <<>>
      ELSE Lines(1, Blank) \o Field("Review state", TRUE) \o Field("IDS", TRUE))
  \o Lines(1, Blank) \o Field("Citations", TRUE) \o Section("First claim", v.wrap)
  \o Lines(2, Blank) \o Section("Abstract", v.wrap)

Claim(i) == <<"Claim", i>>
Paragraph(i) == <<"Paragraph", i>>
Disclosure == <<"Disclosure", 0>>

Passage(about, jump, n, last) == <<Line(about, jump, FALSE)>> \o Lines(IF last THEN n ELSE n + 1, about)

TextBody(v) ==
  LET t == Texts[v.version]
      claims == [i \in 1..t.claims |-> Passage(Claim(i), TRUE, v.wrap, i = t.claims)]
      paras == [i \in 1..t.paras |-> Passage(Paragraph(i), FALSE, v.wrap, i = t.paras)]
  IN  Lines(IF v.version = "google" THEN 3 ELSE 1, Blank) \o FlattenSeq(claims)
      \o (IF t.paras = 0 THEN <<>>
          ELSE Lines(1, Blank) \o <<Line(Disclosure, TRUE, FALSE)>> \o FlattenSeq(paras))

IDSFields == <<"", "", "", "status", "kind", "full", "added", "submitted", "passages", "notes">>
IDSBody == [i \in DOMAIN IDSFields |-> Line(<<IDSFields[i], 0>>, FALSE, FALSE)]

Body(v) ==
  CASE kind = "detail" -> DetailBody(v) [] kind = "text" -> TextBody(v) [] kind = "ids" -> IDSBody

(* View rebuilds the lines and sizes the page, unless it says that it is
   loading, or why it could not, or that there is no project.              *)
Hidden(v) == v.failed \/ ~v.known \/ (kind = "ids" /\ v.project = Nobody)

Drawn(v) ==
  IF Hidden(v) THEN v
  ELSE LET body == Body(v)
       IN  [v EXCEPT !.body = body, !.page = SetPageSize(SetTotal(@, Len(body)), v.height)]

At(v, line) == IF line \in DOMAIN v.body THEN v.body[line].about ELSE Blank
Cursor(v) == v.page.cursor + 1
Anchors(v) == {i \in DOMAIN v.body : v.body[i].jump}
Stops(v) == {i \in DOMAIN v.body : v.body[i].stop}

SmallestOf(S) == CHOOSE x \in S : \A y \in S : x <= y
LargestOf(S) == CHOOSE x \in S : \A y \in S : y <= x

(* nextGroupLine and prevGroupLine: past the last or the first, it. *)
NextStop(v) ==
  LET after == {i \in Stops(v) : i > Cursor(v)}
  IN  IF Stops(v) = {} THEN Cursor(v) + 1 ELSE IF after = {} THEN LargestOf(Stops(v)) ELSE SmallestOf(after)
PrevStop(v) ==
  LET before == {i \in Stops(v) : i < Cursor(v)}
  IN  IF Stops(v) = {} THEN Cursor(v) - 1 ELSE IF before = {} THEN SmallestOf(Stops(v)) ELSE LargestOf(before)

-----------------------------------------------------------------------------
(* Requests. *)

Becomes(v, rs) == view' = Drawn(v) /\ requests' = rs
Superseded == {IF r.what \in {"load", "diffs"} THEN [r EXCEPT !.live = FALSE] ELSE r : r \in requests}
Asks(what, project) == [what |-> what, live |-> TRUE, stage |-> "issued", project |-> project]

(* load; the detail also asks for differences of its sources (and, in the same
   way, for the numbers of its edges, left out).                              *)
Loads(v) ==
  {Asks("load", v.project)} \cup (IF kind = "detail" THEN {Asks("diffs", v.project)} ELSE {})
Reloads(v) == Becomes([v EXCEPT !.loading = TRUE, !.asked = \E r \in requests : r.what = "xml"], Superseded \cup Loads(v))

NewPane(project, height, wrap) ==
  [page |-> NewPaginator(10), body |-> <<>>, height |-> height, wrap |-> wrap, project |-> project,
   loading |-> TRUE, failed |-> FALSE, known |-> FALSE, asked |-> FALSE, jumping |-> FALSE,
   entry |-> None, owner |-> Nobody, state |-> "", hint |-> FALSE,
   version |-> "google", patchy |-> FALSE, unsaved |-> FALSE, selecting |-> FALSE, anchor |-> 0]

Init ==
  /\ kind \in Kinds
  /\ \E p \in Projects, h \in Heights, w \in Wraps : view = NewPane(p, h, w)
  /\ requests = Loads(view)
  /\ \E e \in {None, Pending}, xml \in BOOLEAN :
       db = [ids |-> [p \in Projects |-> IF p = 1 THEN e ELSE None], state |-> [p \in Projects |-> "unknown"],
             saved |-> {}, xml |-> kind = "text" /\ xml, diffs |-> kind = "detail"]
  /\ told = TRUE
  /\ notes = [buffer |-> {}, due |-> {}]
  /\ budget = [steps |-> Steps[kind], faults |-> Faults]

Saves == {"save", "delete", "cycle", "mark"}
Entering == \E r \in requests : r.what \in Saves

Serving(r, what) == r.what = what /\ r.stage = "issued" /\ UNCHANGED <<kind, view, notes>>
Answers(r, fields) == requests' = (requests \ {r}) \cup {fields @@ [r EXCEPT !.stage = "answered"]}
Unchanged == UNCHANGED <<db, told, budget>>
Writes(d) == db' = d /\ told' = FALSE /\ UNCHANGED budget

(* patent.get, and of the text the body of the USPTO or else the page of Google:
   a body that cannot be asked for counts as none.                              *)
ServeLoad(r) ==
  /\ Serving(r, "load") /\ UNCHANGED <<db, told>>
  /\ \/ /\ UNCHANGED budget
        /\ Answers(r, [entry |-> IDSEntryOf(db, r.project), patchy |-> FALSE,
                       state |-> IF r.project = Nobody THEN "" ELSE db.state[r.project],
                       version |-> IF db.xml THEN "uspto" ELSE "google"])
     \/ /\ kind = "text" /\ db.xml /\ budget.faults > 0
        /\ budget' = [budget EXCEPT !.faults = @ - 1]
        /\ Answers(r, [entry |-> None, patchy |-> TRUE, state |-> "", version |-> "google"])

ServeDiffs(r) == Serving(r, "diffs") /\ Unchanged /\ Answers(r, [diffs |-> db.diffs])

ServeSave(r) ==
  /\ Serving(r, "save") /\ r.owner # Nobody
  /\ Writes(SaveIDSEntry(db, r.owner, r.entry)) /\ Answers(r, [entry |-> Stored(r.entry)])
ServeDelete(r) ==
  /\ Serving(r, "delete") /\ Writes(DeleteIDSEntry(db, r.project)) /\ Answers(r, [entry |-> None])
ServeMark(r) ==
  /\ Serving(r, "mark") /\ Writes([db EXCEPT !.state[r.project] = r.state]) /\ Answers(r, [project |-> r.project])

(* Two calls: the entry is read, then saved whole. *)
CycleReads(r) ==
  /\ Serving(r, "cycle") /\ Unchanged
  /\ requests' = (requests \ {r}) \cup {[entry |-> Cycled(IDSEntryOf(db, r.project))] @@ [r EXCEPT !.stage = "read"]}
CycleSaves(r) ==
  /\ r.what = "cycle" /\ r.stage = "read" /\ UNCHANGED <<kind, view, notes>>
  /\ Writes(SaveIDSEntry(db, r.project, r.entry)) /\ Answers(r, [entry |-> Stored(r.entry)])

(* The grant's XML is ingested; no change is announced. *)
ServeXML(r) ==
  /\ Serving(r, "xml") /\ UNCHANGED <<told, budget>> /\ db' = [db EXCEPT !.xml = TRUE] /\ Answers(r, [project |-> r.project])

Fails(r) ==
  /\ r.stage \in {"issued", "read"} /\ r.what \notin {"note", "flush"} /\ UNCHANGED <<kind, view, notes, db, told>>
  /\ \/ r.what = "save" /\ r.owner = Nobody /\ UNCHANGED budget
     \/ budget.faults > 0 /\ budget' = [budget EXCEPT !.faults = @ - 1]
  /\ requests' = (requests \ {r}) \cup {[r EXCEPT !.stage = "failed"]}

-----------------------------------------------------------------------------
(* Messages. *)

Message(r, what) == r.what = what /\ UNCHANGED <<kind, db, told, notes, budget>>
Rest(r) == requests \ {r}

Loaded(r) ==
  /\ Message(r, "load") /\ r.stage \in {"answered", "failed"}
  /\ Becomes(IF ~r.live THEN view
             ELSE IF r.stage = "failed" THEN [view EXCEPT !.loading = FALSE, !.failed = TRUE]
             ELSE [view EXCEPT !.loading = FALSE, !.failed = FALSE, !.known = TRUE,
                               !.entry = IF kind = "ids" /\ r.entry = None THEN Pending ELSE r.entry,
                               !.owner = view.project, !.state = r.state, !.version = r.version,
                               !.patchy = r.patchy, !.hint = FALSE, !.unsaved = FALSE, !.page = Top(@)],
             Rest(r))

Compared(r) ==
  /\ Message(r, "diffs") /\ r.stage \in {"answered", "failed"}
  /\ Becomes(IF r.live THEN [view EXCEPT !.hint = (r.stage = "answered" /\ r.diffs)] ELSE view, Rest(r))

(* IDSEntrySavedMsg, IDSEntryDeletedMsg and IDSEntriesChangedMsg, broadcast to
   the panes of the project; of a failure only the status line tells.           *)
EntryChanged(r) ==
  /\ r.what \in {"save", "delete", "cycle"} /\ Message(r, r.what) /\ r.stage \in {"answered", "failed"}
  /\ Becomes(IF r.stage = "failed" THEN [view EXCEPT !.unsaved = TRUE]
             ELSE IF r.project # view.project \/ (kind = "ids" /\ ~view.known) THEN view
             ELSE IF kind = "detail" THEN [view EXCEPT !.entry = r.entry]
             ELSE [view EXCEPT !.loading = FALSE, !.owner = IF r.what = "save" THEN r.owner ELSE view.project,
                               !.unsaved = @ \/ (r.what = "save" /\ r.owner # view.project),
                               !.entry = IF r.entry = None THEN Pending ELSE r.entry],
             Rest(r))

StateChanged(r) ==
  /\ Message(r, "mark") /\ r.stage \in {"answered", "failed"}
  /\ Becomes(IF r.stage = "answered" /\ r.project = view.project THEN [view EXCEPT !.state = r.state] ELSE view, Rest(r))

(* handleUSPTOXMLFetched keeps the message from the panes. *)
XMLFetched(r) == Message(r, "xml") /\ r.stage \in {"answered", "failed"} /\ Becomes(view, Rest(r))

(* refreshPanes: Refresh, sent to every pane. *)
DBChanged ==
  /\ ~told /\ Cardinality(requests) <= Outstanding
  /\ told' = TRUE /\ Reloads(view) /\ UNCHANGED <<kind, db, notes, budget>>

-----------------------------------------------------------------------------
(* Keys. *)

Press ==
  /\ budget.steps > 0 /\ Cardinality(requests) <= Outstanding
  /\ budget' = [budget EXCEPT !.steps = @ - 1] /\ UNCHANGED <<kind, db>>
Key == Press /\ ~view.jumping /\ UNCHANGED <<told, notes>>
Shows(v) == Becomes(v, requests)

Resize ==
  /\ Press /\ UNCHANGED <<told, notes>>
  /\ \E h \in Heights, w \in Wraps :
       <<h, w>> # <<view.height, view.wrap>> /\ Shows([view EXCEPT !.height = h, !.wrap = w])

(* j and k; the detail goes from field to field. *)
LineSteps(v) ==
  IF kind = "detail" THEN {GotoLine(v.page, NextStop(v)), GotoLine(v.page, PrevStop(v))}
  ELSE {Moved(v.page, 1), Moved(v.page, -1)}

Navigate ==
  /\ Key
  /\ \E page \in LineSteps(view) \cup {Top(view.page), Bottom(view.page)}
                 \cup (IF kind = "ids" THEN {PageDown(view.page), PageUp(view.page)}
                       ELSE {ScrollTo(view.page, view.page.cursor + view.page.size),
                             ScrollTo(view.page, view.page.cursor - view.page.size)}) :
       Shows([view EXCEPT !.page = page])

(* JumpController.HandleKey takes every key: an anchor's, or one that only ends
   the mode.                                                                    *)
JumpMode == Key /\ kind # "ids" /\ Shows([view EXCEPT !.jumping = TRUE])
JumpKey ==
  /\ Press /\ view.jumping /\ UNCHANGED <<told, notes>>
  /\ \/ \E line \in Anchors(view) : Shows([view EXCEPT !.jumping = FALSE, !.page = ScrollTo(@, line - 1)])
     \/ Shows([view EXCEPT !.jumping = FALSE])

Refresh == Key /\ Reloads(view)

(* The text does not ask again when the project changes. *)
ChangeProject ==
  /\ Press /\ UNCHANGED <<told, notes>>
  /\ \E p \in (Projects \cup {Nobody}) \ {view.project} :
       LET v == [view EXCEPT !.project = p] IN IF kind = "text" THEN Shows(v) ELSE Reloads(v)

Changes(r) == Key /\ (Busy \/ ~Entering)

(* The entry shown is changed at once and saved whole. *)
SaveCmd(e) ==
  /\ Changes(requests)
  /\ Becomes([view EXCEPT !.entry = e, !.unsaved = view.owner # view.project],
             requests \cup {[entry |-> e, owner |-> view.owner] @@ Asks("save", view.project)})

CycleStatus == kind = "ids" /\ view.known /\ SaveCmd([view.entry EXCEPT !.status = NextStatus(@)])

(* In full and by passages exclude each other. *)
ToggleFull ==
  /\ kind = "ids" /\ view.known
  /\ SaveCmd([view.entry EXCEPT !.full = ~@, !.passages = IF view.entry.full THEN @ ELSE {}])

EditPassages ==
  /\ kind = "ids" /\ view.known /\ At(view, Cursor(view)) = <<"passages", 0>>
  /\ \E passages \in {{}, {Claim(1)}} :
       SaveCmd([view.entry EXCEPT !.passages = passages, !.full = @ /\ passages = {}])

DeleteEntry ==
  /\ kind = "ids" /\ view.known /\ Changes(requests) /\ Becomes(view, requests \cup {Asks("delete", view.project)})

(* On the detail, by the commands for the patents selected. *)
CycleIDSStatus ==
  /\ kind = "detail" /\ view.project # Nobody /\ Changes(requests)
  /\ Becomes(view, requests \cup {Asks("cycle", view.project)})
SetReviewState ==
  /\ kind = "detail" /\ view.project # Nobody /\ Changes(requests)
  /\ Becomes(view, requests \cup {[state |-> "active"] @@ Asks("mark", view.project)})

FetchUSPTOGrant ==
  /\ kind = "text" /\ Key
  /\ Becomes([view EXCEPT !.loading = TRUE, !.asked = TRUE], requests \cup {Asks("xml", view.project)})

EntriesOfOthers(p) ==
  {SaveIDSEntry(db, p, BulkSet(db.ids[p], "accepted")), DeleteIDSEntry(db, p)}
OtherClient ==
  /\ budget.steps > 0 /\ kind # "text" /\ (Busy \/ ~Entering) /\ Cardinality(requests) <= Outstanding
  /\ budget' = [budget EXCEPT !.steps = @ - 1]
  /\ \/ \E p \in Projects : db' \in EntriesOfOthers(p)
     \/ kind = "detail" /\ db.diffs /\ db' = [db EXCEPT !.diffs = FALSE]
  /\ told' = FALSE /\ UNCHANGED <<kind, view, requests, notes>>

-----------------------------------------------------------------------------
(* Passages noted. *)

ToggleVisual ==
  /\ kind = "text" /\ Key
  /\ Shows(IF view.selecting THEN [view EXCEPT !.selecting = FALSE]
           ELSE [view EXCEPT !.selecting = TRUE, !.anchor = view.page.cursor])

(* The first line selected, within the text there is now; the heading of the
   disclosure stands for the paragraph next to it.                            *)
NoteSelection(v) ==
  LET first == Least(v.anchor, v.page.cursor) + 1
      paras == {i \in DOMAIN v.body : v.body[i].about[1] = "Paragraph"}
      below == {i \in paras : i > Cursor(v)}
  IN  IF v.selecting THEN At(v, first)
      ELSE IF At(v, Cursor(v)) = Disclosure /\ below # {} THEN At(v, SmallestOf(below))
      ELSE At(v, Cursor(v))

Flushing == \E r \in requests : r.what = "flush"

(* What is noted while the buffer is being saved is not due: see NotesKept. *)
NoteAdd ==
  /\ kind = "text" /\ Press /\ ~view.jumping /\ UNCHANGED told /\ Shows(view)
  /\ LET at == NoteSelection(view)
     IN  notes' = IF at[1] = "" THEN notes
                  ELSE [buffer |-> notes.buffer \cup {at},
                        due |-> IF Flushing \/ at \in notes.buffer THEN notes.due ELSE notes.due \cup {at}]

(* FlushToIDS and SaveToPatentNote: what is in the buffer now is read, added to
   what is stored, saved, and the buffer of that moment cleared.               *)
Flush ==
  /\ kind = "text" /\ Key /\ view.project # Nobody /\ notes.buffer # {}
  /\ \E to \in {"entry", "note"} :
       Becomes(view, requests \cup {[to |-> to, locators |-> notes.buffer] @@ Asks("flush", view.project)})

FlushReads(r) ==
  /\ r.what = "flush" /\ r.stage = "issued" /\ UNCHANGED <<kind, view, db, told, notes, budget>>
  /\ LET was == IDSEntryOf(db, r.project)
         e == IF was = None THEN Pending ELSE was
     IN  requests' = Rest(r) \cup {[entry |-> [e EXCEPT !.passages = @ \cup r.locators],
                                    saved |-> db.saved \cup r.locators] @@ [r EXCEPT !.stage = "read"]}

(* Slip: the buffer is cleared before the call that may fail. *)
FlushAbandons(r) ==
  /\ r.what = "flush" /\ r.stage \in {"issued", "read"} /\ budget.faults > 0
  /\ budget' = [budget EXCEPT !.faults = @ - 1] /\ requests' = Rest(r)
  /\ notes' = [notes EXCEPT !.buffer = {}] /\ UNCHANGED <<kind, view, db, told>>

FlushFails(r) ==
  /\ r.what = "flush" /\ r.stage \in {"issued", "read"} /\ budget.faults > 0
  /\ budget' = [budget EXCEPT !.faults = @ - 1] /\ requests' = Rest(r)
  /\ UNCHANGED <<kind, view, db, told, notes>>

FlushSaves(r) ==
  /\ r.what = "flush" /\ r.stage = "read" /\ UNCHANGED <<kind, view, budget>>
  /\ db' = IF r.to = "entry" THEN SaveIDSEntry(db, r.project, r.entry) ELSE [db EXCEPT !.saved = r.saved]
  /\ told' = FALSE
  /\ notes' = [notes EXCEPT !.buffer = {}]
  /\ requests' = Rest(r)

-----------------------------------------------------------------------------
Served(r) ==
  \/ ServeLoad(r) \/ ServeDiffs(r) \/ ServeSave(r) \/ ServeDelete(r) \/ ServeMark(r)
  \/ CycleReads(r) \/ CycleSaves(r) \/ ServeXML(r) \/ FlushReads(r) \/ FlushSaves(r) \/ Fails(r) \/ FlushFails(r)

Delivered(r) ==
  Loaded(r) \/ Compared(r) \/ EntryChanged(r) \/ StateChanged(r) \/ XMLFetched(r)

Keys ==
  \/ Navigate \/ Resize \/ JumpMode \/ JumpKey \/ Refresh \/ ChangeProject \/ CycleStatus \/ ToggleFull
  \/ EditPassages \/ DeleteEntry \/ CycleIDSStatus \/ SetReviewState \/ FetchUSPTOGrant
  \/ ToggleVisual \/ NoteAdd \/ Flush

Next == (\E r \in requests : Served(r) \/ Delivered(r)) \/ Keys \/ OtherClient \/ DBChanged

Spec == Init /\ [][Next]_vars

(* Whatever the body shrinks to with the width, the project or the version of the
   text, the cursor is on a line of it and on the page, and so is every anchor a
   jump key could lead to; in the detail j and k can stop there.                  *)
CursorIsOnALine ==
  ~Hidden(view) =>
    /\ Fits(view.page) /\ view.page.total = Len(view.body)
    /\ kind = "detail" => Anchors(view) \subseteq Stops(view)

Settled == told /\ requests = {} /\ view.known /\ ~view.failed

(* A pane for which nothing is on its way shows what is stored: for the active
   project the entry and the review state, of two versions the patent office's
   text.  Apart from that: an edit that could not be saved stays on the screen,
   and the text does not hear of an XML that was fetched for it.  The hint of
   differences may be missing (its answer may come before the pane's) but is
   never shown of what is resolved.                                             *)
RestingPaneIsFresh ==
  Settled =>
    /\ kind = "detail" =>
         /\ view.entry = IDSEntryOf(db, view.project)
         /\ view.project # Nobody => view.state = db.state[view.project]
         /\ view.hint => db.diffs
    /\ kind = "ids" /\ view.project # Nobody /\ ~view.unsaved =>
         /\ view.owner = view.project
         /\ view.entry \in {db.ids[view.project]} \cup (IF db.ids[view.project] = None THEN {Pending} ELSE {})
    /\ kind = "text" => /\ view.version = "uspto" => db.xml
                        /\ view.version = "google" => ~db.xml \/ view.asked \/ view.patchy

(* "loading" is shown only while the answer that will end it is on its way. *)
LoadIsAwaited ==
  view.loading /\ ~view.asked => \E r \in requests : r.what = "load" /\ r.live

(* However entries are cycled, set, edited, deleted and saved again, a submitted one
   has the date of its submission and what is not sent has none.                    *)
SentIsDated ==
  \A p \in Projects :
    /\ db.ids[p].status = "submitted" => db.ids[p].sent
    /\ db.ids[p].status \in {"pending", "ignored"} => ~db.ids[p].sent

(* A passage noted while no save was under way is in the buffer, in an entry or in
   the patent's note, whichever calls fail.  One noted during a save is not: the
   save clears the buffer of that moment.                                         *)
NotesKept ==
  notes.due \subseteq
    notes.buffer \cup db.saved \cup UNION {db.ids[p].passages : p \in {q \in Projects : db.ids[q] # None}}
=============================================================================
