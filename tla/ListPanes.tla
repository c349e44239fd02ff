------------------------------ MODULE ListPanes ------------------------------
(***************************************************************************)
(* The panes that load a whole list and search and sort it themselves:     *)
(* the projects ("projects", pane/projects.go), the patents of no project  *)
(* ("orphans", pane/orphans.go), the notes of a project ("notes",          *)
(* pane/all_notes.go), and the overlay of what was done ("history",        *)
(* overlay/history.go), whose list it is opened with.                      *)
(*                                                                         *)
(* An answer says which request it answers and only the newest counts.     *)
(* A row is its id and the place it had in the answer, which orders the    *)
(* notes by date.  What a row says is left out but for its rank in each    *)
(* column and the searches it matches.                                     *)
(***************************************************************************)
EXTENDS Integers, SequencesExt, FiniteSets, Paginator

CONSTANTS
  Kinds,        \* the panes shown
  Ids,          \* of rows, ascending
  Changing,     \* of them, those others add, drop or rewrite
  Owners,       \* projects notes are of
  Titles,       \* the rank of a row by its text
  States,       \* and by the state of its fetch
  Searches,     \* what may be typed: the rows it matches in any column
  Scopes,       \* of the columns searched: the rows that match there, all first
  LastUsed,     \* the project used last
  Window,       \* rows a window of the orphans moves by: it holds twice as many
  Heights,      \* rows a page may have
  Steps,        \* a bound: keys, windows and changes by others, by pane
  Outstanding,  \* a bound: requests under way at a key or a change
  Faults        \* a bound: requests that fail

ListsAssumption ==
  /\ Kinds \subseteq {"projects", "orphans", "notes", "history"}
  /\ Ids \subseteq Nat /\ Changing \subseteq Ids /\ Searches \subseteq SUBSET Ids /\ LastUsed \in Ids
  /\ {Titles, States} \subseteq [Ids -> Nat] /\ Scopes # <<>> /\ Head(Scopes) = Ids
  /\ Heights \subseteq Nat \ {0} /\ Window \in Nat \ {0}
  /\ Steps \in [Kinds -> Nat] /\ {Outstanding, Faults} \subseteq Nat

VARIABLES
  kind,      \* the pane that is shown
  view,      \* its fields
  requests,  \* calls under way, and notes about to be opened
  db,        \* the rows of each owner, or of nobody, as the daemon lists them
  told,      \* every change of db has been announced to the pane
  down,      \* the program panicked
  budget     \* steps and faults left

vars == <<kind, view, requests, db, told, down, budget>>

Nobody == 0
Everything == Ids   \* an empty search
Loaded(kinds) == kind \in kinds
Searching == {"orphans", "notes"}
Ascending(S) == SetToSortSeq(S, <)

-----------------------------------------------------------------------------
(* The rows of a pane. *)

View(page, sort, up, height) ==
  [page |-> NewPaginator(page), all |-> <<>>, rows |-> <<>>, loading |-> TRUE, failed |-> FALSE,
   owner |-> Nobody, base |-> 0, height |-> height,
   typing |-> FALSE, input |-> Everything, query |-> Everything, scope |-> 1,
   focus |-> -1, sort |-> sort, up |-> up,
   visual |-> FALSE, anchor |-> 0, saved |-> <<>>, chord |-> FALSE]

(* What column c of a pane sorts by. *)
Rank(k, c, row) ==
  CASE k = "orphans" -> <<row.id, States[row.id], Titles[row.id]>>[c + 1]
    [] k = "notes" -> <<row.id, Titles[row.id], row.at>>[c + 1]
    [] OTHER -> row.at

Sorted(v, rows) ==
  SortSeq(rows, LAMBDA a, b : IF v.up THEN Rank(kind, v.sort, a) < Rank(kind, v.sort, b)
                              ELSE Rank(kind, v.sort, b) < Rank(kind, v.sort, a))

Matching(v) == SelectSeq(v.all, LAMBDA row : row.id \in v.query \cap Scopes[v.scope])

(* Filter, sort, and a cursor past the end goes to the top. *)
ApplyFilter(v) ==
  LET rows == Sorted(v, Matching(v))
      page == SetTotal(v.page, Len(rows))
  IN  [v EXCEPT !.rows = rows, !.page = IF page.cursor >= Len(rows) THEN Top(page) ELSE page]

ClearVisual(v) == [v EXCEPT !.visual = FALSE, !.anchor = 0]
SaveVisual(v) == [v EXCEPT !.saved = <<v.anchor, v.page.cursor>>]

ApplyHistoryView(v) ==
  LET rows == Sorted(v, Matching(v))
  IN  ClearVisual([v EXCEPT !.rows = rows, !.page = Top(SetTotal(@, Len(rows)))])

(* What is drawn gives the page its size: nothing while there is no list. *)
Drawn(v) ==
  IF v.failed \/ IF kind = "history" THEN v.rows = <<>> ELSE v.all = <<>>
  THEN v ELSE [v EXCEPT !.page = SetPageSize(@, v.height)]

Shows(v, rs) == view' = Drawn(v) /\ requests' = rs

-----------------------------------------------------------------------------
(* Requests. *)

Load(v) ==
  [what |-> "load", live |-> TRUE, stage |-> "issued", owner |-> v.owner,
   offset |-> IF kind = "orphans" THEN (v.page.cursor \div Window) * Window ELSE 0]

Superseded == {IF r.what = "load" THEN [r EXCEPT !.live = FALSE] ELSE r : r \in requests}

(* Without a project there are no notes to ask for; a request that is under way
   stays the newest.                                                            *)
Reloads(v) ==
  IF kind = "notes" /\ v.owner = Nobody
  THEN Shows([v EXCEPT !.loading = FALSE], requests)
  ELSE Shows([v EXCEPT !.loading = TRUE], Superseded \cup {Load(v)})

NewProjects(h) == View(10, 0, TRUE, h)
NewOrphans(h) == View(20, 0, TRUE, h)
NewAllNotes(h) == View(20, 2, TRUE, h)
Listed(ids) == [i \in DOMAIN ids |-> [id |-> ids[i], at |-> i]]
NewHistoryOverlay(h) ==
  ApplyHistoryView([View(1, 0, FALSE, h) EXCEPT !.all = Listed(Ascending(Ids)), !.loading = FALSE])

Init ==
  /\ kind \in Kinds
  /\ \E h \in Heights :
       view = CASE kind = "projects" -> NewProjects(h)
                [] kind = "orphans" -> NewOrphans(h)
                [] kind = "notes" -> [NewAllNotes(h) EXCEPT !.owner = LastUsed]
                [] kind = "history" -> Drawn(NewHistoryOverlay(h))
  /\ requests = IF kind = "history" THEN {} ELSE {Load(view)}
  /\ \E listed \in {{}, Ids} :
       db = [o \in Owners \cup {Nobody} |->
              IF kind \in {"history"} \/ (kind = "notes") = (o = Nobody) THEN <<>> ELSE Ascending(listed)]
  /\ told = TRUE /\ down = FALSE
  /\ budget = [steps |-> Steps[kind], faults |-> Faults]

(* The daemon: ListOrphanPatents by its limit, the others whole. *)
Answer(r) ==
  LET all == Listed(db[r.owner])
      end == Least(r.offset + 2 * Window, Len(all))
  IN  IF kind # "orphans" THEN all
      ELSE IF r.offset >= end THEN <<>> ELSE SubSeq(all, r.offset + 1, end)

Served(r) ==
  /\ ~down /\ r.what = "load" /\ r.stage = "issued"
  /\ requests' = (requests \ {r}) \cup {[r EXCEPT !.stage = "answered"] @@ [rows |-> Answer(r)]}
  /\ UNCHANGED <<kind, view, db, told, down, budget>>

Failed(r) ==
  /\ ~down /\ r.what = "load" /\ r.stage = "issued" /\ budget.faults > 0
  /\ requests' = (requests \ {r}) \cup {[r EXCEPT !.stage = "failed"]}
  /\ budget' = [budget EXCEPT !.faults = @ - 1]
  /\ UNCHANGED <<kind, view, db, told, down>>

(* Others add, drop or rewrite a row; a note that is rewritten is the newest. *)
Edited(seq, id) ==
  LET rest == SelectSeq(seq, LAMBDA x : x # id)
  IN  {rest, IF kind = "notes" THEN Append(rest, id) ELSE Ascending(ToSet(seq) \cup {id})} \ {seq}

Others ==
  /\ ~down /\ Loaded({"projects", "orphans", "notes"}) /\ budget.steps > 0
  /\ Cardinality(requests) <= Outstanding
  /\ budget' = [budget EXCEPT !.steps = @ - 1]
  /\ \E o \in IF kind = "notes" THEN Owners ELSE {Nobody}, id \in Changing :
       \E seq \in Edited(db[o], id) : db' = [db EXCEPT ![o] = seq]
  /\ told' = FALSE
  /\ UNCHANGED <<kind, view, requests, down>>

-----------------------------------------------------------------------------
(* Messages. *)

Running == ~down /\ UNCHANGED <<kind, db, down, budget>>
Message(r) == Running /\ UNCHANGED told /\ r.what = "load" /\ r.stage # "issued"
Done(r) == requests \ {r}

Superfluous(r) == Message(r) /\ ~r.live /\ Shows(view, Done(r))

LoadFails(r) ==
  /\ Message(r) /\ r.live /\ r.stage = "failed"
  /\ Shows([view EXCEPT !.loading = FALSE, !.failed = TRUE], Done(r))

Arrived(r) == [view EXCEPT !.loading = FALSE, !.failed = FALSE, !.all = r.rows, !.base = r.offset]

(* The cursor goes to the project used last, wherever the user had it. *)
ProjectsLoaded(r) ==
  /\ Message(r) /\ kind = "projects" /\ r.live /\ r.stage = "answered"
  /\ LET v == [Arrived(r) EXCEPT !.rows = r.rows, !.page = SetTotal(@, Len(r.rows))]
         there == {i \in DOMAIN r.rows : r.rows[i].id = LastUsed}
     IN  Shows(IF there = {} THEN v ELSE [v EXCEPT !.page = GotoLine(@, CHOOSE i \in there : TRUE)], Done(r))

OrphansLoaded(r) ==
  /\ Message(r) /\ kind = "orphans" /\ r.live /\ r.stage = "answered"
  /\ Shows(ApplyFilter(Arrived(r)), Done(r))

NotesLoaded(r) ==
  /\ Message(r) /\ kind = "notes" /\ r.live /\ r.stage = "answered"
  /\ Shows(ApplyFilter(Arrived(r)), Done(r))

(* The pane's Refresh, sent to every pane. *)
DBChanged ==
  /\ Running /\ ~told /\ told' = TRUE
  /\ Reloads([view EXCEPT !.loading = TRUE])

-----------------------------------------------------------------------------
(* Keys and windows. *)

Press ==
  /\ ~down /\ budget.steps > 0 /\ Cardinality(requests) <= Outstanding
  /\ budget' = [budget EXCEPT !.steps = @ - 1]
  /\ UNCHANGED <<kind, db, told>>
User == Press /\ UNCHANGED down
Becomes(v) == Shows(v, requests)

Resize == \E h \in Heights \ {view.height} : User /\ Becomes([view EXCEPT !.height = h])

Motions == {Moved(view.page, 1), Moved(view.page, -1), PageDown(view.page), PageUp(view.page),
            Top(view.page), Bottom(view.page)}

Navigate ==
  /\ User /\ ~view.typing /\ (kind = "history" => view.rows # <<>>)
  /\ \E page \in Motions : Becomes([view EXCEPT !.page = page, !.chord = FALSE])

Refresh == User /\ Loaded({"projects", "orphans", "notes"}) /\ ~view.typing /\ Reloads(view)

FocusColumn ==
  /\ User /\ Loaded(Searching) /\ ~view.typing
  /\ \E step \in {1, 2} : Becomes([view EXCEPT !.focus = (@ + step) % 3])

ApplySort ==
  /\ User /\ Loaded(Searching) /\ ~view.typing /\ view.focus >= 0
  /\ Becomes(ApplyFilter([view EXCEPT !.up = IF view.sort = view.focus THEN ~@ ELSE TRUE, !.sort = view.focus]))

ToggleSort ==
  /\ User /\ kind = "notes" /\ ~view.typing
  /\ Becomes(ApplyFilter([view EXCEPT !.sort = IF @ = 2 THEN 0 ELSE 2]))

FindOpen ==
  /\ User /\ Loaded(Searching) /\ ~view.typing
  /\ Becomes(ApplyFilter([view EXCEPT !.typing = TRUE, !.query = Everything]))

(* Characters, Backspace, ctrl+w; Tab; Enter; Esc. *)
FindKey ==
  /\ User /\ Loaded(Searching) /\ view.typing
  /\ \/ \E q \in Searches \cup {Everything} : Becomes(ApplyFilter([view EXCEPT !.query = q]))
     \/ Becomes(ApplyFilter([view EXCEPT !.scope = (@ % Len(Scopes)) + 1]))
     \/ Becomes([view EXCEPT !.typing = FALSE])
     \/ Becomes(ApplyFilter([view EXCEPT !.typing = FALSE, !.query = Everything]))

ChangeProject ==
  /\ User /\ kind = "notes"
  /\ \E o \in Owners \cup {Nobody} : Reloads([view EXCEPT !.owner = o, !.loading = TRUE])

(* The number of the selected note is read by a goroutine, later. *)
OpenKey ==
  /\ User /\ kind = "notes" /\ ~view.typing /\ view.page.cursor < Len(view.rows)
  /\ Shows(view, requests \cup {[what |-> "open", row |-> view.page.cursor + 1]})

OpenSelectedNote(r) ==
  /\ ~down /\ r.what = "open"
  /\ down' = (r.row \notin DOMAIN view.rows)
  /\ requests' = requests \ {r}
  /\ UNCHANGED <<kind, view, db, told, budget>>

(* The history's keys: the search is applied by Enter only. *)
HistoryTyping ==
  /\ User /\ kind = "history" /\ view.typing
  /\ \/ \E q \in Searches \cup {Everything} : Becomes([view EXCEPT !.input = q])
     \/ Becomes([view EXCEPT !.typing = FALSE, !.input = view.query])
     \/ Becomes(ApplyHistoryView([view EXCEPT !.typing = FALSE, !.query = view.input]))

HistoryFilter ==
  /\ User /\ kind = "history" /\ ~view.typing
  /\ \/ Becomes([view EXCEPT !.typing = TRUE, !.input = view.query])
     \/ Becomes(ApplyHistoryView([view EXCEPT !.up = ~@]))
     \/ Becomes(IF view.query = Everything /\ ~view.up THEN view
                ELSE ApplyHistoryView([view EXCEPT !.query = Everything, !.input = Everything, !.up = FALSE]))

(* The paginator's own keys: g, then g, v, a or another; v; Esc. *)
HistoryVisual ==
  /\ User /\ kind = "history" /\ ~view.typing /\ view.rows # <<>>
  /\ LET v == [view EXCEPT !.chord = FALSE]
         all == [v EXCEPT !.visual = TRUE, !.anchor = 0, !.page = Bottom(@)]
     IN  \/ ~view.chord /\ Becomes([v EXCEPT !.chord = TRUE])
         \/ view.chord /\ Becomes(IF v.visual THEN [all EXCEPT !.saved = SaveVisual(v).saved] ELSE all)
         \/ /\ view.chord /\ v.saved # <<>>
            /\ Becomes([v EXCEPT !.visual = TRUE, !.anchor = v.saved[1], !.page = ClampAt(@, v.saved[2])])
         \/ /\ ~view.chord
            /\ Becomes(IF v.visual THEN ClearVisual(SaveVisual(v))
                       ELSE [v EXCEPT !.visual = TRUE, !.anchor = v.page.cursor])

(* Enter replays the row under the cursor. *)
HistoryReplay ==
  /\ Press /\ kind = "history" /\ ~view.typing /\ view.rows # <<>>
  /\ down' = (view.page.cursor + 1 \notin DOMAIN view.rows)
  /\ Becomes([view EXCEPT !.chord = FALSE])

-----------------------------------------------------------------------------
ListKeys ==
  \/ Navigate \/ Resize \/ Refresh \/ FocusColumn \/ ApplySort \/ ToggleSort \/ FindOpen \/ FindKey
  \/ ChangeProject \/ OpenKey \/ HistoryTyping \/ HistoryFilter \/ HistoryVisual \/ HistoryReplay

Next ==
  \/ \E r \in requests :
       \/ Served(r) \/ Failed(r) \/ Superfluous(r) \/ LoadFails(r)
       \/ ProjectsLoaded(r) \/ OrphansLoaded(r) \/ NotesLoaded(r) \/ OpenSelectedNote(r)
  \/ ListKeys \/ Others \/ DBChanged

Spec == Init /\ [][Next]_vars

-----------------------------------------------------------------------------
(* The cursor is on a row and on the page, and the rows counted are the rows
   there are.                                                                *)
CursorIsOnTheList == Fits(view.page) /\ view.page.total = Len(view.rows)

(* At rest, with the last request answered, the pane has the daemon's list of
   what it shows, and its rows are those of it that match, in order.          *)
RestingListIsFresh ==
  /\ told /\ requests = {} /\ ~view.failed /\ Loaded({"projects", "orphans", "notes"})
     /\ (kind = "notes" => view.owner # Nobody) =>
       view.all = Answer([owner |-> view.owner, offset |-> view.base])
  /\ kind # "projects" => view.rows = Sorted(view, Matching(view))

(* The pane says it is loading only while the newest request is under way. *)
NewestIsAwaited == view.loading => \E r \in requests : r.what = "load" /\ r.live
=============================================================================
