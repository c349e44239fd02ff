------------------------------- MODULE EdgePane -------------------------------
(***************************************************************************)
(* The pane of one kind of a patent's family edges, its citations say      *)
(* (internal/tui/pane/citations.go).  It was written after the patent list *)
(* and repeats most of it: a page loaded from the daemon, a find bar,      *)
(* visual selection.  What the two share of state and of helpers is        *)
(* CatalogPane's here; the handlers are this pane's own.                   *)
(*                                                                         *)
(* Two things are modelled here only.  The table shows as many columns as  *)
(* the window and the project give it, and one of them has the focus that  *)
(* a sort applies to.  And after every page the pane asks for what the     *)
(* classes on it mean.                                                     *)
(***************************************************************************)
EXTENDS CatalogPane

CONSTANT Widths   \* columns of text the terminal may have

EdgesAssumption == CatalogAssumption /\ Widths \subseteq Nat /\ Widths # {}

VARIABLES
  failed,    \* history: the newest descriptions could not be had
  down,      \* the program panicked
  narrowed   \* history: the table lost columns since the focus was set

edgeVars == <<pane, requests, db, told, landing, again, budget, failed, down, narrowed>>

-----------------------------------------------------------------------------
(* The columns of a patent table, and the focus among them. *)

(* patentTableColumns: what a table of a width shows, with room for more each
   time but once.                                                             *)
Columns(width, project) ==
  LET left == <<"index", "number", "kind", "title">>
      counts == <<"citations", "citedBy", "parents">>
      classed == left \o <<"inventor", "class">>
      dated == classed \o <<"expires">>
      right == <<"ids", "state">>
  IN  CASE width >= 145 -> dated \o counts \o <<"tags">> \o
                           (IF project THEN <<"provenance">> ELSE <<>>) \o right
        [] width \in 130..144 -> dated \o counts \o right
        [] width \in 110..129 -> dated \o <<"tags">> \o right
        [] width \in 80..109 -> dated \o <<"state">>
        [] width \in 65..79 -> classed \o <<"state">>
        [] width < 65 -> left \o <<"state">>

(* PatentTableColumns: some sort only within a project. *)
Sortable(project) ==
  {"number", "kind", "title", "inventor", "class", "expires", "state"}
    \union IF project THEN {"tags", "provenance", "ids"} ELSE {}

Unfocused == -1

(* moveSortableColumn: the next column that sorts, around the ends. *)
MoveSortableColumn(cols, sorts, current, step) ==
  LET n == Len(cols)
      start == IF current < 0 /\ step < 0 THEN 0 ELSE Most(Least(current, n - 1), Unfocused)
      At(k) == (start + k * step) % n
      there == {k \in 1..n : cols[At(k) + 1] \in sorts}
  IN  IF there = {} THEN Unfocused ELSE At(Min(there))

ClampFocused(cols, sorts, focus) ==
  IF focus < 0 THEN Unfocused
  ELSE IF focus < Len(cols) /\ cols[focus + 1] \in sorts THEN focus
  ELSE MoveSortableColumn(cols, sorts, focus, 1)

(* currentCols goes by the width of the last drawing. *)
CurrentCols(p) == Columns(Most(p.drawn, 80), p.project)
MovedFocus(p, step) ==
  [p EXCEPT !.focus = MoveSortableColumn(CurrentCols(p), Sortable(p.project), @, step)]
ClampedFocus(p) == [p EXCEPT !.focus = ClampFocused(CurrentCols(p), Sortable(p.project), @)]

-----------------------------------------------------------------------------
(* The pane. *)

NewEdges(h, w) ==
  NewPane(h) @@ [focus |-> Unfocused, sort |-> "number", width |-> w, drawn |-> 0,
                 described |-> {}]

(* A mounted pane has been told the size of its window and its project. *)
EdgesInit ==
  /\ \E h \in Heights, w \in Widths : pane = NewEdges(h, w)
  /\ requests = {[kind |-> "load", live |-> TRUE, stage |-> "issued",
                  offset |-> 0, limit |-> pane.page.size],
                 [kind |-> "columns", live |-> TRUE, stage |-> "asked"]}
  /\ db = Listed /\ told = TRUE /\ landing = None /\ again = 0
  /\ budget = [events |-> Events, faults |-> Faults]
  /\ failed = FALSE /\ down = FALSE /\ narrowed = FALSE

(* View *)
EdgesDrawn(p) == [Drawn(p) EXCEPT !.drawn = p.width]

(* Drawing a narrower table may take the column away that has the focus. *)
Lost(p) == Len(CurrentCols(EdgesDrawn(p))) < Len(CurrentCols(pane))

EdgesBecome(p) ==
  /\ pane' = EdgesDrawn(p)
  /\ narrowed' = (narrowed \/ Lost(p))
  /\ UNCHANGED <<landing, down>>

EdgesRefocus(p) ==
  /\ pane' = EdgesDrawn(p)
  /\ narrowed' = FALSE
  /\ UNCHANGED <<landing, down>>

EdgesReload(p) == EdgesBecome([p EXCEPT !.loading = TRUE]) /\ requests' = Load(p)
EdgesStay(p) == EdgesBecome(p) /\ UNCHANGED requests

(* An index past the columns. *)
SortPanics(p) == p.focus >= Len(CurrentCols(p))

EdgesTouch == ~down /\ Press /\ UNCHANGED failed
EdgesKey == EdgesTouch /\ ~pane.finding
EdgesFindKey == EdgesTouch /\ pane.finding

-----------------------------------------------------------------------------
(* Keys. *)

EdgesMove(page) ==
  LET moved == [pane EXCEPT !.page = page]
      p == IF SelectedRow(moved) = None THEN moved
           ELSE [moved EXCEPT !.last = SelectedRow(moved)]
  IN  IF page.offset # pane.page.offset THEN EdgesReload(p) ELSE EdgesStay(p)

EdgesNavigate ==
  /\ EdgesKey
  /\ \/ \E delta \in {-1, 1} : EdgesMove(Moved(pane.page, delta))
     \/ EdgesMove(PageDown(pane.page)) \/ EdgesMove(PageUp(pane.page))
     \/ EdgesMove(Top(pane.page)) \/ EdgesMove(Bottom(pane.page))

EdgesRefresh == EdgesKey /\ EdgesReload(ClearVisual(pane))

(* focusNext, focusPrev *)
EdgesFocus(step) == EdgesKey /\ EdgesRefocus(MovedFocus(pane, step)) /\ UNCHANGED requests

(* applySort *)
EdgesSort ==
  LET key == CurrentCols(pane)[pane.focus + 1]
  IN  /\ EdgesKey /\ pane.focus >= 0
      /\ IF SortPanics(pane)
         THEN down' = TRUE /\ UNCHANGED <<pane, requests, landing, narrowed>>
         ELSE /\ key \in Sortable(pane.project)
              /\ EdgesReload(ClearVisual([pane EXCEPT !.sort = key,
                                            !.up = IF key = pane.sort THEN ~@ ELSE TRUE]))

(* applyFilter with a class term, which keeps the search, or "clear"; and
   ApplyClassificationFilter, which does not.                               *)
EdgesFilter ==
  /\ EdgesKey
  /\ \E class, search \in BOOLEAN :
       /\ search => class /\ pane.search
       /\ EdgesReload(AtTop([pane EXCEPT !.class = class, !.search = search]))

EdgesFindOpen ==
  /\ EdgesKey
  /\ LET input == IF pane.search THEN "text" ELSE ""
     IN  EdgesStay([pane EXCEPT !.finding = TRUE, !.input = input, !.before = input])

(* applyFindInput *)
EdgesFindInput(p, input) ==
  [p EXCEPT !.input = input, !.search = input = "text",
            !.class = CASE input = "class:x" -> TRUE [] input = "class:" -> @ [] OTHER -> FALSE]

EdgesFindType ==
  /\ EdgesFindKey
  /\ \E input \in {"", "text", "class:", "class:x"} \ {pane.input} :
       EdgesBecome(AtTop([EdgesFindInput(pane, input) EXCEPT !.loading = TRUE]))
  /\ requests' = Issued([kind |-> "debounce", live |-> TRUE, stage |-> "waiting"])

EdgesFindConfirm ==
  EdgesFindKey /\ EdgesStay([EdgesFindInput(pane, pane.input) EXCEPT !.finding = FALSE])

EdgesFindCancel ==
  /\ EdgesFindKey
  /\ LET p == AtTop([EdgesFindInput(pane, pane.before) EXCEPT !.finding = FALSE])
     IN  /\ EdgesBecome([p EXCEPT !.loading = TRUE])
         /\ requests' = {r \in Load(p) : r.kind # "debounce"}

EdgesToggleVisual ==
  /\ EdgesKey
  /\ EdgesStay(IF pane.visual THEN ClearVisual(SaveVisual(pane))
               ELSE [pane EXCEPT !.visual = TRUE, !.anchor = pane.page.cursor])

(* Also what a command on the selection does to it when done. *)
EdgesSelectClear ==
  EdgesKey /\ pane.visual /\ EdgesStay(ClearVisual(SaveVisual(pane)))

EdgesReselectLast ==
  LET targets == IF pane.saved # <<>> \/ pane.last = None THEN ToSet(pane.saved)
                 ELSE {pane.last}
      there == {i \in DOMAIN pane.rows : pane.rows[i] \in targets}
      Place(i) == pane.base + i - 1
  IN  /\ EdgesKey /\ there # {}
      /\ EdgesStay([ClearVisual(pane) EXCEPT !.visual = TRUE, !.anchor = Place(Min(there)),
                                             !.page = ScrollTo(@, Place(Max(there)))])

(* selectAllVisual, loadAllPages *)
EdgesSelectAll ==
  /\ EdgesKey /\ pane.page.total > 0
  /\ EdgesBecome([SaveVisual(pane) EXCEPT !.visual = TRUE, !.anchor = 0, !.page = Bottom(@)])
  /\ requests' = Issued([kind |-> "all", live |-> TRUE, stage |-> "asked",
                         query |-> CurrentQuery(pane), limit |-> pane.page.total])

-----------------------------------------------------------------------------
(* Messages of the application. *)

(* ReviewStateChangedMsg and the two of IDS entries: patched into the rows, or
   loaded for one that is not there.                                           *)
EdgesRowChanged ==
  /\ EdgesTouch /\ pane.project
  /\ \E k \in Keys, ids \in BOOLEAN :
       IF k \notin ToSet(pane.rows) /\ (IF ids THEN pane.rows # <<>> ELSE ~pane.loading)
       THEN EdgesReload(pane) ELSE EdgesStay(pane)

(* ProjectChangedMsg: the focus is looked at when the columns come. *)
EdgesChangeProject ==
  /\ EdgesTouch
  /\ LET p == ClearVisual([AtTop(pane) EXCEPT !.project = ~@, !.base = 0])
     IN  /\ EdgesBecome([p EXCEPT !.loading = TRUE])
         /\ requests' = {r \in Load(p) : r.kind # "columns" \/ r.stage = "answered"}
                          \union {[kind |-> "columns", live |-> TRUE, stage |-> "asked"]}

(* ResizeMsg looks at the focus too, by the width before it. *)
EdgesResize ==
  /\ EdgesTouch
  /\ \E h \in Heights, w \in Widths :
       LET clamped == [ClampedFocus(pane) EXCEPT !.height = h, !.width = w]
           p == [clamped EXCEPT !.page = SetPageSize(@, h + Chrome)]
       IN  /\ <<h, w>> # <<pane.height, pane.width>>
           /\ IF h + Chrome = pane.page.size THEN EdgesStay(clamped)
              ELSE IF p.page.offset # pane.page.offset \/ Len(pane.rows) # p.page.size
              THEN EdgesReload(p)
              ELSE EdgesStay(p)

Quietly == ~down /\ UNCHANGED <<db, told, budget>>

(* patentTableColumnsLoadedMsg *)
EdgesColumnsLoaded(r) ==
  /\ r.kind = "columns" /\ r.live /\ r.stage \in {"answered", "failed"}
  /\ Quietly /\ UNCHANGED <<again, failed>>
  /\ IF r.stage = "failed" THEN EdgesBecome(pane) ELSE EdgesRefocus(ClampedFocus(pane))
  /\ requests' = Without(r, {})

-----------------------------------------------------------------------------
(* Answers. *)

EdgesAnswer(r) ==
  /\ ~down /\ UNCHANGED <<failed, down, narrowed>>
  /\ Ask(r) \/ Answer(r) \/ Fail(r) \/ Drop(r) \/ DebounceEnds(r)

EdgesLoadFails(r) ==
  /\ r.kind = "load" /\ r.live /\ r.stage = "failed"
  /\ Quietly /\ UNCHANGED <<again, failed>>
  /\ EdgesBecome([pane EXCEPT !.loading = FALSE, !.failed = TRUE])
  /\ requests' = Without(r, {})

(* loadClassDescs of what is on the page; every patent has a class of its own. *)
AskDescriptions(rows) ==
  [kind |-> "descs", live |-> TRUE, stage |-> "asked", of |-> ToSet(rows)]

(* citationsLoadedMsg *)
EdgesLoaded(r) ==
  LET p == [pane EXCEPT !.loading = FALSE, !.failed = FALSE, !.rows = r.rows,
                        !.base = r.offset, !.page = SetTotal(@, r.total), !.shown = r.query]
  IN  /\ r.kind = "load" /\ r.live /\ r.stage = "answered"
      /\ Quietly
      /\ IF p.page.offset # r.offset
         THEN /\ EdgesBecome([p EXCEPT !.loading = TRUE]) /\ again' = again + 1
              /\ requests' = Load(p) \ {[r EXCEPT !.live = FALSE]}
              /\ UNCHANGED failed
         ELSE IF r.rows = <<>>
         THEN /\ EdgesBecome([p EXCEPT !.described = {}]) /\ requests' = Without(r, {})
              /\ UNCHANGED <<again, failed>>
         ELSE /\ EdgesBecome(p) /\ UNCHANGED again
              /\ requests' = Issued(AskDescriptions(r.rows)) \ {r}
              /\ failed' = FALSE

(* citationsAllPagesLoadedMsg *)
EdgesAllLoaded(r) ==
  /\ r.kind = "all" /\ r.live /\ r.stage \in {"answered", "failed"}
  /\ Quietly /\ UNCHANGED <<again, failed>>
  /\ EdgesBecome(IF r.stage = "failed" THEN [pane EXCEPT !.failed = TRUE]
                 ELSE [pane EXCEPT !.all = r.numbers])
  /\ requests' = Without(r, {})

(* citationsClassDescsMsg *)
EdgesDescribed(r) ==
  /\ r.kind = "descs" /\ r.live /\ r.stage \in {"answered", "failed"}
  /\ Quietly /\ UNCHANGED again
  /\ EdgesBecome(IF r.stage = "failed" THEN pane ELSE [pane EXCEPT !.described = r.of])
  /\ requests' = Without(r, {})
  /\ failed' = (r.stage = "failed") 

(* Crawls change the edges; the announcement refreshes every pane. *)
EdgesEdit == ~down /\ Edit /\ UNCHANGED <<failed, down, narrowed>>

EdgesDBChanged ==
  /\ ~down /\ ~told /\ told' = TRUE /\ again' = 0
  /\ EdgesReload(ClearVisual(pane))
  /\ UNCHANGED <<db, budget, failed>>

EdgesUser ==
  \/ EdgesNavigate \/ EdgesRefresh \/ (\E step \in {1, -1} : EdgesFocus(step)) \/ EdgesSort
  \/ EdgesFilter \/ EdgesFindOpen \/ EdgesFindType \/ EdgesFindConfirm \/ EdgesFindCancel
  \/ EdgesToggleVisual \/ EdgesSelectClear \/ EdgesReselectLast \/ EdgesSelectAll
  \/ EdgesRowChanged \/ EdgesChangeProject \/ EdgesResize

EdgesNext ==
  \/ EdgesUser
  \/ \E r \in requests :
       \/ EdgesAnswer(r) \/ EdgesColumnsLoaded(r) \/ EdgesLoadFails(r) \/ EdgesLoaded(r)
       \/ EdgesAllLoaded(r) \/ EdgesDescribed(r)
  \/ EdgesEdit \/ EdgesDBChanged

EdgesSpec == EdgesInit /\ [][EdgesNext]_edgeVars

-----------------------------------------------------------------------------
(* Properties.  Those of the patent list hold of this pane too. *)

AtRest == Settled /\ \A r \in requests : r.live => r.kind # "descs"

(* Every row on the screen has its class described, when the last request for
   descriptions succeeded: pages and descriptions that overtake one another do
   not leave those of another page.                                            *)
RowsAreDescribed == AtRest /\ ~failed /\ ~pane.loading => ToSet(pane.rows) \subseteq pane.described

(* The focus is on a column of the table, and sorting does not index past it,
   unless the table lost columns since the focus was last set or checked.     *)
FocusIsAColumn == ~narrowed => ~down /\ pane.focus < Len(CurrentCols(pane))
=============================================================================
