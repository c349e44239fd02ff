----------------------------- MODULE CatalogPane -----------------------------
(***************************************************************************)
(* The patent list of the terminal frontend (internal/tui/pane/catalog.go) *)
(* between a user who presses keys and a daemon that answers later.        *)
(*                                                                         *)
(* The pane is an Elm-style component: a key or a message is handled to    *)
(* the end, then the pane is drawn, and drawing sets the page size.  What  *)
(* a handler asks of the daemon runs in a goroutine of its own, so answers *)
(* come back in any order; each carries the id of its request and counts   *)
(* only while that is the newest id of its kind.                           *)
(*                                                                         *)
(* The list is a set of sort positions.  A query is what the list is       *)
(* narrowed to: the text of the find bar, a class term of the filter, the  *)
(* highlighted relations, and a direction.                                 *)
(***************************************************************************)
EXTENDS Paginator, Sequences, FiniteSets, SequencesExt

CONSTANTS
  Keys,         \* patents, as their positions in the sort order
  Found,        \* those the text of a search matches
  Classed,      \* those the class term matches
  Members,      \* those of the project the user may make active
  Listed,       \* those the daemon lists at first
  Relations,    \* the neighbours of each patent
  Heights,      \* table rows the terminal has room for
  Chrome,       \* lines ResizeMsg still counts that View no longer has
  DefaultPage,  \* defaultPageSize, until the pane is told the window's size
  Events,       \* a bound: what the user and others do and what fails, together
  Outstanding,  \* a bound: requests under way when the user does something
  Faults        \* a bound: of the events, those that are not the user's

CatalogAssumption ==
  /\ Keys \subseteq Nat \ {0}
  /\ Found \subseteq Keys /\ Classed \subseteq Keys /\ Members \subseteq Keys
  /\ Listed \subseteq Keys
  /\ Relations \in [Keys -> SUBSET Keys]
  /\ Heights \subseteq Nat \ {0} /\ Heights # {}
  /\ Chrome \in Nat /\ DefaultPage \in Nat \ {0}
  /\ Events \in Nat /\ Outstanding \in Nat /\ Faults \in Nat

VARIABLES
  pane,      \* the Catalog
  requests,  \* commands not finished and messages not delivered
  db,        \* the patents the daemon lists
  told,      \* every change of db has been announced to the pane
  landing,   \* history: the patent the user is being taken back to
  again,     \* history: loads that answers have started, one after another
  budget     \* events left, and of them faults

vars == <<pane, requests, db, told, landing, again, budget>>

None == 0  \* no patent

Query(search, class, project, among, up) ==
  [search |-> search, class |-> class, project |-> project, among |-> among, up |-> up]

(* patent.list: what a query selects of a set of patents, in its order. *)
Listing(patents, q) ==
  SetToSortSeq({k \in patents : /\ q.search => k \in Found
                                /\ q.class => k \in Classed
                                /\ q.project => k \in Members
                                /\ q.among # {} => k \in q.among},
               LAMBDA a, b : IF q.up THEN a < b ELSE a > b)

Page(list, offset, limit) == SubSeq(list, offset + 1, Least(offset + limit, Len(list)))

-----------------------------------------------------------------------------
(* The pane's own operations. *)

NewPane(h) ==
  [page |-> SetPageSize(NewPaginator(DefaultPage), h + Chrome), rows |-> <<>>, base |-> 0,
   loading |-> TRUE, failed |-> FALSE, height |-> h,
   visual |-> FALSE, anchor |-> 0, all |-> <<>>,
   scrollTo |-> None, saved |-> <<>>, last |-> None,
   search |-> FALSE, class |-> FALSE, project |-> TRUE, up |-> TRUE,
   finding |-> FALSE, input |-> "", before |-> "",
   shown |-> Query(FALSE, FALSE, FALSE, {}, TRUE),
   origin |-> None, fetching |-> FALSE, collapsed |-> FALSE,
   related |-> {}, known |-> {}]

(* The same pane loaded, when its user has gone to a line and the page there
   has come.                                                                 *)
PaneAtLine(h, line) ==
  LET query == Query(FALSE, FALSE, TRUE, {}, TRUE)
      list  == Listing(Listed, query)
      page  == GotoLine(SetTotal(NewPaginator(h), Len(list)), line)
  IN  [NewPane(h) EXCEPT !.page = page, !.rows = Page(list, page.offset, h), !.base = page.offset,
                         !.shown = query, !.loading = FALSE]

(* A new pane, mounted: it has been told the window's size and its project,
   and each of the two has started a load, the second of which counts.  Or one
   whose user has scrolled down.                                             *)
Init ==
  /\ \E h \in Heights :
       \/ /\ pane = NewPane(h)
          /\ requests = {[kind |-> "load", live |-> TRUE, stage |-> "issued",
                          offset |-> 0, limit |-> pane.page.size]}
       \/ /\ \E line \in 1..Cardinality(Listed) : pane = PaneAtLine(h, line) /\ pane.page.offset > 0
          /\ requests = {}
  /\ db = Listed
  /\ told = TRUE
  /\ landing = None
  /\ again = 0
  /\ budget = [events |-> Events, faults |-> Faults]

(* View: a pane with rows to draw sets its page to the room there is. *)
Drawn(p) ==
  IF (p.loading /\ p.rows = <<>>) \/ p.failed \/ p.page.total = 0 THEN p
  ELSE [p EXCEPT !.page = SetPageSize(@, p.height - (IF p.finding THEN 1 ELSE 0))]

(* What loadAllPages and findAnchorIndex capture, and load reads when it runs. *)
CurrentQuery(p) ==
  Query(p.search, p.class, p.project, IF p.collapsed THEN p.related ELSE {}, p.up)

(* Selection: the row under the cursor, when it is loaded. *)
SelectedRow(p) ==
  LET at == p.page.cursor - p.base
  IN  IF at \in 0..(Len(p.rows) - 1) THEN p.rows[at + 1] ELSE None

(* Selections: what a command on several patents acts on. *)
Selections(p) ==
  LET lo == Most(Least(p.anchor, p.page.cursor), p.base)
      hi == Least(Most(p.anchor, p.page.cursor), p.base + Len(p.rows) - 1)
  IN  IF ~p.visual THEN <<>>
      ELSE IF p.all # <<>> THEN p.all
      ELSE SubSeq(p.rows, lo - p.base + 1, hi - p.base + 1)

(* What View paints as selected. *)
InVisualRange(p, at) ==
  p.visual /\ at \in Least(p.anchor, p.page.cursor)..Most(p.anchor, p.page.cursor)

ClearVisual(p) == [p EXCEPT !.visual = FALSE, !.anchor = 0, !.all = <<>>]

(* saveVisual keeps the selection by number. *)
SaveVisual(p) == IF p.visual THEN [p EXCEPT !.saved = Selections(p)] ELSE p

(* clearRelationHighlight: the list is no longer narrowed, loaded or not. *)
ClearRelations(p) ==
  [p EXCEPT !.origin = None, !.fetching = FALSE, !.collapsed = FALSE, !.related = {}]

(* A new request of a kind makes the older ones of its kind stale.  What the
   goroutine of a stale one still does nobody sees, so it is dropped at once;
   a message under way is dropped when it comes.                             *)
Superseded(kind) ==
  {IF r.kind = kind THEN [r EXCEPT !.live = FALSE] ELSE r :
     r \in {q \in requests : q.kind = kind => q.stage = "answered"}}

Issued(r) == Superseded(r.kind) \union {r}

(* Slip: the page is loaded where the rows are, not where it has moved to. *)
LoadOf(p) ==
  [kind |-> "load", live |-> TRUE, stage |-> "issued",
   offset |-> p.page.offset, limit |-> p.page.size]

Load(p) == Issued(LoadOf(p))

(* What became of a request when its message has been handled. *)
Without(r, more) == (requests \ {r}) \union more

(* A step of the pane ends with the drawing of it. *)
Becomes(p) == pane' = Drawn(p)

Reloading(p) ==
  /\ Becomes([p EXCEPT !.loading = TRUE])
  /\ requests' = Load(p)

-----------------------------------------------------------------------------
(* What the user does. *)

Press ==
  /\ budget.events > 0 /\ Cardinality(requests) <= Outstanding
  /\ budget' = [budget EXCEPT !.events = @ - 1]
  /\ again' = 0
  /\ UNCHANGED <<db, told>>

(* A failure, or a change of the database by somebody else. *)
Fault ==
  /\ budget.events > 0 /\ budget.faults > 0
  /\ budget' = [events |-> budget.events - 1, faults |-> budget.faults - 1]

(* A key that is a command: the find bar, when it is open, takes every key. *)
PressCommand == Press /\ ~pane.finding

(* move: reload when the motion scrolled the page. *)
MoveTo(page) ==
  LET moved == [pane EXCEPT !.page = page]
      p == IF SelectedRow(moved) = None THEN moved
           ELSE [moved EXCEPT !.last = SelectedRow(moved)]
  IN  /\ PressCommand
      /\ landing' = None
      /\ IF page.offset # pane.page.offset
         THEN Reloading(p)
         ELSE Becomes(p) /\ UNCHANGED requests

Navigate ==
  \/ \E delta \in {-1, 1} : MoveTo(Moved(pane.page, delta))
  \/ MoveTo(PageDown(pane.page)) \/ MoveTo(PageUp(pane.page))
  \/ MoveTo(Top(pane.page)) \/ MoveTo(Bottom(pane.page))

Refreshed == Reloading(ClearVisual(pane))

Refresh == PressCommand /\ Refreshed /\ UNCHANGED landing

(* applySort reverses the order and does not go to the top; filters do. *)
ApplySort ==
  /\ PressCommand /\ landing' = None
  /\ Reloading(ClearVisual([pane EXCEPT !.up = ~@]))

AtTop(p) == [p EXCEPT !.page = Top(@)]

(* applyFilter with a class term, which keeps the search, or "clear"; and
   ApplyClassificationFilter, which does not.                               *)
ApplyFilter ==
  /\ PressCommand /\ landing' = None
  /\ \E class, search \in BOOLEAN :
       /\ search => class /\ pane.search
       /\ Reloading(AtTop([pane EXCEPT !.class = class, !.search = search]))

FindOpen ==
  /\ PressCommand /\ landing' = None
  /\ LET input == IF pane.search THEN "text" ELSE ""
     IN  Becomes([pane EXCEPT !.finding = TRUE, !.input = input, !.before = input])
  /\ UNCHANGED requests

(* applyFindInput: plain text replaces the search and drops class terms; a
   class term replaces them and drops the search; "class:" alone keeps them. *)
FindInput(p, input) ==
  [p EXCEPT !.input = input, !.search = input = "text",
            !.class = CASE input = "class:x" -> TRUE [] input = "class:" -> @ [] OTHER -> FALSE]

(* A typed character waits 150 ms for the next before it loads. *)
FindType ==
  /\ Press /\ pane.finding /\ landing' = None
  /\ \E input \in {"", "text", "class:", "class:x"} \ {pane.input} :
       Becomes(AtTop([FindInput(pane, input) EXCEPT !.loading = TRUE]))
  /\ requests' = Issued([kind |-> "debounce", live |-> TRUE, stage |-> "waiting"])

(* Slip: closing the bar drops the wait that was to load. *)
FindConfirmForgets ==
  /\ Press /\ pane.finding /\ landing' = None
  /\ Becomes([FindInput(pane, pane.input) EXCEPT !.finding = FALSE])
  /\ requests' = Superseded("debounce")

FindConfirm ==
  /\ Press /\ pane.finding /\ landing' = None
  /\ Becomes([FindInput(pane, pane.input) EXCEPT !.finding = FALSE])
  /\ UNCHANGED requests

FindCancel ==
  /\ Press /\ pane.finding /\ landing' = None
  /\ LET p == AtTop([FindInput(pane, pane.before) EXCEPT !.finding = FALSE])
     IN  /\ Becomes([p EXCEPT !.loading = TRUE])
         /\ requests' = {r \in Load(p) : r.kind # "debounce"}

ToggleVisual ==
  /\ PressCommand /\ UNCHANGED <<landing, requests>>
  /\ Becomes(IF pane.visual THEN ClearVisual(SaveVisual(pane))
             ELSE [pane EXCEPT !.visual = TRUE, !.anchor = pane.page.cursor])

(* The SelectClear command; what was highlighted is forgotten with it. *)
SelectClear ==
  /\ PressCommand /\ landing' = None
  /\ pane.visual \/ pane.related # {}
  /\ LET p == IF pane.visual THEN ClearVisual(SaveVisual(pane)) ELSE pane
     IN  Becomes(IF p.related = {} THEN p ELSE ClearRelations(p))
  /\ UNCHANGED requests

(* reselectLast: the saved patents that are among the rows, wherever they are
   now; the last of them leads the page, which is not loaded again.           *)
ReselectLast ==
  LET targets == IF pane.saved # <<>> \/ pane.last = None THEN ToSet(pane.saved)
                 ELSE {pane.last}
      there == {i \in DOMAIN pane.rows : pane.rows[i] \in targets}
      Place(i) == pane.base + i - 1
      p == ClearVisual(pane)
  IN  /\ PressCommand /\ landing' = None /\ targets # {}
      /\ Becomes(IF there = {} THEN p
                 ELSE [p EXCEPT !.visual = TRUE, !.anchor = Place(Min(there)),
                                !.page = ScrollTo(@, Place(Max(there)))])
      /\ UNCHANGED requests

(* selectAllVisual: the pane's rows stay; the numbers of all pages are asked for. *)
SelectAllVisual ==
  /\ PressCommand /\ pane.page.total > 0 /\ landing' = None
  /\ Becomes([SaveVisual(pane) EXCEPT !.visual = TRUE, !.anchor = 0, !.page = Bottom(@)])
  /\ requests' = Issued([kind |-> "all", live |-> TRUE, stage |-> "asked",
                         query |-> CurrentQuery(pane), limit |-> pane.page.total])

(* toggleHighlight on the selected row: off, from the cache, or asked for. *)
HighlightOff ==
  /\ PressCommand /\ SelectedRow(pane) # None /\ SelectedRow(pane) = pane.origin
  /\ landing' = None
  /\ IF pane.collapsed THEN Reloading(AtTop(ClearRelations(pane)))
     ELSE Becomes(ClearRelations(pane)) /\ UNCHANGED requests

HighlightOn ==
  LET k == SelectedRow(pane)
      p == [pane EXCEPT !.origin = k, !.collapsed = FALSE]
  IN  /\ PressCommand /\ k # None /\ k # pane.origin
      /\ landing' = None
      /\ IF k \in pane.known
         THEN /\ Becomes([p EXCEPT !.related = Relations[k] \union {k}, !.fetching = FALSE])
              /\ UNCHANGED requests
         ELSE /\ Becomes([p EXCEPT !.related = {}, !.fetching = TRUE])
              /\ requests' = Issued([kind |-> "relations", live |-> TRUE,
                                     stage |-> "asked", of |-> k])

(* setRelationFilter: narrow the list to the relations, and back to where the
   user came from.                                                           *)
Collapse ==
  /\ PressCommand /\ pane.origin # None /\ ~pane.collapsed /\ landing' = None
  /\ Reloading(AtTop([pane EXCEPT !.collapsed = TRUE]))

(* The answer to an earlier search for a row ends the scrolling of this one. *)
Expand ==
  /\ PressCommand /\ pane.origin # None /\ pane.collapsed
  /\ landing' = IF \E r \in requests : r.kind = "index" /\ r.live THEN None ELSE pane.origin
  /\ Reloading(AtTop([pane EXCEPT !.collapsed = FALSE, !.scrollTo = pane.origin]))

(* add of a patent: the pane is to scroll to it when it is next loaded. *)
AddPatent ==
  /\ PressCommand /\ landing' = None
  /\ \E k \in Keys : Becomes([pane EXCEPT !.scrollTo = k])
  /\ UNCHANGED requests

(* What the user decides of a patent is sent back to the pane as a message: a
   review state or an IDS entry is patched into its row, and a patent that has
   no row makes the pane load.                                                *)
RowChanged ==
  /\ Press /\ pane.project /\ UNCHANGED landing
  /\ \E k \in Keys, ids \in BOOLEAN :
       IF k \notin ToSet(pane.rows) /\ (IF ids THEN pane.rows # <<>> ELSE ~pane.loading)
       THEN Reloading(pane)
       ELSE Becomes(pane) /\ UNCHANGED requests

(* ProjectChangedMsg: the rows on the screen stay until the new ones come. *)
ChangeProject ==
  /\ Press /\ landing' = None
  /\ Reloading(ClearVisual([AtTop(pane) EXCEPT !.project = ~@, !.base = 0]))

(* A window of another size; the pane is told more rows than it will draw. *)
Resize ==
  /\ Press /\ UNCHANGED landing
  /\ \E h \in Heights \ {pane.height} :
       LET taller == [pane EXCEPT !.height = h]
           p == [taller EXCEPT !.page = SetPageSize(@, h + Chrome)]
       IN  IF h + Chrome = pane.page.size
           THEN Becomes(taller) /\ UNCHANGED requests
           ELSE IF \/ p.page.offset # pane.page.offset
                   \/ Len(pane.rows) # p.page.size
           THEN Reloading(p)
           ELSE Becomes(p) /\ UNCHANGED requests

User ==
  \/ Navigate \/ Refresh \/ ApplySort \/ ApplyFilter
  \/ FindOpen \/ FindType \/ FindConfirm \/ FindCancel
  \/ ToggleVisual \/ SelectClear \/ ReselectLast \/ SelectAllVisual
  \/ HighlightOff \/ HighlightOn \/ Collapse \/ Expand
  \/ AddPatent \/ RowChanged \/ ChangeProject \/ Resize

-----------------------------------------------------------------------------
(* The requests, in their goroutines, and the daemon. *)

Ask(r) ==
  /\ r.kind = "load" /\ r.stage = "issued"
  /\ requests' = Without(r, {[kind |-> "load", live |-> r.live, stage |-> "asked",
                              offset |-> r.offset, limit |-> r.limit,
                              query |-> CurrentQuery(pane)]})
  /\ UNCHANGED <<pane, db, told, landing, again, budget>>

(* The answers to a request for a page, for all numbers, for the place of a patent. *)
Answered(r) ==
  LET list == Listing(db, r.query)
  IN  CASE r.kind = "load"  -> [r EXCEPT !.stage = "answered"] @@
                               [rows |-> Page(list, r.offset, r.limit), total |-> Len(list)]
        [] r.kind = "all"   -> [r EXCEPT !.stage = "answered"] @@
                               [numbers |-> Page(list, 0, r.limit)]
        [] r.kind = "index" -> [r EXCEPT !.stage = "answered"] @@
                               [index |-> LET part == Page(list, 0, r.limit)
                                          IN  IF Contains(part, r.of)
                                              THEN (CHOOSE i \in DOMAIN part : part[i] = r.of) - 1
                                              ELSE -1]
        [] OTHER            -> [r EXCEPT !.stage = "answered"]

Answer(r) ==
  /\ r.stage = "asked"
  /\ requests' = Without(r, {Answered(r)})
  /\ UNCHANGED <<pane, db, told, landing, again, budget>>

Fail(r) ==
  /\ r.stage = "asked" /\ Fault
  /\ requests' = Without(r, {[r EXCEPT !.stage = "failed"]})
  /\ landing' = None
  /\ UNCHANGED <<pane, db, told, again>>

(* Update, message by message. *)
Drop(r) ==
  /\ ~r.live
  /\ requests' = Without(r, {})
  /\ UNCHANGED <<pane, db, told, landing, again, budget>>

DebounceEnds(r) ==
  /\ r.kind = "debounce" /\ r.live
  /\ requests' = Load(pane) \ {r}
  /\ again' = 0
  /\ UNCHANGED <<pane, db, told, landing, budget>>

LoadFails(r) ==
  /\ r.kind = "load" /\ r.live /\ r.stage = "failed"
  /\ Becomes([pane EXCEPT !.loading = FALSE, !.failed = TRUE])
  /\ requests' = Without(r, {})
  /\ UNCHANGED <<db, told, landing, again, budget>>

(* catalogLoadedMsg: a list that has shrunk moves the page, which loads again;
   then the patent to scroll to is looked for, on the page and beyond it.      *)
Loaded(r) ==
  LET p == [pane EXCEPT !.loading = FALSE, !.failed = FALSE, !.rows = r.rows,
                        !.base = r.offset, !.page = SetTotal(@, r.total),
                        !.shown = r.query]
      there == {i \in DOMAIN r.rows : r.rows[i] = p.scrollTo}
      found == [p EXCEPT !.scrollTo = None,
                         !.page = ScrollTo(@, r.offset + (CHOOSE i \in there : TRUE) - 1)]
  IN  /\ r.kind = "load" /\ r.live /\ r.stage = "answered"
      /\ IF p.page.offset # r.offset
         THEN /\ Becomes([p EXCEPT !.loading = TRUE]) /\ again' = again + 1
              /\ requests' = Load(p) \ {[r EXCEPT !.live = FALSE]}
         ELSE IF p.scrollTo = None
         THEN Becomes(p) /\ requests' = Without(r, {}) /\ UNCHANGED again
         ELSE IF there = {}
         THEN /\ Becomes(p) /\ UNCHANGED again
              /\ requests' = Issued([kind |-> "index", live |-> TRUE, stage |-> "asked",
                                     query |-> [CurrentQuery(p) EXCEPT !.among = {}],
                                     of |-> p.scrollTo, limit |-> r.total]) \ {r}
         ELSE IF found.page.offset # r.offset
         THEN /\ Becomes([found EXCEPT !.loading = TRUE]) /\ again' = again + 1
              /\ requests' = Load(found) \ {[r EXCEPT !.live = FALSE]}
         ELSE Becomes(found) /\ requests' = Without(r, {}) /\ UNCHANGED again
      /\ UNCHANGED <<db, told, landing, budget>>

(* catalogAllPagesLoadedMsg *)
AllPagesLoaded(r) ==
  /\ r.kind = "all" /\ r.live /\ r.stage \in {"answered", "failed"}
  /\ Becomes(IF r.stage = "failed" THEN [pane EXCEPT !.failed = TRUE]
             ELSE [pane EXCEPT !.all = r.numbers])
  /\ requests' = Without(r, {})
  /\ UNCHANGED <<db, told, landing, again, budget>>

(* Slip: the rows around the patent are not fetched. *)
AnchorIndexUnloaded(r) ==
  /\ r.kind = "index" /\ r.live /\ r.stage \in {"answered", "failed"}
  /\ Becomes(IF r.stage = "failed" \/ (r.stage = "answered" /\ r.index < 0)
             THEN [pane EXCEPT !.scrollTo = None]
             ELSE [pane EXCEPT !.scrollTo = None, !.page = ScrollTo(@, r.index)])
  /\ requests' = Without(r, {})
  /\ UNCHANGED <<db, told, landing, again, budget>>

(* anchorIndexLoadedMsg *)
AnchorIndexLoaded(r) ==
  LET p == [pane EXCEPT !.scrollTo = None]
      scrolled == [p EXCEPT !.page = ScrollTo(@, r.index)]
  IN  /\ r.kind = "index" /\ r.live /\ r.stage \in {"answered", "failed"}
      /\ IF r.stage = "failed" \/ (r.stage = "answered" /\ r.index < 0)
         THEN Becomes(p) /\ requests' = Without(r, {}) /\ UNCHANGED again
         ELSE /\ Becomes([scrolled EXCEPT !.loading = TRUE]) /\ again' = again + 1
              /\ requests' = Load(scrolled) \ {r}
      /\ UNCHANGED <<db, told, landing, budget>>

(* relationHighlightLoadedMsg: stale, too, when another patent is the origin. *)
RelationsLoaded(r) ==
  LET p == [pane EXCEPT !.fetching = FALSE, !.known = @ \union {r.of},
                        !.related = @ \union Relations[r.of] \union {r.of}]
  IN  /\ r.kind = "relations" /\ r.live /\ r.stage \in {"answered", "failed"}
      /\ IF r.of # pane.origin \/ ~pane.fetching
         THEN UNCHANGED pane /\ requests' = Without(r, {})
         ELSE IF r.stage = "failed"
         THEN Becomes(ClearRelations(pane)) /\ requests' = Without(r, {})
         ELSE IF pane.collapsed
         THEN /\ Becomes([AtTop(p) EXCEPT !.loading = TRUE])
              /\ requests' = Load(AtTop(p)) \ {r}
         ELSE Becomes(p) /\ requests' = Without(r, {})
      /\ UNCHANGED <<db, told, landing, again, budget>>

Goroutine(r) ==
  \/ Ask(r) \/ Answer(r) \/ Fail(r) \/ Drop(r)
  \/ DebounceEnds(r) \/ LoadFails(r) \/ Loaded(r)
  \/ AllPagesLoaded(r) \/ AnchorIndexLoaded(r) \/ RelationsLoaded(r)

(* The database changes; the announcement of it refreshes the pane. *)
Edit ==
  /\ Fault
  /\ \E k \in Keys : db' = IF k \in db THEN db \ {k} ELSE db \union {k}
  /\ told' = FALSE /\ landing' = None /\ again' = 0
  /\ UNCHANGED <<pane, requests>>

(* Slip: a pane that is loading already is not asked to load. *)
DBChangedUnlessLoading ==
  /\ ~told /\ told' = TRUE
  /\ IF pane.loading THEN UNCHANGED <<pane, requests>> ELSE Refreshed
  /\ again' = 0
  /\ UNCHANGED <<db, landing, budget>>

DBChanged ==
  /\ ~told /\ told' = TRUE
  /\ Refreshed /\ again' = 0
  /\ UNCHANGED <<db, landing, budget>>

Next ==
  \/ User
  \/ \E r \in requests : Goroutine(r)
  \/ Edit \/ DBChanged

Spec == Init /\ [][Next]_vars

-----------------------------------------------------------------------------
(* Properties. *)

(* Nothing that the pane waits for is on its way, and nothing it should know
   of has been kept from it.                                                 *)
Settled ==
  /\ told /\ ~pane.failed
  /\ \A r \in requests : r.live => r.kind \in {"all", "relations"}

(* The cursor is a row of the list and on the page, whatever order motions,
   resizings and shrinking lists come in (render.Paginator).                 *)
PageHoldsCursor == pane.page \in Paginators /\ Fits(pane.page)

(* The spinner of loading is shown only while an answer that will end it is on
   its way: no handler that starts, waits or cancels leaves it on for good.   *)
LoadingIsAnswered ==
  pane.loading => \E r \in requests : r.live /\ r.kind \in {"load", "debounce"}

(* When nothing is on its way, the rows and the total are those of the list as
   it now is, for the query they were loaded for: stale answers, answers to a
   page that has moved and announced changes leave nothing old behind.        *)
SettledListIsFresh ==
  Settled =>
    LET list == Listing(db, pane.shown)
    IN  /\ pane.page.total = Len(list)
        /\ pane.rows = Page(list, pane.base, Len(pane.rows))
        /\ pane.rows = <<>> => list = <<>>

(* Expanding a collapsed view ends on the patent the user started from
   (setRelationFilter), wherever in the list it is, when nothing else happens and
   no earlier search for another row is under way.                              *)
LandsOnTheAnchor ==
  Settled /\ landing \in ToSet(Listing(db, pane.shown)) => SelectedRow(pane) = landing

(* An answer that finds the page moved loads once more, and so does the place
   of a patent to scroll to; what these loads bring starts no more of them, so
   a load the user waits for ends.                                            *)
LoadsComeToRest == again <= 3

(* No row is acted on that is on the screen and not painted as selected. *)
SelectionsAreTheVisualRange ==
  \A i \in DOMAIN pane.rows :
    Contains(Selections(pane), pane.rows[i]) => InVisualRange(pane, pane.base + i - 1)
=============================================================================
