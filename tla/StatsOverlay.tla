---------------------------- MODULE StatsOverlay ----------------------------
(***************************************************************************)
(* The three statistics overlays of the terminal frontend: inventors       *)
(* (inventor_stats.go), assignees (all_assignees_history.go) and classes   *)
(* (classification_stats.go).  Each is a list of names above a page of the *)
(* patents of the selected name, and each was written out by itself: what  *)
(* they share is an operator here, what they differ in is an action of the *)
(* kind's own.                                                             *)
(*                                                                         *)
(* A key or a message is handled to the end and the overlay is then drawn; *)
(* drawing sets the page size, and an index past the end of a list while   *)
(* drawing ends the program (down).  Requests run in goroutines, so their  *)
(* answers come in any order; a page of patents counts while its request   *)
(* is the newest, the names of the statistics whenever they come.          *)
(*                                                                         *)
(* Names are numbers, in the order of the column they are sorted by.  What *)
(* a search matches is a set of names.                                     *)
(***************************************************************************)
EXTENDS Paginator, SequencesExt, FiniteSets

CONSTANTS
  Kinds,      \* the overlays opened: "inventors", "assignees", "classes"
  Names,      \* positive numbers
  Lists,      \* the names the daemon may have statistics of, as sets
  Searches,   \* what a text typed may match of the names, as sets
  Owned,      \* names of the patent the overlay was opened on
  Patents,    \* how many patents each name has
  FirstPage,  \* the page size before the first drawing
  Heights,    \* rows the terminal may have for patents
  Steps,      \* a bound: keys, changes of the database and of the window, failures
  Outstanding,  \* a bound: requests under way at any of them
  Reopenings, \* a bound: of them, overlays closed and opened again
  Busy        \* whether one is also closed while it waits for patents

StatsAssumption ==
  /\ Kinds \subseteq {"inventors", "assignees", "classes"}
  /\ Names \subseteq Nat \ {0} /\ IsFiniteSet(Names)
  /\ Lists \subseteq SUBSET Names /\ Searches \subseteq SUBSET Names /\ Owned \subseteq Names /\ Owned # {}
  /\ Patents \in [Names -> Nat]
  /\ FirstPage \in Nat \ {0} /\ Heights \subseteq Nat \ {0}
  /\ {Steps, Outstanding, Reopenings} \subseteq Nat
  /\ Busy \in BOOLEAN

VARIABLES
  kind,      \* which overlay is open
  view,      \* its fields
  requests,  \* requests under way
  db,        \* the names the daemon has statistics of
  failed,    \* history: the newest page of patents asked for could not be had
  down,      \* the program panicked
  budget     \* steps left, and of them reopenings

vars == <<kind, view, requests, db, failed, down, budget>>

Nobody == 0   \* no name: patents are not narrowed to one
Assignee == CHOOSE n \in Owned : TRUE

Query(name, search, up) == [name |-> name, search |-> search, up |-> up]

(* patent.list: how many patents a query selects. *)
Total(q) == LET all == IF q.name = Nobody THEN Cardinality(Names) ELSE Patents[q.name]
            IN  IF q.search THEN Least(1, all) ELSE all

NewView(height, focus, own) ==
  [own |-> own, focus |-> focus, all |-> <<>>, stats |-> <<>>, selected |-> 0, up |-> FALSE,
   loading |-> TRUE, err |-> FALSE,
   searching |-> FALSE, narrow |-> Names,
   finding |-> FALSE, search |-> FALSE,
   page |-> NewPaginator(FirstPage), visual |-> FALSE, anchor |-> 0, saved |-> <<>>,
   sortUp |-> TRUE, rows |-> [query |-> Query(Nobody, FALSE, TRUE), offset |-> 0, count |-> 0],
   waiting |-> FALSE, id |-> 0, height |-> height]

(* loadStatsCmd; assignees may be asked for of the patent alone (own). *)
AskStats(k, own) == [what |-> "stats", stage |-> "issued", kind |-> k, own |-> own]

InventorsOpened(h) == {NewView(h, focus, FALSE) : focus \in {"names", "patents"}}
AssigneesOpened(h) == {NewView(h, "names", own) : own \in BOOLEAN}
ClassesOpened(h) == {NewView(h, "names", FALSE)}

Opened(k, h) == CASE k = "inventors" -> InventorsOpened(h)
                  [] k = "assignees" -> AssigneesOpened(h)
                  [] k = "classes" -> ClassesOpened(h)

Init ==
  /\ kind \in Kinds
  /\ \E h \in Heights : view \in Opened(kind, h)
  /\ requests = {AskStats(kind, view.own)}
  /\ db \in Lists
  /\ failed = FALSE /\ down = FALSE
  /\ budget = [steps |-> Steps, reopenings |-> Reopenings]

-----------------------------------------------------------------------------
(* What the three share. *)

Selected(v) == IF v.selected < Len(v.stats) THEN v.stats[v.selected + 1] ELSE Nobody

InOrder(names, up) == SetToSortSeq(names, LAMBDA a, b : IF up THEN a < b ELSE a > b)

(* sortStats: the name that was selected before stays so.  Without a search
   the list sorted is allStats itself.                                       *)
SortStats(v) ==
  LET sorted == InOrder(ToSet(v.stats), v.up)
  IN  IF v.stats = <<>> THEN v
      ELSE [v EXCEPT !.stats = sorted,
                     !.all = IF v.narrow = Names THEN sorted ELSE @,
                     !.selected = IF Selected(v) = Nobody THEN @
                                  ELSE (CHOOSE i \in DOMAIN sorted : sorted[i] = Selected(v)) - 1]

Matching(v) == [v EXCEPT !.stats = SelectSeq(v.all, LAMBDA n : n \in v.narrow)]

(* Slip: the place of the selection is left past the end. *)
RefilterUnclamped(v) == SortStats(Matching(v))

(* applyFilter *)
Refilter(v) ==
  LET w == SortStats(Matching(v))
  IN  [w EXCEPT !.selected = IF @ >= Len(w.stats) THEN Most(0, Len(w.stats) - 1) ELSE @]

(* The first of some names is selected. *)
Preselect(v, names) ==
  LET places == {i \in DOMAIN v.stats : v.stats[i] \in names}
  IN  IF places = {} THEN v
      ELSE [v EXCEPT !.selected = (CHOOSE i \in places : \A j \in places : i <= j) - 1]

(* selections and clearVisual: what is done to a selection ends it. *)
SaveVisual(v) == [v EXCEPT !.saved = <<v.anchor, v.page.cursor>>]
ClearVisual(v) == [v EXCEPT !.visual = FALSE, !.anchor = 0]

-----------------------------------------------------------------------------
(* Drawing.  An error or a load in progress hides the lists, and two of the
   three also stop at an empty list of names.                                *)

Hidden(v) == v.err \/ v.loading
Fitted(v) == [v EXCEPT !.page = SetPageSize(@, v.height)]

InventorsView(v) == IF Hidden(v) THEN v ELSE Fitted(v)
InventorsViewFails(v) == ~Hidden(v) /\ v.stats = <<>>
AssigneesView(v) == IF Hidden(v) \/ v.stats = <<>> THEN v ELSE Fitted(v)
ClassesView(v) == IF Hidden(v) \/ v.stats = <<>> THEN v ELSE Fitted(v)

(* The fields after a key or a message, and the requests under way. *)
Shows(v, rs) ==
  /\ view' = CASE kind = "inventors" -> InventorsView(v)
                [] kind = "assignees" -> AssigneesView(v)
                [] kind = "classes" -> ClassesView(v)
  /\ requests' = rs
  /\ down' = (kind = "inventors" /\ InventorsViewFails(v))
  /\ UNCHANGED kind

(* loadPatentsCmd: a request for a page of patents replaces those before it. *)
Loads(v, rs) ==
  Shows([v EXCEPT !.id = @ + 1, !.waiting = TRUE],
        rs \cup {[what |-> "patents", stage |-> "issued", id |-> v.id + 1,
                  name |-> Selected(v), offset |-> v.page.offset, limit |-> v.page.size,
                  search |-> v.search, up |-> v.sortUp, seat |-> budget.reopenings]})

(* The name is indexed without a look at the length of the list. *)
LoadsBlindly(v, rs) ==
  IF v.selected \in 0..(Len(v.stats) - 1) THEN Loads(v, rs)
  ELSE down' = TRUE /\ UNCHANGED <<kind, view, requests>>

-----------------------------------------------------------------------------
(* The daemon, and the goroutines that ask it.  A goroutine reads the search
   and the direction of its overlay when it runs, the rest is in the request. *)

Running == ~down /\ UNCHANGED <<db, failed, budget>>

Answered(r, list) ==
  /\ requests' = (requests \ {r}) \cup {[r EXCEPT !.stage = "answered"] @@ [list |-> list]}
  /\ UNCHANGED <<kind, view, down>>

InventorsLoadStats(r) ==
  r.kind = "inventors" /\ Answered(r, InOrder(db, FALSE))

(* Those of the patent alone are its assignee and, unless the call for them
   fails, those of its history; without statistics of any, these names are
   listed, in no order.                                                      *)
AssigneesLoadStats(r) ==
  /\ r.kind = "assignees"
  /\ \/ ~r.own /\ Answered(r, InOrder(db, FALSE))
     \/ /\ r.own
        /\ \E allowed \in {Owned, {Assignee}} :
           \E list \in IF allowed \cap db # {} THEN {InOrder(allowed \cap db, FALSE)}
                       ELSE {InOrder(allowed, up) : up \in BOOLEAN} :
             Answered(r, list)

ClassesLoadStats(r) ==
  r.kind = "classes" /\ Answered(r, InOrder(db, FALSE))

LoadStats(r) ==
  /\ Running /\ r.what = "stats" /\ r.stage = "issued"
  /\ InventorsLoadStats(r) \/ AssigneesLoadStats(r) \/ ClassesLoadStats(r)

LoadPatents(r) ==
  /\ Running /\ r.what = "patents" /\ r.stage = "issued"
  /\ LET mine == r.seat = budget.reopenings
         q == Query(r.name, IF mine THEN view.search ELSE r.search, IF mine THEN view.sortUp ELSE r.up)
     IN  requests' = (requests \ {r}) \cup
           {[r EXCEPT !.stage = "answered"] @@
            [rows |-> [query |-> q, offset |-> r.offset,
                       count |-> Most(0, Least(r.limit, Total(q) - r.offset))],
             total |-> Total(q)]}
  /\ UNCHANGED <<kind, view, down>>

Step ==
  /\ ~down /\ budget.steps > 0 /\ Cardinality(requests) <= Outstanding
  /\ budget' = [budget EXCEPT !.steps = @ - 1]

Fail(r) ==
  /\ Step /\ r.stage = "issued"
  /\ requests' = (requests \ {r}) \cup {[r EXCEPT !.stage = "failed"]}
  /\ UNCHANGED <<kind, view, db, failed, down>>

-----------------------------------------------------------------------------
(* Messages. *)

StatsFailed(r) ==
  /\ Running /\ r.what = "stats" /\ r.stage = "failed" /\ r.kind = kind
  /\ Shows([view EXCEPT !.loading = FALSE, !.err = TRUE], requests \ {r})

StatsLoaded(r, names) ==
  /\ Running /\ r.what = "stats" /\ r.stage = "answered" /\ r.kind = kind
  /\ LET v == Preselect(Refilter([view EXCEPT !.loading = FALSE, !.all = r.list]), names)
     IN  IF v.stats = <<>> THEN Shows(v, requests \ {r}) ELSE LoadsBlindly(v, requests \ {r})

(* Slip: an overtaken answer is taken for the newest one. *)
PatentsLoadedAnyhow(r) ==
  /\ ~down /\ r.what = "patents" /\ r.stage \in {"answered", "failed"}
  /\ Shows(IF r.stage = "failed" THEN [view EXCEPT !.waiting = FALSE]
           ELSE [view EXCEPT !.waiting = FALSE, !.rows = r.rows, !.page = SetTotal(@, r.total)],
           requests \ {r})
  /\ failed' = (r.stage = "failed")
  /\ UNCHANGED <<db, budget>>

(* A shared message of the three: any of them takes it by its id alone. *)
PatentsLoaded(r) ==
  /\ ~down /\ r.what = "patents" /\ r.stage \in {"answered", "failed"}
  /\ IF r.id # view.id
     THEN Shows(view, requests \ {r}) /\ UNCHANGED failed
     ELSE /\ Shows(IF r.stage = "failed" THEN [view EXCEPT !.waiting = FALSE]
                   ELSE [view EXCEPT !.waiting = FALSE, !.rows = r.rows, !.page = SetTotal(@, r.total)],
                   requests \ {r})
          /\ failed' = (r.stage = "failed")
  /\ UNCHANGED <<db, budget>>

(* Others change the database, and the overlay hears of it. *)
DBChanged ==
  /\ Step
  /\ db' \in Lists
  /\ LET v == [view EXCEPT !.loading = TRUE]
         rs == requests \cup {AskStats(kind, view.own)}
     IN  IF v.selected < Len(v.stats) THEN Loads(v, rs) ELSE Shows(v, rs)
  /\ UNCHANGED failed

Resized(h) ==
  /\ Step
  /\ LET v == [view EXCEPT !.height = h, !.page = SetPageSize(@, h)]
     IN  IF h # view.page.size /\ v.selected < Len(v.stats)
         THEN Loads(v, requests) ELSE Shows(v, requests)
  /\ UNCHANGED <<db, failed>>

InventorsUpdate(r) ==
  kind = "inventors" /\ (StatsFailed(r) \/ StatsLoaded(r, {}) \/ PatentsLoaded(r))
AssigneesUpdate(r) ==
  /\ kind = "assignees"
  /\ StatsFailed(r) \/ StatsLoaded(r, {Assignee}) \/ PatentsLoaded(r)
ClassesUpdate(r) ==
  kind = "classes" /\ (StatsFailed(r) \/ StatsLoaded(r, Owned) \/ PatentsLoaded(r))

InventorsEvent == kind = "inventors" /\ (DBChanged \/ \E h \in Heights : Resized(h))
AssigneesEvent == kind = "assignees" /\ (DBChanged \/ \E h \in Heights : Resized(h))
ClassesEvent == kind = "classes" /\ (DBChanged \/ \E h \in Heights : Resized(h))

-----------------------------------------------------------------------------
(* Keys.  HandleKey first clears what went wrong. *)

Key == Step /\ UNCHANGED <<db, failed>>
Cleared == [view EXCEPT !.err = FALSE]

(* A character, one taken back, the scope of the search, its end. *)
SearchKey ==
  /\ Key /\ view.searching
  /\ \/ \E names \in Searches :    \* typed, or searched in other columns
          Loads(Refilter([Cleared EXCEPT !.narrow = names]), requests)
     \/ /\ view.narrow # Names      \* erased
        /\ Loads(Refilter([Cleared EXCEPT !.narrow = Names]), requests)
     \/ Loads(Refilter([Cleared EXCEPT !.narrow = Names, !.searching = FALSE]), requests)  \* Esc
     \/ Shows([Cleared EXCEPT !.searching = FALSE], requests)                             \* Enter

PatentSearchKey ==
  /\ Key /\ ~view.searching /\ view.finding
  /\ \/ \E search \in BOOLEAN : Loads([Cleared EXCEPT !.search = search], requests)
     \/ Loads([Cleared EXCEPT !.search = FALSE, !.finding = FALSE], requests)
     \/ Shows([Cleared EXCEPT !.finding = FALSE], requests)

Free(focus) == Key /\ ~view.searching /\ ~view.finding /\ view.focus = focus

(* j and k *)
NamesMove ==
  /\ Free("names")
  /\ IF view.stats = <<>> THEN Shows(Cleared, requests)
     ELSE \E step \in {1, -1} :
            Loads([Cleared EXCEPT !.selected = (@ + step + Len(view.stats)) % Len(view.stats),
                                  !.page = Top(@)], requests)

(* "/" *)
NamesSearch ==
  Free("names") /\ Loads(Refilter([Cleared EXCEPT !.searching = TRUE, !.narrow = Names]), requests)

(* "." *)
NamesSort ==
  /\ Free("names")
  /\ IF view.stats = <<>> THEN Shows(Cleared, requests)
     ELSE LET v == SortStats([Cleared EXCEPT !.up = ~@])
          IN  LoadsBlindly([v EXCEPT !.page = Top(@)], requests)

(* tab, l, enter and h *)
Refocus(focus) ==
  Free(focus) /\ Shows([Cleared EXCEPT !.focus = IF focus = "names" THEN "patents" ELSE "names"], requests)

(* The keys the paginator takes for itself load nothing. *)
PaginatorKey ==
  /\ Free("patents")
  /\ \/ Shows([Cleared EXCEPT !.page = Top(@)], requests)                     \* gg
     \/ /\ ~view.visual                                                      \* v
        /\ Shows([Cleared EXCEPT !.visual = TRUE, !.anchor = view.page.cursor], requests)
     \/ view.visual /\ Shows(ClearVisual(SaveVisual(Cleared)), requests)      \* v, esc, q
     \/ /\ view.saved # <<>>                                                 \* gv
        /\ Shows([Cleared EXCEPT !.visual = TRUE, !.anchor = view.saved[1],
                                 !.page = ClampAt(@, view.saved[2])], requests)
     \/ /\ view.page.total > 0                                               \* ga
        /\ LET v == IF view.visual THEN SaveVisual(Cleared) ELSE Cleared
           IN  Shows([v EXCEPT !.visual = TRUE, !.anchor = 0, !.page = Bottom(@)], requests)

(* handleSubtableMotionKey *)
Motions(page) ==
  {Moved(page, 1), Moved(page, -1), PageDown(page), PageUp(page), Bottom(page)}

PatentsMove ==
  /\ Free("patents")
  /\ \E page \in Motions(view.page) :
       LET v == [Cleared EXCEPT !.page = page]
       IN  IF page.offset # view.page.offset THEN Loads(v, requests) ELSE Shows(v, requests)

(* Classes have keys of their own for it, on rows only, and index the name. *)
OnRow(v) == v.page.cursor - v.page.offset < v.rows.count

ClassesMove ==
  /\ Free("patents") /\ OnRow(view)
  /\ \E page \in Motions(view.page) \ {Bottom(view.page)} :
       LET v == [Cleared EXCEPT !.page = page]
       IN  IF page.offset # view.page.offset THEN LoadsBlindly(v, requests) ELSE Shows(v, requests)

PatentsSearch ==
  Free("patents") /\ Loads([Cleared EXCEPT !.finding = TRUE, !.search = FALSE], requests)

PatentsSort ==
  Free("patents") /\ Loads([Cleared EXCEPT !.sortUp = ~@, !.page = Top(@)], requests)

ClassesSort ==
  Free("patents") /\ LoadsBlindly([Cleared EXCEPT !.sortUp = ~@, !.page = Top(@)], requests)

(* s, r, i, x, t and I, on the selection or the row under the cursor. *)
Act == Free("patents") /\ OnRow(view) /\ Shows(ClearVisual(SaveVisual(Cleared)), requests)

InventorsTyping == kind = "inventors" /\ (SearchKey \/ PatentSearchKey)
InventorsNamesKey ==
  kind = "inventors" /\ (NamesMove \/ NamesSearch \/ NamesSort \/ Refocus("names"))
InventorsPatentsKey ==
  /\ kind = "inventors"
  /\ PaginatorKey \/ PatentsMove \/ PatentsSearch \/ PatentsSort \/ Refocus("patents") \/ Act

AssigneesTyping == kind = "assignees" /\ (SearchKey \/ PatentSearchKey)
AssigneesNamesKey ==
  kind = "assignees" /\ (NamesMove \/ NamesSearch \/ NamesSort \/ Refocus("names"))
AssigneesPatentsKey ==
  /\ kind = "assignees"
  /\ PaginatorKey \/ PatentsMove \/ PatentsSearch \/ PatentsSort \/ Refocus("patents") \/ Act

ClassesTyping == kind = "classes" /\ (SearchKey \/ PatentSearchKey)
ClassesNamesKey ==
  kind = "classes" /\ (NamesMove \/ NamesSearch \/ NamesSort \/ Refocus("names"))
ClassesPatentsKey ==
  /\ kind = "classes"
  /\ PaginatorKey \/ ClassesMove \/ PatentsSearch \/ ClassesSort \/ Refocus("patents") \/ Act

(* q closes the overlay, and the user opens one again. *)
Reopen(k) ==
  /\ ~down /\ budget.steps > 0 /\ budget.reopenings > 0 /\ ~view.searching /\ ~view.finding
  /\ Busy \/ \A r \in requests : r.what # "patents"
  /\ budget' = [steps |-> budget.steps - 1, reopenings |-> budget.reopenings - 1]
  /\ kind' = k
  /\ view' \in Opened(k, view.height)
  /\ requests' = requests \cup {AskStats(k, view'.own)}
  /\ failed' = FALSE
  /\ UNCHANGED <<db, down>>

Next ==
  \/ \E r \in requests : LoadPatents(r) \/ LoadStats(r) \/ Fail(r)
  \/ \E r \in requests : InventorsUpdate(r) \/ AssigneesUpdate(r) \/ ClassesUpdate(r)
  \/ InventorsEvent \/ InventorsTyping \/ InventorsNamesKey \/ InventorsPatentsKey
  \/ AssigneesEvent \/ AssigneesTyping \/ AssigneesNamesKey \/ AssigneesPatentsKey
  \/ ClassesEvent \/ ClassesTyping \/ ClassesNamesKey \/ ClassesPatentsKey
  \/ \E k \in Kinds : Reopen(k)

Spec == Init /\ [][Next]_vars

-----------------------------------------------------------------------------
(* When nothing is being loaded and the last page asked for came, the rows are
   those of the name that is selected, of the search and in the direction that
   are set: whatever overtook whatever (loadID).  It is not so for an overlay
   opened while one closed before waits for patents: their ids are its own.   *)
RowsAnswerTheSelection ==
  ~failed /\ ~view.waiting /\ view.stats # <<>> =>
    view.rows.query = Query(Selected(view), view.search, view.sortUp)

(* The selection is a name of the list however the list shrinks under it, and
   only an empty list ends the program, in the two overlays that index it
   unseen.                                                                    *)
SelectionIsInTheList ==
  /\ view.selected < Most(1, Len(view.stats))
  /\ down => view.stats = <<>> /\ kind # "assignees"
=============================================================================
