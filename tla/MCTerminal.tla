------------------------------ MODULE MCTerminal ------------------------------
(***************************************************************************)
(* Small instances for TLC of the screens of the terminal frontend, one at *)
(* a time: the patent list (CatalogPane), the family edges of a patent     *)
(* (EdgePane), the panes that load a whole list (ListPanes), the           *)
(* statistics overlays (StatsOverlay), the overlays of tags and classes    *)
(* (Labels), the panes of one patent (PatentPanes) and the places text is  *)
(* typed in (TextEditor).  The variables of a screen that is not shown     *)
(* stand still; screens share the names of those they both have.           *)
(***************************************************************************)
EXTENDS Integers, Sequences, FiniteSets

CONSTANTS
  Screens,      \* those shown
  Faults,       \* see CatalogPane
  Reopenings,   \* see StatsOverlay
  Busy          \* see StatsOverlay and PatentPanes

VARIABLES
  screen,    \* the one shown
  requests, db, down, budget,      \* of several screens
  pane, told, landing, again,      \* of the patent list and a patent's edges
  narrowed,                        \* of the edges
  kind, view, failed,              \* of the lists, statistics, labels and a patent
  notes,                           \* of a patent
  promised,                        \* of the tags and classes
  editor, stored, strayed, crossed \* of the editors

Catalog == INSTANCE CatalogPane WITH
  Keys <- 1..4, Found <- {2, 3}, Classed <- {1, 2}, Members <- {1, 2, 3}, Listed <- {2, 3, 4},
  Relations <- [k \in 1..4 |-> {(k % 4) + 1}],
  Heights <- {1, 2}, Chrome <- 1, DefaultPage <- 3, Events <- 3, Outstanding <- 1

Edges == INSTANCE EdgePane WITH
  Keys <- 1..2, Found <- {2}, Classed <- {1, 2}, Members <- {1}, Listed <- {1, 2},
  Relations <- [k \in 1..2 |-> {}], Heights <- {1}, Chrome <- 1, DefaultPage <- 3,
  Widths <- {80, 145}, Events <- 3, Outstanding <- 1

Panes == INSTANCE ListPanes WITH
  Kinds <- {"projects", "orphans", "notes", "history"}, Ids <- 1..3, Changing <- {2}, Owners <- {1, 2},
  Titles <- [i \in 1..3 |-> 4 - i], States <- [i \in 1..3 |-> i % 2],
  Searches <- {{2}}, Scopes <- <<1..3, {1, 3}>>, LastUsed <- 2, Window <- 1, Heights <- {1, 2},
  Steps <- [projects |-> 4, orphans |-> 4, notes |-> 3, history |-> 6], Outstanding <- 1

Stats == INSTANCE StatsOverlay WITH
  Kinds <- {"inventors", "assignees", "classes"}, Names <- 1..2,
  Lists <- {{}, {1, 2}, {2}}, Searches <- {{}, {2}}, Owned <- {2},
  Patents <- [n \in 1..2 |-> 3], FirstPage <- 2, Heights <- {1}, Steps <- 3, Outstanding <- 1

Editor == INSTANCE TextEditor WITH
  Kinds <- {"area", "input", "note", "prompt"},
  Texts <- {<< <<>> >>, << <<"w", "s">>, <<"p", "w">> >>},
  Letters <- {"w", "s"}, Counts <- {2},
  Commands <- << << <<"w", "w">>, <<"p", "w">> >>, << <<"w", "p", "w">> >>, << <<"p">> >> >>,
  Presses <- [area |-> 5, input |-> 5, note |-> 4, prompt |-> 5],
  Room <- 6, UndoCap <- 2, Calls <- 2

Labels == INSTANCE Labels WITH
  Kinds <- {"taxonomy", "ticks", "registry", "classes"}, Tags <- 1..2, Patents <- <<1, 2>>,
  Codes <- 1..3, Unsupported <- {3}, Titles <- [c \in 1..3 |-> 4 - c], Classed <- <<2, 3, 1>>,
  Steps <- 4, Outstanding <- 1

Patent == INSTANCE PatentPanes WITH
  Kinds <- {"detail", "text", "ids"}, Projects <- {1, 2},
  Texts <- [uspto |-> [claims |-> 2, paras |-> 1], google |-> [claims |-> 1, paras |-> 1]],
  Wraps <- {1, 2}, Heights <- {3}, Steps <- [detail |-> 2, text |-> 3, ids |-> 3], Outstanding <- 1

ASSUME Catalog!CatalogAssumption
ASSUME Edges!EdgesAssumption
ASSUME Panes!ListsAssumption
ASSUME Stats!StatsAssumption
ASSUME Labels!LabelsAssumption
ASSUME Patent!PanesAssumption
ASSUME Editor!EditorAssumption

CatalogVars == <<pane, told, landing, again>>
StatsVars == <<kind, view, failed>>
ViewVars == <<kind, view>>
EditorVars == <<editor, stored, strayed, crossed>>
vars == <<screen, requests, db, down, budget, CatalogVars, narrowed, StatsVars, notes, promised, EditorVars>>

NoCatalog == pane = 0 /\ told = 0 /\ landing = 0 /\ again = 0
NoEdges == narrowed = 0
NoView == kind = 0 /\ view = 0
NoStats == NoView /\ failed = 0
NoPatent == notes = 0
NoLabels == promised = 0
NoEditor == editor = 0 /\ stored = 0 /\ strayed = 0 /\ crossed = 0

Init ==
  /\ screen \in Screens
  /\ \/ screen = "catalog" /\ Catalog!Init /\ down = 0 /\ NoEdges /\ NoStats /\ NoPatent /\ NoLabels /\ NoEditor
     \/ screen = "edges" /\ Edges!EdgesInit /\ NoView /\ NoPatent /\ NoLabels /\ NoEditor
     \/ screen = "lists" /\ Panes!Init /\ pane = 0 /\ landing = 0 /\ again = 0
        /\ NoEdges /\ failed = 0 /\ NoPatent /\ NoLabels /\ NoEditor
     \/ screen = "stats" /\ Stats!Init /\ NoCatalog /\ NoEdges /\ NoPatent /\ NoLabels /\ NoEditor
     \/ screen = "patent" /\ Patent!Init /\ down = 0 /\ pane = 0 /\ landing = 0 /\ again = 0
        /\ NoEdges /\ failed = 0 /\ NoLabels /\ NoEditor
     \/ screen = "labels" /\ Labels!Init /\ NoCatalog /\ NoEdges /\ failed = 0
        /\ NoPatent /\ editor = 0 /\ stored = 0 /\ crossed = 0
     \/ screen = "editor" /\ Editor!Init /\ db = 0 /\ NoCatalog /\ NoEdges /\ NoStats /\ NoPatent /\ NoLabels

Next ==
  /\ UNCHANGED screen
  /\ \/ screen = "catalog" /\ Catalog!Next /\ UNCHANGED <<down, narrowed, StatsVars, notes, promised, EditorVars>>
     \/ screen = "edges" /\ Edges!EdgesNext /\ UNCHANGED <<ViewVars, notes, promised, EditorVars>>
     \/ screen = "lists" /\ Panes!Next
        /\ UNCHANGED <<pane, landing, again, narrowed, failed, notes, promised, EditorVars>>
     \/ screen = "stats" /\ Stats!Next /\ UNCHANGED <<CatalogVars, narrowed, notes, promised, EditorVars>>
     \/ screen = "patent" /\ Patent!Next
        /\ UNCHANGED <<down, pane, landing, again, narrowed, failed, promised, EditorVars>>
     \/ screen = "labels" /\ Labels!Next
        /\ UNCHANGED <<CatalogVars, narrowed, failed, notes, editor, stored, crossed>>
     \/ screen = "editor" /\ Editor!Next
        /\ UNCHANGED <<db, CatalogVars, narrowed, StatsVars, notes, promised>>

Spec == Init /\ [][Next]_vars

(* On every screen the cursor is on a row of its list and on the page, or in the
   text, whatever order motions, resizings, answers and shrinking lists come in;
   only an empty list of statistics ends the program.                           *)
CursorsStayInside ==
  /\ screen = "catalog" => Catalog!PageHoldsCursor
  /\ screen = "edges" => Edges!PageHoldsCursor /\ Edges!FocusIsAColumn
  /\ screen = "lists" => Panes!CursorIsOnTheList
  /\ screen = "stats" => Stats!SelectionIsInTheList
  /\ screen = "labels" => Labels!SelectionIsListed
  /\ screen = "patent" => Patent!CursorIsOnALine
  /\ screen = "editor" => Editor!CursorInText

(* When nothing a screen waits for is on its way, it shows what it asked for:
   the list as it is, the patents of the name that is selected, the tags and
   classes there are, the patents tagged as they were ticked, the entry, review
   state and text of a patent, the note that is stored, the commands the letters
   typed fit; and no passage noted is lost.                                       *)
SettledScreensAreFresh ==
  /\ screen = "catalog" => Catalog!SettledListIsFresh
  /\ screen = "edges" => Edges!SettledListIsFresh /\ Edges!RowsAreDescribed
  /\ screen = "lists" => Panes!RestingListIsFresh
  /\ screen = "stats" => Stats!RowsAnswerTheSelection
  /\ screen = "labels" => Labels!ListIsFresh /\ Labels!TicksAreApplied
  /\ screen = "patent" => Patent!RestingPaneIsFresh /\ Patent!SentIsDated /\ Patent!NotesKept
  /\ screen = "editor" => Editor!CleanIsStored /\ Editor!PromptListsMatches

(* The spinner of loading is shown only while an answer that will end it is on
   its way: no handler that starts, waits or cancels leaves it on for good.     *)
LoadingIsAnswered ==
  /\ screen = "catalog" => Catalog!LoadingIsAnswered
  /\ screen = "edges" => Edges!LoadingIsAnswered
  /\ screen = "lists" => Panes!NewestIsAwaited
  /\ screen = "labels" => Labels!WaitingIsAnswered
  /\ screen = "patent" => Patent!LoadIsAwaited

(* Expanding a collapsed view ends on the patent the user started from
   (setRelationFilter), wherever in the list it is.                             *)
LandsOnTheAnchor == screen = "catalog" => Catalog!LandsOnTheAnchor

(* One u takes back one command of normal mode: what it changed is on the undo
   list as it was.                                                              *)
UndoBringsItBack == [][screen = "editor" => Editor!UndoableByOne]_vars

(* A command on a visual selection acts on the rows that are painted as
   selected.  It does not: see Catalog_selection.cfg.                           *)
SelectionsAreTheVisualRange == screen = "catalog" => Catalog!SelectionsAreTheVisualRange

(* A key never ends the program: not even sorting by a column that the table lost
   when the window was narrowed.  (pane/citations.go:285-290)                       *)
SortFindsItsColumn == screen = "edges" => ~down
=============================================================================
