------------------------------ MODULE TextEditor ------------------------------
(***************************************************************************)
(* The four places of the terminal frontend where text is typed: the       *)
(* multi-line field (overlay/textarea.go), the single-line field           *)
(* (overlay/textinput.go), the editor of a patent's note                   *)
(* (overlay/patent_note_editor.go) with the daemon's calls that load,      *)
(* store and delete the note, and the prompt for commands                  *)
(* (overlay/prompt.go).  The first three can be switched to keys in the    *)
(* manner of vi; each has its own copy of them, and the copies differ.     *)
(*                                                                         *)
(* A text is a sequence of lines of characters, of which only the class    *)
(* matters: "w" belongs to a word, "s" is blank, "p" is punctuation.       *)
(* Columns and lines count from zero.  A handler that indexes past the end *)
(* of the text ends the program (down).                                    *)
(***************************************************************************)
EXTENDS Paginator, SequencesExt, FiniteSets

CONSTANTS
  Kinds,     \* of "area", "input", "note" and "prompt", those opened
  Texts,     \* what the field holds, or the daemon has stored, at first
  Letters,   \* the classes of characters typed
  Counts,    \* numbers typed before a motion
  Commands,  \* of the prompt: sets of what a command goes by, names first
  Presses,   \* a bound: keys pressed in each kind
  Room,      \* a bound: characters and lines of a text
  UndoCap,   \* how many states undo goes back
  Calls,     \* a bound: times the note is stored or deleted
  Faults     \* a bound: calls that fail

EditorAssumption ==
  /\ Kinds \subseteq {"area", "input", "note", "prompt"}
  /\ Letters \subseteq {"w", "s", "p"} /\ Counts \subseteq Nat \ {0}
  /\ \A t \in Texts : t # <<>>
  /\ Presses \in [Kinds -> Nat]
  /\ {Room, UndoCap, Calls, Faults} \subseteq Nat /\ UndoCap > 0

VARIABLES
  editor,    \* the overlay
  requests,  \* calls of the note editor
  stored,    \* the note the daemon has, or none
  down,      \* the program panicked
  strayed,   \* history: a stored note has been taken over from under the cursor
  crossed,   \* history: a call was made before another was answered
  budget

vars == <<editor, requests, stored, down, strayed, crossed, budget>>

None == <<>>     \* no note; a text has a line at least
Empty == << <<>> >>

-----------------------------------------------------------------------------
(* Texts. *)

Line(e) == e.text[e.line + 1]
Width(e) == Len(Line(e))
Col(e) == Least(e.column, Width(e))
Last0(e) == Len(e.text) - 1

Before(e) == SubSeq(Line(e), 1, Col(e))
After(e) == SubSeq(Line(e), Col(e) + 1, Width(e))

(* The lines before and after the cursor's. *)
Above(e) == SubSeq(e.text, 1, e.line)
Below(e) == SubSeq(e.text, e.line + 2, Len(e.text))

WithLine(e, l) == [e EXCEPT !.text = Above(e) \o <<l>> \o Below(e)]

(* strings.TrimSpace; None when nothing is left. *)
Trimmed(t) ==
  LET solid == UNION {{<<i, j>> : j \in {k \in DOMAIN t[i] : t[i][k] # "s"}} : i \in DOMAIN t}
      first == CHOOSE p \in solid : \A q \in solid : p[1] < q[1] \/ (p[1] = q[1] /\ p[2] <= q[2])
      last  == CHOOSE p \in solid : \A q \in solid : p[1] > q[1] \/ (p[1] = q[1] /\ p[2] >= q[2])
      cut   == [t EXCEPT ![last[1]] = SubSeq(@, 1, last[2])]
      both  == [cut EXCEPT ![first[1]] = SubSeq(@, first[2], Len(@))]
  IN  IF solid = {} THEN None ELSE SubSeq(both, first[1], last[1])

Size(t) == FoldLeft(LAMBDA n, l : n + Len(l) + 1, 0, t)

-----------------------------------------------------------------------------
(* Motions and changes: from an editor to the one after. *)

MoveLeft(e) ==
  IF e.column > 0 THEN [e EXCEPT !.column = @ - 1]
  ELSE IF e.line = 0 THEN e
  ELSE [e EXCEPT !.line = @ - 1, !.column = Len(e.text[e.line])]

MoveRight(e) ==
  IF e.column < Width(e) THEN [e EXCEPT !.column = @ + 1]
  ELSE IF e.line = Last0(e) THEN e
  ELSE [e EXCEPT !.line = @ + 1, !.column = 0]

(* Slip: the column stays where it was on a shorter line. *)
AtLineSameColumn(e, n) == [e EXCEPT !.line = Most(0, Least(n, Last0(e)))]

AtLine(e, n) ==
  LET l == Most(0, Least(n, Last0(e)))
  IN  [e EXCEPT !.line = l, !.column = Least(@, Len(e.text[l + 1]))]

MoveVertical(e, delta) == AtLine(e, e.line + delta)

GotoLine0(e, count, fallback) == AtLine(e, IF count > 0 THEN count - 1 ELSE fallback)

LineStart(e) == [e EXCEPT !.column = 0]
LineEnd(e) == [e EXCEPT !.column = Width(e)]
NextLine(e) == IF e.line < Last0(e) THEN [e EXCEPT !.line = @ + 1, !.column = 0] ELSE e

InWord(c) == c = "w"

(* Past the run of characters of one sort at col and the blanks behind it. *)
WordEnd(l, col) ==
  LET run == CHOOSE k \in col..Len(l) :
               /\ \A i \in col + 1..k : InWord(l[i]) = InWord(l[col + 1])
               /\ k = Len(l) \/ InWord(l[k + 1]) # InWord(l[col + 1])
  IN  CHOOSE k \in run..Len(l) :
        (\A i \in run + 1..k : l[i] = "s") /\ (k = Len(l) \/ l[k + 1] # "s")

(* The start of the run that ends before col, blanks behind it left out. *)
WordStart(l, col) ==
  LET solid == {k \in 0..col - 1 : l[k + 1] # "s"}
      at    == CHOOSE k \in solid : \A j \in solid : j <= k
  IN  IF solid = {} THEN 0
      ELSE CHOOSE k \in 0..at :
             /\ \A i \in k..at : InWord(l[i + 1]) = InWord(l[at + 1])
             /\ k = 0 \/ InWord(l[k]) # InWord(l[at + 1])

MoveWordForward(e) ==
  IF e.column >= Width(e) THEN NextLine(e)
  ELSE LET k == WordEnd(Line(e), e.column)
       IN  IF k < Width(e) THEN [e EXCEPT !.column = k] ELSE NextLine(e)

MoveWordBackward(e) ==
  LET l == IF e.column = 0 THEN e.line - 1 ELSE e.line
      w == Len(e.text[l + 1])
      c == IF e.column = 0 THEN w ELSE Least(e.column, w)
  IN  IF e.column = 0 /\ e.line = 0 THEN e
      ELSE [e EXCEPT !.line = l, !.column = WordStart(e.text[l + 1], c)]

InsertText(e, c) == [WithLine(e, Before(e) \o <<c>> \o After(e)) EXCEPT !.column = @ + 1]

InsertLine(e) ==
  [e EXCEPT !.text = Above(e) \o <<Before(e), After(e)>> \o Below(e), !.line = @ + 1, !.column = 0]

Backspace(e) ==
  IF e.column > 0
  THEN [WithLine(e, SubSeq(Line(e), 1, Col(e) - 1) \o After(e)) EXCEPT !.column = @ - 1]
  ELSE IF e.line = 0 THEN e
  ELSE [e EXCEPT !.text = SubSeq(e.text, 1, e.line - 1) \o <<e.text[e.line] \o Line(e)>> \o Below(e),
                 !.line = @ - 1, !.column = Len(e.text[e.line])]

DeleteForward(e) ==
  IF Col(e) < Width(e) THEN WithLine(e, Before(e) \o Tail(After(e)))
  ELSE IF e.line = Last0(e) THEN e
  ELSE [e EXCEPT !.text = Above(e) \o <<Line(e) \o Head(Below(e))>> \o Tail(Below(e))]

DeleteCurrentLine(e) ==
  IF Len(e.text) = 1 THEN [e EXCEPT !.text = Empty, !.line = 0, !.column = 0]
  ELSE [e EXCEPT !.text = Above(e) \o Below(e), !.line = Least(@, Len(e.text) - 2), !.column = 0]

DeleteToEndOfLine(e) == WithLine(e, Before(e))

DeleteWordForward(e) ==
  IF Col(e) >= Width(e) THEN e
  ELSE WithLine(e, Before(e) \o SubSeq(Line(e), WordEnd(Line(e), Col(e)) + 1, Width(e)))

DeleteToEndOfFile(e) == [e EXCEPT !.text = Above(e) \o <<Before(e)>>]

OpenLineAbove(e) ==
  [e EXCEPT !.text = Above(e) \o Empty \o SubSeq(@, e.line + 1, Len(@)), !.column = 0]
OpenLineBelow(e) ==
  [e EXCEPT !.text = Above(e) \o <<Line(e), <<>> >> \o Below(e), !.line = @ + 1, !.column = 0]

Snapshot(e) == [text |-> e.text, line |-> e.line, column |-> e.column]

SaveUndo(e) ==
  LET more == Append(e.undos, Snapshot(e))
  IN  [e EXCEPT !.undos = IF Len(more) > UndoCap THEN Tail(more) ELSE more]

Undo(e) ==
  IF e.undos = <<>> THEN e
  ELSE LET s == Last(e.undos)
       IN  [e EXCEPT !.text = s.text, !.line = s.line, !.column = s.column, !.undos = Front(@)]

Inserting(e) == [e EXCEPT !.insert = TRUE]

(* ctrl+] *)
VimToggle(e) ==
  IF e.vim THEN [e EXCEPT !.vim = FALSE]
  ELSE SaveUndo([e EXCEPT !.vim = TRUE, !.insert = FALSE, !.pending = ""])

-----------------------------------------------------------------------------
Fresh(k, t) ==
  [kind |-> k, text |-> t, line |-> 0, column |-> 0,
   vim |-> FALSE, insert |-> FALSE, pending |-> "", count |-> 0, undos |-> <<>>,
   loading |-> FALSE, note |-> None, known |-> FALSE, dirty |-> FALSE, confirm |-> FALSE,
   direct |-> FALSE, shown |-> <<>>, page |-> NewPaginator(8)]

(* NewTextArea: the cursor is behind the text. *)
NewTextArea(t) == LineEnd([Fresh("area", t) EXCEPT !.line = Len(t) - 1])

NewTextInput == Fresh("input", Empty)
NewPatentNoteEditor == [Fresh("note", Empty) EXCEPT !.loading = TRUE]

InText(e) == e.line \in 0..Last0(e) /\ e.column \in 0..Width(e)

(* A panic: the cursor's line is not there, or there is nothing before it. *)
NoLine(e) == e.line > Last0(e)
NothingBefore(e) == ~NoLine(e) /\ e.column > 0 /\ Width(e) = 0
TakenBack(e) == IF NothingBefore(e) THEN {} ELSE {Backspace(e)}

Press == ~down /\ budget.presses > 0 /\ budget' = [budget EXCEPT !.presses = @ - 1]

Becomes(e) ==
  /\ Size(e.text) <= Most(Room, Size(editor.text))
  /\ editor' = e
  /\ UNCHANGED <<requests, stored, down, strayed, crossed>>

Panics == down' = TRUE /\ UNCHANGED <<editor, requests, stored, strayed, crossed>>

(* What is typed. *)
Typed(e) == {InsertText(e, c) : c \in Letters} \cup {InsertLine(e), DeleteForward(e)} \cup TakenBack(e)
Arrows(e) == {MoveLeft(e), MoveRight(e), MoveVertical(e, 1), MoveVertical(e, -1)}
Pages(e, rows) == {MoveVertical(e, rows), MoveVertical(e, -rows)}

(* Between Esc and a command of normal mode a count may be typed. *)
NoCount(e) == [e EXCEPT !.count = 0]
Digits(e) == {[e EXCEPT !.count = n] : n \in Counts}
Prefix(e, keys) == {[e EXCEPT !.pending = k] : k \in keys}
Zero(e) == IF e.count > 0 THEN {} ELSE {LineStart(e)}

-----------------------------------------------------------------------------
(* The multi-line field. *)

AreaPlainKey ==
  /\ editor.kind = "area" /\ ~editor.vim
  /\ Press
  /\ \E e \in Typed(editor) \cup Arrows(editor) \cup Pages(editor, 10) \cup {VimToggle(editor)} :
       Becomes(e)

AreaInsertKey ==
  /\ editor.kind = "area" /\ editor.vim /\ editor.pending = "" /\ editor.insert
  /\ Press
  /\ \E e \in Typed(editor) \cup Arrows(editor) \cup {[editor EXCEPT !.insert = FALSE], VimToggle(editor)} :
       Becomes(e)

(* Slip: the state undo is to go back to is taken after the line was opened. *)
AreaOpensLate(e) == {Inserting(SaveUndo(OpenLineBelow(e))), Inserting(SaveUndo(OpenLineAbove(e)))}

AreaOpens(e) == {Inserting(OpenLineBelow(SaveUndo(e))), Inserting(OpenLineAbove(SaveUndo(e)))}

AreaCommands(e) ==
  {Inserting(SaveUndo(e)),                                                       \* i
   Inserting(SaveUndo([e EXCEPT !.column = IF @ < Width(e) THEN @ + 1 ELSE @])),  \* a
   Inserting(SaveUndo(LineStart(e))), Inserting(SaveUndo(LineEnd(e))),           \* I, A
   DeleteForward(SaveUndo(e)), Backspace(SaveUndo(e)),                           \* x, X
   LineEnd(e), MoveWordForward(e), MoveWordBackward(e), Undo(e)}                 \* $, w, b, u

AreaNormalKey ==
  /\ editor.kind = "area" /\ editor.vim /\ editor.pending = "" /\ ~editor.insert
  /\ Press
  /\ LET e == NoCount(editor)
     IN  \E f \in AreaCommands(e) \cup AreaOpens(e) \cup Arrows(e) \cup Zero(editor)
                   \cup {GotoLine0(e, editor.count, Last0(e))}                   \* G
                   \cup Prefix(editor, {"g", "d"}) \cup Digits(editor)
                   \cup Arrows(editor) \cup {VimToggle(editor)} :
           Becomes(f)

(* Any key after d is one that can be undone; only characters end it otherwise. *)
AreaPendingKey ==
  /\ editor.kind = "area" /\ editor.vim /\ editor.pending # ""
  /\ Press
  /\ LET e == NoCount([editor EXCEPT !.pending = ""])
     IN  \E f \in {e, VimToggle(editor)} \cup
                  (IF editor.pending = "g" THEN {GotoLine0(e, editor.count, 0)}
                   ELSE {SaveUndo(e), DeleteCurrentLine(SaveUndo(e)), DeleteToEndOfLine(SaveUndo(e)),
                         DeleteWordForward(SaveUndo(e)), DeleteToEndOfFile(SaveUndo(e))}) :
           Becomes(f)

-----------------------------------------------------------------------------
(* The single-line field: no lines to go to, and a d of its own. *)

InputEdits(e) == {InsertText(e, c) : c \in Letters} \cup {Backspace(e)}
InputArrows(e) == {MoveLeft(e), MoveRight(e)}

InputPlainKey ==
  /\ editor.kind = "input" /\ (~editor.vim \/ editor.insert)
  /\ Press
  /\ \E e \in InputEdits(editor) \cup InputArrows(editor) \cup {VimToggle(editor)}
              \cup (IF editor.vim THEN {[editor EXCEPT !.insert = FALSE]} ELSE {}) :
       Becomes(e)

MoveTextWordForward(e) ==
  IF e.column >= Width(e) THEN e ELSE [e EXCEPT !.column = WordEnd(Line(e), e.column)]
MoveTextWordBackward(e) ==
  IF e.column = 0 THEN e ELSE [e EXCEPT !.column = WordStart(Line(e), e.column)]

InputNormalKey ==
  /\ editor.kind = "input" /\ editor.vim /\ ~editor.insert
  /\ Press
  /\ \E e \in {Inserting(SaveUndo(editor)),                                            \* i
               Inserting(SaveUndo(MoveRight(editor))),                                 \* a
               Inserting(SaveUndo(LineStart(editor))), Inserting(SaveUndo(LineEnd(editor))),
               DeleteForward(SaveUndo(editor)), Backspace(SaveUndo(editor)),           \* x, X
               IF editor.text = Empty THEN editor
               ELSE LineStart([SaveUndo(editor) EXCEPT !.text = Empty]),               \* d
               DeleteToEndOfLine(SaveUndo(editor)),                                    \* D
               LineStart(editor), LineEnd(editor), MoveTextWordForward(editor),
               MoveTextWordBackward(editor), Undo(editor), VimToggle(editor)}
              \cup InputArrows(editor) :
       Becomes(e)

-----------------------------------------------------------------------------
(* The note editor.  What changes the text marks it modified. *)

Dirty(e) == [e EXCEPT !.dirty = TRUE]
DirtyIfChanged(e, f) == IF f.text # e.text THEN Dirty(f) ELSE f

NoteTyped(e) == {DirtyIfChanged(e, f) : f \in Typed(e)}

NoteReady == editor.kind = "note" /\ ~editor.loading /\ ~editor.confirm

(* A line that is gone is indexed by most keys.  Those are free that are not
   (near: only just past the end, where the line before it is looked at).     *)
NoteKeyOf(edits, free) ==
  /\ Press
  /\ \/ \E e \in free : Becomes(e)
     \/ ~NoLine(editor) /\ \E e \in edits : Becomes(e)

NotePanics ==
  /\ NoteReady /\ Press
  /\ \/ NoLine(editor) /\ editor.pending # "g"
     \/ NothingBefore(editor) /\ editor.pending = ""
  /\ Panics

Near(e) == e.line = Last0(e) + 1
Left(e) == IF ~NoLine(e) \/ e.column > 0 \/ Near(e) THEN {MoveLeft(e)} ELSE {}
Verticals(e) == {MoveVertical(e, 1), MoveVertical(e, -1)}

NotePlainKey ==
  /\ NoteReady /\ ~editor.vim
  /\ NoteKeyOf(NoteTyped(editor) \cup {MoveRight(editor)},
               Left(editor) \cup Verticals(editor) \cup Pages(editor, 10) \cup {VimToggle(editor)}
                 \cup (IF Trimmed(editor.text) # None \/ editor.note # None
                       THEN {[editor EXCEPT !.confirm = TRUE]} ELSE {}))                \* D

NoteInsertKey ==
  /\ NoteReady /\ editor.vim /\ editor.pending = "" /\ editor.insert
  /\ NoteKeyOf(NoteTyped(editor) \cup {MoveRight(editor)},
               Left(editor) \cup Verticals(editor) \cup {[editor EXCEPT !.insert = FALSE], VimToggle(editor)})

(* A line opened is saved for undo after it is there. *)
NoteCommands(e) ==
  {Inserting(SaveUndo(MoveRight(e))), Inserting(SaveUndo(LineEnd(e))),                  \* a, A
   Inserting(SaveUndo(Dirty(OpenLineBelow(e)))), Inserting(SaveUndo(Dirty(OpenLineAbove(e)))),
   DirtyIfChanged(e, DeleteForward(SaveUndo(e))),                                       \* x
   Dirty(DeleteToEndOfLine(SaveUndo(e))),                                               \* D
   MoveRight(e), LineEnd(e), MoveWordForward(e), MoveWordBackward(e)}
  \cup {DirtyIfChanged(e, f) : f \in TakenBack(SaveUndo(e))}                           \* X

NoteFreeCommands(e) ==
  {Inserting(SaveUndo(e)), Inserting(SaveUndo(LineStart(e))),                           \* i, I
   IF e.undos = <<>> THEN e ELSE Dirty(Undo(e))}                                        \* u
  \cup Left(e) \cup Verticals(e)
  \cup (IF Near(e) THEN {Inserting(SaveUndo(Dirty(OpenLineAbove(e))))} ELSE {})
  \cup (IF Near(e) /\ e.column = 0 THEN {MoveWordBackward(e)} ELSE {})

NoteNormalKey ==
  /\ NoteReady /\ editor.vim /\ editor.pending = "" /\ ~editor.insert
  /\ LET e == NoCount(editor)
     IN  NoteKeyOf(NoteCommands(e) \cup {MoveRight(editor)},
                   NoteFreeCommands(e) \cup {GotoLine0(e, editor.count, Last0(e)), VimToggle(editor)}
                     \cup Left(editor) \cup Verticals(editor) \cup Zero(editor)
                     \cup Pages(editor, 10) \cup Pages(editor, 5)
                     \cup Prefix(editor, {"g", "d"}) \cup Digits(editor))

NotePendingKey ==
  /\ NoteReady /\ editor.vim /\ editor.pending # ""
  /\ LET e == NoCount([editor EXCEPT !.pending = ""])
         dd == Dirty(DeleteCurrentLine(SaveUndo(e)))
     IN  IF editor.pending = "g" THEN NoteKeyOf({}, {e, GotoLine0(e, editor.count, 0), VimToggle(editor)})
         ELSE NoteKeyOf({dd, Dirty(DeleteToEndOfLine(SaveUndo(e))),
                         DirtyIfChanged(e, DeleteWordForward(SaveUndo(e))),
                         Dirty(DeleteToEndOfFile(SaveUndo(e)))},
                        {e, VimToggle(editor)} \cup (IF Len(e.text) = 1 THEN {dd} ELSE {}))

Calling(what, fields) ==
  /\ budget.calls > 0
  /\ requests' = requests \cup {[what |-> what, stage |-> "issued", id |-> budget.calls] @@ fields}
  /\ crossed' = (crossed \/ requests # {})
  /\ UNCHANGED <<stored, down, strayed>>

(* openedAt, in brackets, before the text of a new note. *)
Stamped(t) == [t EXCEPT ![1] = <<"p", "w", "s">> \o @]

(* ctrl+s *)
SaveKey ==
  /\ NoteReady /\ ~down /\ (editor.vim => editor.pending = "")
  /\ Trimmed(editor.text) # None
  /\ Calling("save", [note |-> IF editor.note = None THEN Stamped(Trimmed(editor.text))
                               ELSE Trimmed(editor.text)])
  /\ budget' = [budget EXCEPT !.calls = @ - 1]
  /\ UNCHANGED editor

ConfirmKey ==
  /\ editor.kind = "note" /\ ~editor.loading /\ editor.confirm /\ ~down
  /\ editor' = [editor EXCEPT !.confirm = FALSE]
  /\ \/ Calling("delete", [note |-> None]) /\ budget' = [budget EXCEPT !.calls = @ - 1]  \* y
     \/ UNCHANGED <<requests, stored, down, strayed, crossed, budget>>                  \* n

(* The daemon. A note is written, and then read for the answer. *)
Serve(r, stage, note) ==
  /\ requests' = (requests \ {r}) \cup {[r EXCEPT !.stage = stage, !.note = note]}
  /\ UNCHANGED <<editor, down, strayed, crossed>>

PatentGet(r) ==
  /\ r.what = "load" /\ r.stage = "issued"
  /\ Serve(r, "answered", stored) /\ UNCHANGED <<stored, budget>>

SavePatentNote(r) ==
  /\ r.what = "save" /\ r.stage = "issued"
  /\ stored' = Trimmed(r.note) /\ Serve(r, "written", None) /\ UNCHANGED budget

SavedPatentNote(r) ==
  /\ r.what = "save" /\ r.stage = "written"
  /\ Serve(r, IF stored = None THEN "failed" ELSE "answered", stored) /\ UNCHANGED <<stored, budget>>

DeletePatentNote(r) ==
  /\ r.what = "delete" /\ r.stage = "issued"
  /\ stored' = None /\ Serve(r, "answered", None) /\ UNCHANGED budget

CallFails(r) ==
  /\ r.stage \in {"issued", "written"} /\ budget.faults > 0
  /\ budget' = [budget EXCEPT !.faults = @ - 1]
  /\ Serve(r, "failed", None) /\ UNCHANGED stored

Handled(r) == requests' = requests \ {r} /\ UNCHANGED <<stored, down, crossed, budget>>

PatentNoteLoaded(r) ==
  /\ r.what = "load" /\ r.stage \in {"answered", "failed"} /\ Handled(r)
  /\ editor' = IF r.stage = "failed" THEN [editor EXCEPT !.loading = FALSE]
               ELSE [editor EXCEPT !.loading = FALSE, !.known = TRUE, !.note = r.note,
                                   !.text = IF r.note = None THEN @ ELSE r.note]
  /\ UNCHANGED strayed

(* The cursor stays where it is, whatever the note taken over looks like. *)
PatentNoteSaved(r) ==
  /\ r.what = "save" /\ r.stage \in {"answered", "failed"} /\ Handled(r)
  /\ editor' = IF r.stage = "failed" THEN editor
               ELSE [editor EXCEPT !.known = TRUE, !.note = r.note, !.text = r.note,
                                   !.dirty = FALSE, !.confirm = FALSE]
  /\ strayed' = (strayed \/ ~InText(editor'))

(* Slip: the text of the note that was deleted stays. *)
PatentNoteDeletedInStoreOnly(r) ==
  /\ r.what = "delete" /\ r.stage \in {"answered", "failed"} /\ Handled(r)
  /\ editor' = IF r.stage = "failed" THEN editor
               ELSE [editor EXCEPT !.known = TRUE, !.note = None, !.dirty = FALSE, !.confirm = FALSE]
  /\ UNCHANGED strayed

PatentNoteDeleted(r) ==
  /\ r.what = "delete" /\ r.stage \in {"answered", "failed"} /\ Handled(r)
  /\ editor' = IF r.stage = "failed" THEN editor
               ELSE [editor EXCEPT !.known = TRUE, !.note = None, !.text = Empty, !.line = 0, !.column = 0,
                                   !.dirty = FALSE, !.confirm = FALSE]
  /\ UNCHANGED strayed

-----------------------------------------------------------------------------
(* The prompt. *)

(* How well a needle fits a field, the less the better; none fits worse than
   with its letters scattered.                                               *)
Unfit == 1000

(* Slip: every letter is looked for from the start of the field. *)
ScatteredAnyhow(field, needle) ==
  IF \A i \in DOMAIN needle : Contains(field, needle[i])
  THEN [i \in DOMAIN needle |-> CHOOSE j \in DOMAIN field : field[j] = needle[i]] ELSE <<Unfit>>

(* Where each letter is first found behind the one before. *)
Scattered(field, needle) ==
  FoldLeft(LAMBDA at, c :
             LET next == {i \in DOMAIN field : c = field[i] /\ (at = <<>> \/ i > Last(at))}
             IN  IF at = <<Unfit>> \/ next = {} THEN <<Unfit>>
                 ELSE Append(at, CHOOSE i \in next : \A j \in next : i <= j),
           <<>>, needle)

Subsequence(field, needle) == Scattered(field, needle) # <<Unfit>>
SubsequenceGap(field, needle) ==
  LET at == Scattered(field, needle) IN (Last(at) - Head(at) + 1) - Len(needle)

FieldScore(field, needle) ==
  LET at == {i \in 1..(Len(field) - Len(needle) + 1) : SubSeq(field, i, i + Len(needle) - 1) = needle}
  IN  IF field = needle THEN 0
      ELSE IF 1 \in at THEN 10 + Len(field) - Len(needle)
      ELSE IF at # {} THEN 100 + (CHOOSE i \in at : \A j \in at : i <= j) - 1
      ELSE IF Subsequence(field, needle) THEN 200 + SubsequenceGap(field, needle)
      ELSE Unfit

PromptScore(c, needle) ==
  IF needle = <<>> THEN Unfit
  ELSE LET scores == {FieldScore(Commands[c][i], needle) : i \in DOMAIN Commands[c]}
       IN  CHOOSE s \in scores : \A t \in scores : s <= t

(* filter *)
Filter(e) ==
  LET t == Trimmed(e.text)
      needle == IF t = None THEN <<>> ELSE t[1]
      fit == {c \in DOMAIN Commands : needle = <<>> \/ PromptScore(c, needle) < Unfit}
      shown == SetToSortSeq(fit, LAMBDA a, b :
                 \/ PromptScore(a, needle) < PromptScore(b, needle)
                 \/ PromptScore(a, needle) = PromptScore(b, needle) /\ a < b)
      e1 == [e EXCEPT !.shown = shown, !.page = SetTotal(@, Len(shown))]
  IN  IF shown = <<>> THEN [e1 EXCEPT !.page = Top(@)] ELSE e1

NewPrompt == {Filter([Fresh("prompt", Empty) EXCEPT !.direct = d]) : d \in BOOLEAN}

PromptSelected(e) == IF e.shown = <<>> THEN {} ELSE {e.shown[e.page.cursor + 1]}

PromptKey ==
  /\ editor.kind = "prompt"
  /\ Press
  /\ \E e \in {Filter(InsertText(editor, c)) : c \in Letters}
              \cup (IF editor.column = 0 THEN {} ELSE {Filter(Backspace(editor))})
              \cup {Filter(LineEnd([editor EXCEPT !.text = <<Commands[c][1]>>])) : c \in PromptSelected(editor)}  \* Tab
              \cup InputArrows(editor)
              \cup {[editor EXCEPT !.page = p] : p \in {Moved(editor.page, 1), Moved(editor.page, -1),
                                                       PageDown(editor.page), PageUp(editor.page)}}
              \cup {[editor EXCEPT !.page = SetPageSize(@, n)] : n \in {1, 2}} :                             \* View
       Becomes(e)

-----------------------------------------------------------------------------
Init ==
  /\ editor \in (IF "area" \in Kinds THEN {NewTextArea(t) : t \in Texts} ELSE {})
               \cup (IF "input" \in Kinds THEN {NewTextInput} ELSE {})
               \cup (IF "note" \in Kinds THEN {NewPatentNoteEditor} ELSE {})
               \cup (IF "prompt" \in Kinds THEN NewPrompt ELSE {})
  /\ stored \in IF editor.kind = "note" THEN {Trimmed(t) : t \in Texts} ELSE {None}
  /\ requests = IF editor.kind = "note"
                THEN {[what |-> "load", stage |-> "issued", id |-> 0, note |-> None]} ELSE {}
  /\ down = FALSE /\ strayed = FALSE /\ crossed = FALSE
  /\ budget = [presses |-> Presses[editor.kind], calls |-> Calls, faults |-> Faults]

Note(r) ==
  /\ ~down
  /\ \/ PatentGet(r) \/ SavePatentNote(r) \/ SavedPatentNote(r) \/ DeletePatentNote(r) \/ CallFails(r)
     \/ PatentNoteLoaded(r) \/ PatentNoteSaved(r) \/ PatentNoteDeleted(r)

Next ==
  \/ AreaPlainKey \/ AreaInsertKey \/ AreaNormalKey \/ AreaPendingKey
  \/ InputPlainKey \/ InputNormalKey
  \/ NotePlainKey \/ NotePanics \/ NoteInsertKey \/ NoteNormalKey \/ NotePendingKey \/ SaveKey \/ ConfirmKey
  \/ \E r \in requests : Note(r)
  \/ PromptKey

Spec == Init /\ [][Next]_vars

-----------------------------------------------------------------------------
(* No key, motion, undo or answer takes the cursor out of the text, and none
   panics, but for a note that was stored: what the daemon answers replaces the
   text under the cursor.                                                     *)
CursorInText ==
  /\ ~strayed =>
       /\ ~down
       /\ InText(editor)
  /\ editor.kind = "prompt" => Fits(editor.page) /\ editor.page.total = Len(editor.shown)

(* One u takes back one command of normal mode: what it changed is on the undo
   list as it was.  The note editor does not keep to it (NoteCommands).        *)
UndoableByOne ==
  /\ editor.kind \in {"area", "input"} /\ editor.vim /\ ~editor.insert
  /\ editor'.text # editor.text /\ editor' # NoCount(Undo(editor)) /\ editor' # Undo(editor)
  => Last(editor'.undos) = Snapshot(editor)

(* A note that is shown as unmodified is the one the daemon has, when the editor
   knew what was there and its calls did not cross.                            *)
CleanIsStored ==
  editor.kind = "note" /\ editor.known /\ ~editor.dirty /\ ~crossed /\ requests = {} =>
    editor.text = IF stored = None THEN Empty ELSE stored

ScatteredIn(field, needle) ==
  \E at \in [DOMAIN needle -> DOMAIN field] :
    \A i \in DOMAIN needle : field[at[i]] = needle[i] /\ \A j \in 1..i - 1 : at[j] < at[i]

(* What the prompt lists holds the letters typed in their order, and nothing
   that does is left out; an exact name comes first.                           *)
PromptListsMatches ==
  editor.kind = "prompt" =>
    LET t == Trimmed(editor.text) IN
    t # None =>
      /\ \A c \in DOMAIN Commands :
           Contains(editor.shown, c) <=> \E i \in DOMAIN Commands[c] : ScatteredIn(Commands[c][i], t[1])
      /\ \A c \in DOMAIN Commands : Commands[c][1] = t[1] =>
           \E i \in DOMAIN Commands[editor.shown[1]] : Commands[editor.shown[1]][i] = t[1]
=============================================================================
