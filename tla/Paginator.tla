------------------------------ MODULE Paginator ------------------------------
(***************************************************************************)
(* render.Paginator: a cursor over a list and the window of rows around    *)
(* it.  Every list pane embeds one.  A paginator is a record; an operation *)
(* is an operator from one to the next.                                    *)
(***************************************************************************)
EXTENDS Integers

Least(a, b) == IF a < b THEN a ELSE b
Most(a, b) == IF a > b THEN a ELSE b

Paginators == [total : Nat, size : Nat \ {0}, cursor : Nat, offset : Nat]

NewPaginator(size) == [total |-> 0, size |-> Most(size, 1), cursor |-> 0, offset |-> 0]

MaxOffset(p) == Most(p.total - p.size, 0)

(* Slip: the row below the page counts as on it. *)
FollowedLate(p, cursor) ==
  IF cursor < p.offset THEN cursor
  ELSE IF cursor > p.offset + p.size THEN cursor - p.size + 1
  ELSE p.offset

(* The offset that keeps cursor on the page, scrolling no further than needed. *)
Followed(p, cursor) ==
  IF cursor < p.offset THEN cursor
  ELSE IF cursor >= p.offset + p.size THEN cursor - p.size + 1
  ELSE p.offset

(* Every motion, with the place it asks for, ends here. *)
ClampAt(p, cursor) ==
  IF p.total = 0
  THEN [p EXCEPT !.cursor = 0, !.offset = 0]
  ELSE LET at == Least(Most(cursor, 0), p.total - 1)
       IN  [p EXCEPT !.cursor = at,
                     !.offset = Least(Most(Followed(p, at), 0), MaxOffset(p))]

SetTotal(p, n) == LET q == [p EXCEPT !.total = Most(n, 0)] IN ClampAt(q, q.cursor)
SetPageSize(p, n) == LET q == [p EXCEPT !.size = Most(n, 1)] IN ClampAt(q, q.cursor)

Moved(p, delta) == ClampAt(p, p.cursor + delta)
PageDown(p) == Moved(p, p.size)
PageUp(p) == Moved(p, -p.size)
Top(p) == ClampAt(p, 0)
Bottom(p) == ClampAt(p, p.total - 1)
GotoLine(p, n) == ClampAt(p, n - 1)

(* The row leads the page unless the end of the list would leave it short. *)
ScrollTo(p, index) ==
  IF p.total = 0
  THEN [p EXCEPT !.cursor = 0, !.offset = 0]
  ELSE [p EXCEPT !.cursor = Least(Most(index, 0), p.total - 1),
                 !.offset = Least(Most(index, 0), MaxOffset(p))]

(* The cursor is in the list and on the page, and the page does not run past
   the end of a list that could fill it.                                     *)
Fits(p) ==
  /\ p.cursor >= p.offset /\ p.cursor < p.offset + p.size
  /\ p.offset <= MaxOffset(p)
  /\ p.total = 0 => p.cursor = 0
  /\ p.total > 0 => p.cursor < p.total
=============================================================================
