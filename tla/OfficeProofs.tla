---------------------------- MODULE OfficeProofs ----------------------------
(***************************************************************************)
(* Safety of Office for any calls, scenarios, answers of the office and    *)
(* sizes of a file.                                                        *)
(*                                                                         *)
(* Every step moves one call and keeps its operation (Moves); beyond that  *)
(* only a download and a clearing touch the others, by taking a reader's   *)
(* promise away.  On top of that stand three invariants:                   *)
(*   Ownership   what a call between its two transactions will rebuild     *)
(*               from is the chain that was saved last;                    *)
(*   KeepsMode   what a crawl has asked and may still ask under its mode;  *)
(*   Promised    the kind whose whole file a reader has yet to come to.    *)
(***************************************************************************)
EXTENDS Office, FiniteSetTheorems, TLAPS

StateFields == {"op", "pc", "then", "ok", "ask", "mode", "res", "asked", "answered", "links", "kinds",
                "prior", "piece", "copy", "chain", "picked", "sure"}

\* Where an ensured application or an ingested file leads.
Followers == {"done", "pick", "request", "again", "access"}

\* The stages of a call that has seen the application's row.
Holding == {"pick", "prior", "stat", "cached", "access", "download", "write", "log", "parse",
            "save grant", "cite", "compare", "fill", "body", "again"}

Formed(s) ==
    /\ DOMAIN s = StateFields
    /\ s.op \in Operations
    /\ s.then \in Followers
    /\ s.pc \in {"write", "parse"} => s.piece \in 1..Pieces
    /\ s.pc = "save" => s.chain \in Chains

AllFormed == DOMAIN call = Calls /\ \A c \in Calls : Formed(call[c])

\* What a step may make of its own call.
Moves(s, x) ==
    /\ Formed(x)
    /\ x.op = s.op
    /\ x.pc = "rebuild" => s.pc = "save"
    /\ x.pc \in Holding => s.pc \in Holding \/ app.held
    /\ x.sure => s.sure \/ s.pc = "start"

-----------------------------------------------------------------------------
(* The states that calls are taken to. *)

LEMMA StartForms ==
    ASSUME NEW op \in Operations
    PROVE  /\ Formed(Start(op)) /\ Start(op).op = op /\ Start(op).pc = "start"
           /\ ~Start(op).sure /\ Start(op).asked = {} /\ Start(op).answered = {}
           /\ Start(op).mode = "compare"
BY DEF Start, Formed, StateFields, Followers

LEMMA GotoForms ==
    ASSUME NEW s, Formed(s), NEW pc, pc \notin {"write", "parse", "save"}
    PROVE  /\ Formed(Goto(s, pc)) /\ Goto(s, pc).op = s.op /\ Goto(s, pc).pc = pc
           /\ Goto(s, pc).sure = s.sure
           /\ \A f \in StateFields \ {"pc"} : Goto(s, pc)[f] = s[f]
BY DEF Goto, Formed, StateFields

LEMMA EndedForms ==
    ASSUME NEW s, Formed(s), NEW ok \in BOOLEAN
    PROVE  /\ Formed(Ended(s, ok)) /\ Ended(s, ok).op = s.op /\ Ended(s, ok).pc = "done"
           /\ Ended(s, ok).ok = ok /\ Ended(s, ok).sure = s.sure /\ Ended(s, ok).mode = s.mode
           /\ Ended(s, ok).asked = s.asked /\ Ended(s, ok).answered = s.answered
           /\ Ended(s, ok).kinds = s.kinds
<1> DEFINE z == Start(s.op)
<1>1. Formed(z) /\ z.op = s.op
    BY StartForms DEF Formed
<1>2. Ended(s, ok) = [z EXCEPT !.pc = "done", !.ok = ok, !.mode = s.mode, !.asked = s.asked,
                               !.answered = s.answered, !.kinds = s.kinds, !.sure = s.sure]
    BY DEF Ended
<1> HIDE DEF z
<1> QED BY <1>1, <1>2 DEF Formed, StateFields

LEMMA IngestForms ==
    ASSUME NEW s, Formed(s), NEW then \in Followers
    PROVE  /\ Formed(Ingest(s, then)) /\ Ingest(s, then).op = s.op /\ Ingest(s, then).pc = "parse"
           /\ Ingest(s, then).sure = s.sure /\ Ingest(s, then).then = then
           /\ Ingest(s, then).kinds = s.kinds /\ Ingest(s, then).piece = 1
BY OfficeAssumption DEF Ingest, Formed, StateFields

LEMMA NextKindForms ==
    ASSUME NEW s, Formed(s)
    PROVE  /\ Formed(NextKind(s)) /\ NextKind(s).op = s.op /\ NextKind(s).pc \in {"done", "body"}
           /\ NextKind(s).sure = s.sure
           /\ Len(s.kinds) = 1 => NextKind(s) = Ended(s, FALSE)
           /\ Len(s.kinds) # 1 => NextKind(s).pc = "body" /\ NextKind(s).kinds = Tail(s.kinds)
<1> DEFINE x == [s EXCEPT !.pc = "body", !.kinds = Tail(@)]
<1>1. Formed(x) /\ x.op = s.op /\ x.pc = "body" /\ x.sure = s.sure /\ x.kinds = Tail(s.kinds)
    BY DEF Formed, StateFields
<1>2. NextKind(s) = IF Len(s.kinds) = 1 THEN Ended(s, FALSE) ELSE x
    BY DEF NextKind
<1> DEFINE e == Ended(s, FALSE)
<1>3. Formed(e) /\ e.op = s.op /\ e.pc = "done" /\ e.sure = s.sure
    BY EndedForms
<1> HIDE DEF x, e
<1>4. NextKind(s) = IF Len(s.kinds) = 1 THEN e ELSE x
    BY <1>2 DEF e
<1>5. CASE Len(s.kinds) = 1
    BY <1>3, <1>4, <1>5 DEF e
<1>6. CASE Len(s.kinds) # 1
    BY <1>1, <1>4, <1>6
<1> QED BY <1>5, <1>6

LEMMA IngestEndsForms ==
    ASSUME NEW s, Formed(s), NEW ok \in BOOLEAN
    PROVE  /\ Formed(IngestEnds(s, ok)) /\ IngestEnds(s, ok).op = s.op
           /\ IngestEnds(s, ok).sure = s.sure
           /\ IngestEnds(s, ok).pc \in Followers \union {"body"}
           /\ s.then = "again" => IngestEnds(s, ok) = IF ok THEN Goto(s, "again") ELSE NextKind(s)
<1>1. s.then \in Followers /\ s.then \notin {"write", "parse", "save"}
    BY DEF Formed, Followers
<1>2. IngestEnds(s, ok) \in {Ended(s, TRUE), NextKind(s), Goto(s, s.then)}
    BY DEF IngestEnds
<1>3. s.then = "again" => IngestEnds(s, ok) = IF ok THEN Goto(s, "again") ELSE NextKind(s)
    BY DEF IngestEnds
<1> DEFINE Kept(x) == /\ Formed(x) /\ x.op = s.op /\ x.sure = s.sure
                      /\ x.pc \in Followers \union {"body"}
<1>4. Kept(Ended(s, TRUE))
    BY EndedForms DEF Followers
<1>5. Kept(NextKind(s))
    BY NextKindForms DEF Followers
<1>6. Kept(Goto(s, s.then))
    BY <1>1, GotoForms
<1>7. Kept(IngestEnds(s, ok))
    BY <1>2, <1>4, <1>5, <1>6
<1> QED BY <1>3, <1>7

LEMMA CrawlEndsForms ==
    ASSUME NEW s, Formed(s), NEW ok \in BOOLEAN
    PROVE  /\ Formed(CrawlEnds(s, ok)) /\ CrawlEnds(s, ok).op = s.op
           /\ CrawlEnds(s, ok).pc \in {"done", "reload"}
           /\ CrawlEnds(s, ok).sure => s.sure
           /\ s.op.op = "crawl" => CrawlEnds(s, ok) = Ended(s, ok)
<1> DEFINE z == Start(s.op)
           x == [z EXCEPT !.pc = "reload", !.then = s.then]
<1>1. Formed(z) /\ z.op = s.op /\ ~z.sure
    BY StartForms DEF Formed
<1>2. CrawlEnds(s, ok) = IF s.op.op = "crawl" THEN Ended(s, ok) ELSE x
    BY DEF CrawlEnds
<1> HIDE DEF z
<1>3. Formed(x) /\ x.op = s.op /\ x.pc = "reload" /\ ~x.sure
    BY <1>1 DEF Formed, StateFields
<1> HIDE DEF x
<1> QED BY <1>2, <1>3, EndedForms

-----------------------------------------------------------------------------
(* Every step moves one call. *)

Moved(c) == \E x : Become(c, x) /\ Moves(call[c], x)

LEMMA GotoMoves ==
    ASSUME NEW s, Formed(s), NEW pc, pc \notin {"write", "parse", "save", "rebuild"},
           pc \in Holding => s.pc \in Holding \/ app.held
    PROVE  Moves(s, Goto(s, pc))
BY GotoForms DEF Moves

LEMMA EndedMoves ==
    ASSUME NEW s, Formed(s), NEW ok \in BOOLEAN
    PROVE  /\ Moves(s, Ended(s, ok)) /\ Moves(s, CrawlEnds(s, ok))
           /\ s.pc \in Holding => Moves(s, NextKind(s)) /\ Moves(s, IngestEnds(s, ok))
<1>1. Moves(s, Ended(s, ok))
    BY EndedForms DEF Moves, Holding
<1>2. Moves(s, CrawlEnds(s, ok))
    BY CrawlEndsForms DEF Moves, Holding
<1>3. s.pc \in Holding => Moves(s, NextKind(s))
    BY NextKindForms DEF Moves
<1>4. s.pc \in Holding => Moves(s, IngestEnds(s, ok))
    BY IngestEndsForms DEF Moves, Followers
<1> QED BY <1>1, <1>2, <1>3, <1>4

LEMMA IngestMoves ==
    ASSUME NEW s, Formed(s), s.pc \in Holding, NEW then \in Followers
    PROVE  Moves(s, Ingest(s, then))
BY IngestForms DEF Moves

LEMMA BeginMoves ==
    ASSUME AllFormed, NEW c \in Calls, Begin(c)
    PROVE  Moved(c)
<1> DEFINE s == call[c]
           x == [s EXCEPT !.pc = "ensure", !.then = "pick"]
           y == [s EXCEPT !.pc = "ensure", !.then = "request"]
           z == [s EXCEPT !.pc = "view", !.sure = \E k \in Wanted(s.op.kind) : Whole(k)]
<1>0. Formed(s) /\ s.pc = "start"
    BY DEF AllFormed, Begin, At
<1>1. s.op.op \in {"crawl", "xml", "assign", "read", "clear", "resolve"}
    BY <1>0 DEF Formed, Operations
<1>2. Become(c, CASE s.op.op = "crawl"   -> Goto(s, "crawl")
                  [] s.op.op = "xml"     -> x
                  [] s.op.op = "assign"  -> y
                  [] s.op.op = "read"    -> z
                  [] s.op.op = "clear"   -> Goto(s, "clear")
                  [] s.op.op = "resolve" -> Goto(s, "choose"))
    BY Zenon DEF Begin
<1>3. Moves(s, x) /\ Moves(s, y)
    BY <1>0 DEF Moves, Formed, StateFields, Holding, Followers
<1>4. Moves(s, z)
    BY <1>0 DEF Moves, Formed, StateFields, Holding
<1>5. Moves(s, Goto(s, "crawl")) /\ Moves(s, Goto(s, "clear")) /\ Moves(s, Goto(s, "choose"))
    BY <1>0, GotoMoves DEF Holding
<1> HIDE DEF s, x, y, z
<1>6. \/ Become(c, x) \/ Become(c, y) \/ Become(c, z)
      \/ Become(c, Goto(s, "crawl")) \/ Become(c, Goto(s, "clear")) \/ Become(c, Goto(s, "choose"))
    BY <1>1, <1>2
<1> QED BY <1>3, <1>4, <1>5, <1>6 DEF Moved, s

LEMMA CrawlMoves ==
    ASSUME AllFormed, NEW c \in Calls,
           StartCrawl(c) \/ Fetch(c) \/ FetchFails(c) \/ AllFailed(c) \/ Compare(c) \/ SaveNode(c)
    PROVE  Moved(c)
<1> DEFINE s == call[c]
<1>0. Formed(s)
    BY DEF AllFormed
<1>1. CASE StartCrawl(c)
    <2> DEFINE x == [s EXCEPT !.pc = "node", !.res = [NoResult EXCEPT !.assignee = record.assignee]]
               y == [s EXCEPT !.pc = "fetch", !.ask = {Source(s)}]
               z == [s EXCEPT !.pc = "fetch", !.mode = mode,
                              !.ask = Permitted(mode) \ (IF Forced(s) THEN {"file"} ELSE {})]
    <2>1. Become(c, x) \/ Become(c, y) \/ Become(c, z)
        BY <1>1, Zenon DEF StartCrawl
    <2>2. Moves(s, x)
        BY <1>0 DEF Moves, Formed, StateFields, Holding
    <2>3. Moves(s, y) /\ Moves(s, z)
        BY <1>0 DEF Moves, Formed, StateFields, Holding
    <2> HIDE DEF x, y, z
    <2> QED BY <2>1, <2>2, <2>3 DEF Moved
<1>2. CASE Fetch(c)
    <2> DEFINE p == Foremost(s.ask)
               a == [s EXCEPT !.asked = @ \union {p}, !.answered = @ \union {p}]
               x(res) == [a EXCEPT !.res = res, !.pc = IF Compares(s) THEN "second" ELSE "node",
                                   !.ask = {p}]
    <2>1. \E links : Become(c, x(Office([a.res EXCEPT !.assignee = given.says[p]], p, links)))
        BY <1>2, Zenon DEF Fetch
    <2>2. Formed(a) /\ a.op = s.op /\ a.sure = s.sure
        BY <1>0 DEF Formed, StateFields
    <2> HIDE DEF a
    <2>3. \A res : Moves(s, x(res))
        BY <2>2 DEF Moves, Formed, StateFields, Holding
    <2> HIDE DEF x
    <2> QED BY <2>1, <2>3 DEF Moved
<1>3. CASE FetchFails(c)
    <2> DEFINE p == Foremost(s.ask)
               x == [s EXCEPT !.asked = @ \union {p}, !.ask = @ \ {p}]
    <2>1. Become(c, x)
        BY <1>3, Zenon DEF FetchFails
    <2>2. s.pc = "fetch"
        BY <1>3 DEF FetchFails, At
    <2>3. Moves(s, x)
        BY <1>0, <2>2 DEF Moves, Formed, StateFields, Holding
    <2> HIDE DEF x
    <2> QED BY <2>1, <2>3 DEF Moved
<1>4. CASE AllFailed(c)
    BY <1>0, <1>4, EndedMoves DEF AllFailed, Moved
<1>5. CASE Compare(c)
    <2> DEFINE p == Foremost(s.ask)
               q == Second(p)
               a == [s EXCEPT !.pc = "node", !.asked = @ \union {q}]
               x(res) == [a EXCEPT !.answered = @ \union {q}, !.res = res]
    <2>1. \/ Become(c, a)
          \/ \E links : Become(c, x(Office([a.res EXCEPT !.diffs = Differences(given.says[p], given.says[q])],
                                          q, links)))
        BY <1>5, Zenon DEF Compare
    <2>2. Moves(s, a) /\ a.pc = "node"
        BY <1>0 DEF Moves, Formed, StateFields, Holding
    <2> HIDE DEF a
    <2>3. \A res : Moves(s, x(res))
        BY <2>2 DEF Moves, Formed, StateFields, Holding
    <2> HIDE DEF x
    <2> QED BY <2>1, <2>2, <2>3 DEF Moved
<1>6. CASE SaveNode(c)
    BY <1>0, <1>6, EndedMoves DEF SaveNode, Moved
<1> QED BY <1>1, <1>2, <1>3, <1>4, <1>5, <1>6

LEMMA ChoiceMoves ==
    ASSUME AllFormed, NEW c \in Calls,
           ListDiffs(c) \/ LoadPatent(c) \/ ApplyChoices(c) \/ SettleDiffs(c) \/ FindCleared(c)
    PROVE  Moved(c)
<1> DEFINE s == call[c]
<1>0. Formed(s)
    BY DEF AllFormed
<1>1. CASE ListDiffs(c)
    <2> DEFINE x(picked) == [s EXCEPT !.pc = "load", !.picked = picked]
    <2>1. Become(c, Ended(s, TRUE)) \/ \E picked : Become(c, x(picked))
        BY <1>1, Zenon DEF ListDiffs
    <2>2. \A picked : Moves(s, x(picked))
        BY <1>0 DEF Moves, Formed, StateFields, Holding
    <2> HIDE DEF x
    <2> QED BY <1>0, <2>1, <2>2, EndedMoves DEF Moved
<1>2. CASE LoadPatent(c)
    <2> DEFINE x == [s EXCEPT !.pc = "apply", !.copy = record]
    <2>1. Become(c, x)
        BY <1>2, Zenon DEF LoadPatent
    <2>2. Moves(s, x)
        BY <1>0 DEF Moves, Formed, StateFields, Holding
    <2> HIDE DEF x
    <2> QED BY <2>1, <2>2 DEF Moved
<1>3. CASE ApplyChoices(c)
    <2>1. Become(c, Goto(s, "settle"))
        BY <1>3 DEF ApplyChoices
    <2> QED BY <1>0, <2>1, GotoMoves DEF Moved, Holding
<1>4. CASE SettleDiffs(c)
    BY <1>0, <1>4, EndedMoves DEF SettleDiffs, Moved
<1>5. CASE FindCleared(c)
    <2>1. Become(c, Goto(s, "drop")) \/ Become(c, Ended(s, TRUE))
        BY <1>5 DEF FindCleared
    <2> QED BY <1>0, <2>1, GotoMoves, EndedMoves DEF Moved, Holding
<1> QED BY <1>1, <1>2, <1>3, <1>4, <1>5

LEMMA ApplicationMoves ==
    ASSUME AllFormed, NEW c \in Calls, EnsureApplication(c) \/ ViewBody(c)
    PROVE  Moved(c)
<1> DEFINE s == call[c]
<1>0. Formed(s)
    BY DEF AllFormed
<1>1. CASE EnsureApplication(c)
    <2> DEFINE x == [s EXCEPT !.pc = s.then, !.links = app.links]
    <2>1. (app.held /\ Become(c, x)) \/ Become(c, Goto(s, "crawl")) \/ Become(c, Ended(s, FALSE))
        BY <1>1, Zenon DEF EnsureApplication
    <2>2. app.held => Moves(s, x)
        BY <1>0 DEF Moves, Formed, StateFields, Holding, Followers
    <2> HIDE DEF x
    <2>3. Moves(s, Goto(s, "crawl"))
        BY <1>0, GotoMoves DEF Holding
    <2> QED BY <1>0, <2>1, <2>2, <2>3, EndedMoves DEF Moved
<1>2. CASE ViewBody(c)
    <2> DEFINE x(kinds) == [s EXCEPT !.pc = "body", !.kinds = kinds]
    <2>1. Become(c, Ended(s, FALSE)) \/ (app.held /\ \E kinds : Become(c, x(kinds)))
        BY <1>2, Zenon DEF ViewBody
    <2>2. app.held => \A kinds : Moves(s, x(kinds))
        BY <1>0 DEF Moves, Formed, StateFields, Holding
    <2> HIDE DEF x
    <2> QED BY <1>0, <2>1, <2>2, EndedMoves DEF Moved
<1> QED BY <1>1, <1>2

LEMMA FileMoves ==
    ASSUME AllFormed, NEW c \in Calls,
           PickKind(c) \/ ReadPrior(c) \/ Stat(c) \/ ServeCached(c) \/ RecordAccess(c)
              \/ WritePiece(c) \/ RecordDownload(c)
    PROVE  Moved(c)
<1> DEFINE s == call[c]
<1>0. Formed(s)
    BY DEF AllFormed
<1>1. CASE PickKind(c)
    <2> DEFINE x(kinds) == [s EXCEPT !.pc = "prior", !.kinds = kinds]
    <2>1. s.pc = "pick" /\ (Become(c, Ended(s, FALSE)) \/ \E kinds : Become(c, x(kinds)))
        BY <1>1, Zenon DEF PickKind, At
    <2>2. \A kinds : Moves(s, x(kinds))
        BY <1>0, <2>1 DEF Moves, Formed, StateFields, Holding
    <2> HIDE DEF x
    <2> QED BY <1>0, <2>1, <2>2, EndedMoves DEF Moved
<1>2. CASE ReadPrior(c)
    <2> DEFINE x == [s EXCEPT !.pc = "stat", !.prior = down[Kind(c)]]
    <2>1. s.pc = "prior" /\ Become(c, x)
        BY <1>2, Zenon DEF ReadPrior, At
    <2>2. Moves(s, x)
        BY <1>0, <2>1 DEF Moves, Formed, StateFields, Holding
    <2> HIDE DEF x
    <2> QED BY <2>1, <2>2 DEF Moved
<1>3. CASE Stat(c)
    <2>1. s.pc = "stat"
          /\ \/ Become(c, Ingest(s, "again")) \/ Become(c, NextKind(s))
             \/ Become(c, Goto(s, "cached")) \/ Become(c, Goto(s, "download"))
        BY <1>3 DEF Stat, At
    <2>2. Moves(s, Ingest(s, "again"))
        BY <1>0, <2>1, IngestMoves DEF Holding, Followers
    <2>3. Moves(s, NextKind(s))
        BY <1>0, <2>1, EndedMoves DEF Holding
    <2>4. Moves(s, Goto(s, "cached")) /\ Moves(s, Goto(s, "download"))
        BY <1>0, <2>1, GotoMoves DEF Holding
    <2> QED BY <2>1, <2>2, <2>3, <2>4 DEF Moved
<1>4. CASE ServeCached(c)
    <2>1. s.pc = "cached" /\ (Become(c, Goto(s, "access")) \/ Become(c, Ingest(s, "access")))
        BY <1>4 DEF ServeCached, At
    <2>2. Moves(s, Ingest(s, "access"))
        BY <1>0, <2>1, IngestMoves DEF Holding, Followers
    <2>3. Moves(s, Goto(s, "access"))
        BY <1>0, <2>1, GotoMoves DEF Holding
    <2> QED BY <2>1, <2>2, <2>3 DEF Moved
<1>5. CASE RecordAccess(c)
    BY <1>0, <1>5, EndedMoves DEF RecordAccess, Moved
<1>6. CASE WritePiece(c)
    <2> DEFINE x == [s EXCEPT !.piece = @ + 1]
    <2>1. s.pc = "write" /\ ((s.piece < Pieces /\ Become(c, x)) \/ Become(c, Goto(s, "log")))
        BY <1>6, Zenon DEF WritePiece, At
    <2>2. s.piece < Pieces => Moves(s, x)
        BY <1>0, <2>1, OfficeAssumption DEF Moves, Formed, StateFields, Holding
    <2>3. Moves(s, Goto(s, "log"))
        BY <1>0, <2>1, GotoMoves DEF Holding
    <2> HIDE DEF x
    <2> QED BY <2>1, <2>2, <2>3 DEF Moved
<1>7. CASE RecordDownload(c)
    <2>1. s.pc = "log" /\ Become(c, Ingest(s, "done"))
        BY <1>7 DEF RecordDownload, At
    <2> QED BY <1>0, <2>1, IngestMoves DEF Moved, Holding, Followers
<1> QED BY <1>1, <1>2, <1>3, <1>4, <1>5, <1>6, <1>7

LEMMA IngestStepMoves ==
    ASSUME AllFormed, NEW c \in Calls,
           ParsePiece(c) \/ SaveGrant(c) \/ SaveCitations(c) \/ ReadFields(c) \/ FillFields(c)
              \/ FindBody(c)
    PROVE  Moved(c)
<1> DEFINE s == call[c]
<1>0. Formed(s)
    BY DEF AllFormed
<1>1. CASE ParsePiece(c)
    <2> DEFINE x == [s EXCEPT !.piece = @ + 1]
    <2>1. s.pc = "parse"
          /\ \/ Become(c, IngestEnds(s, FALSE))
             \/ s.piece < Pieces /\ Become(c, x)
             \/ Become(c, Goto(s, "save grant"))
        BY <1>1, Zenon DEF ParsePiece, At
    <2>0. s.pc = "parse" /\ Pieces \in Nat
        BY <2>1, OfficeAssumption
    <2>2. s.piece < Pieces => Moves(s, x)
        BY <1>0, <2>0 DEF Moves, Formed, StateFields, Holding
    <2>3. Moves(s, Goto(s, "save grant"))
        BY <1>0, <2>1, GotoMoves DEF Holding
    <2>4. Moves(s, IngestEnds(s, FALSE))
        BY <1>0, <2>1, EndedMoves DEF Holding
    <2> HIDE DEF x
    <2> QED BY <2>1, <2>2, <2>3, <2>4 DEF Moved
<1>2. CASE SaveGrant(c)
    <2>1. s.pc = "save grant" /\ Become(c, Goto(s, "cite"))
        BY <1>2 DEF SaveGrant, At
    <2> QED BY <1>0, <2>1, GotoMoves DEF Moved, Holding
<1>3. CASE SaveCitations(c)
    <2>1. s.pc = "cite" /\ Become(c, Goto(s, "compare"))
        BY <1>3 DEF SaveCitations, At
    <2> QED BY <1>0, <2>1, GotoMoves DEF Moved, Holding
<1>4. CASE ReadFields(c)
    <2> DEFINE x == [s EXCEPT !.pc = "fill", !.copy = record]
    <2>1. s.pc = "compare" /\ (Become(c, x) \/ Become(c, IngestEnds(s, TRUE)))
        BY <1>4, Zenon DEF ReadFields, At
    <2>2. Moves(s, x)
        BY <1>0, <2>1 DEF Moves, Formed, StateFields, Holding
    <2>3. Moves(s, IngestEnds(s, TRUE))
        BY <1>0, <2>1, EndedMoves DEF Holding
    <2> HIDE DEF x
    <2> QED BY <2>1, <2>2, <2>3 DEF Moved
<1>5. CASE FillFields(c)
    <2>1. s.pc = "fill" /\ Become(c, IngestEnds(s, TRUE))
        BY <1>5 DEF FillFields, At
    <2>2. Moves(s, IngestEnds(s, TRUE))
        BY <1>0, <2>1, EndedMoves DEF Holding
    <2> QED BY <2>1, <2>2 DEF Moved
<1>6. CASE FindBody(c)
    <2>1. s.pc \in {"body", "again"}
          /\ (Become(c, Ended(s, TRUE)) \/ Become(c, Goto(s, "prior")) \/ Become(c, NextKind(s)))
        BY <1>6 DEF FindBody
    <2>2. Moves(s, NextKind(s)) /\ Moves(s, Ended(s, TRUE))
        BY <1>0, <2>1, EndedMoves DEF Holding
    <2>3. Moves(s, Goto(s, "prior"))
        BY <1>0, <2>1, GotoMoves DEF Holding
    <2> QED BY <2>1, <2>2, <2>3 DEF Moved
<1> QED BY <1>1, <1>2, <1>3, <1>4, <1>5, <1>6

LEMMA AssignmentMoves ==
    ASSUME AllFormed, NEW c \in Calls, Request(c) \/ SaveAssignments(c) \/ RebuildHistory(c)
    PROVE  Moved(c)
<1> DEFINE s == call[c]
<1>0. Formed(s)
    BY DEF AllFormed
<1>1. CASE Request(c)
    <2> DEFINE x(chain) == [s EXCEPT !.pc = "save", !.chain = chain]
    <2>1. \E chain \in Chains : Become(c, x(chain))
        BY <1>1, Zenon DEF Request
    <2>2. \A chain \in Chains : Moves(s, x(chain))
        BY <1>0 DEF Moves, Formed, StateFields, Holding
    <2> HIDE DEF x
    <2> QED BY <2>1, <2>2 DEF Moved
<1>2. CASE SaveAssignments(c)
    <2>1. s.pc = "save" /\ Become(c, Goto(s, "rebuild"))
        BY <1>2 DEF SaveAssignments, At
    <2>2. /\ Formed(Goto(s, "rebuild")) /\ Goto(s, "rebuild").op = s.op
          /\ Goto(s, "rebuild").pc = "rebuild" /\ Goto(s, "rebuild").sure = s.sure
        BY <1>0, GotoForms
    <2>3. Moves(s, Goto(s, "rebuild"))
        BY <2>1, <2>2 DEF Moves, Holding
    <2> QED BY <2>1, <2>3 DEF Moved
<1>3. CASE RebuildHistory(c)
    BY <1>0, <1>3, EndedMoves DEF RebuildHistory, Moved
<1> QED BY <1>1, <1>2, <1>3

\* A step that fails ends the call, the ingest, the kind or the crawl it belongs to.
LEMMA FailingMoves ==
    ASSUME NEW s, Formed(s)
    PROVE  Moves(s, Failing(s)) /\ Failing(s).pc # "rebuild"
<1> DEFINE f == Failing(s)
<1>1. s.pc \in Holding =>
          f \in {IngestEnds(s, FALSE), IngestEnds(s, TRUE), Goto(s, "access"), NextKind(s), Ended(s, FALSE)}
    BY DEF Failing, Holding
<1>2. s.pc \notin Holding => f \in {CrawlEnds(s, FALSE), Ended(s, FALSE)}
    BY DEF Failing, Holding
<1>3. s.pc \in Holding => Moves(s, Goto(s, "access")) /\ Goto(s, "access").pc = "access"
    BY GotoMoves, GotoForms DEF Holding
<1>4. s.pc \in Holding =>
          /\ Moves(s, IngestEnds(s, FALSE)) /\ Moves(s, IngestEnds(s, TRUE)) /\ Moves(s, NextKind(s))
          /\ Moves(s, Ended(s, FALSE))
    BY EndedMoves
<1>5. Moves(s, CrawlEnds(s, FALSE)) /\ Moves(s, Ended(s, FALSE))
    BY EndedMoves
<1>6. Moves(s, f)
    BY <1>1, <1>2, <1>3, <1>4, <1>5
<1>7. /\ Ended(s, FALSE).pc = "done" /\ CrawlEnds(s, FALSE).pc # "rebuild"
      /\ NextKind(s).pc # "rebuild"
      /\ IngestEnds(s, FALSE).pc # "rebuild" /\ IngestEnds(s, TRUE).pc # "rebuild"
    BY EndedForms, CrawlEndsForms, NextKindForms, IngestEndsForms DEF Followers
<1> HIDE DEF f
<1>8. f.pc # "rebuild"
    BY <1>1, <1>2, <1>3, <1>7
<1> QED BY <1>6, <1>8 DEF f

LEMMA FailsMoves ==
    ASSUME AllFormed, NEW c \in Calls, Fails(c)
    PROVE  \E x : Become(c, x) /\ Moves(call[c], x) /\ ~x.sure /\ x.pc # "rebuild"
<1> DEFINE f == Failing(call[c])
           x == [f EXCEPT !.sure = FALSE]
<1>0. Formed(call[c])
    BY DEF AllFormed
<1>1. Moves(call[c], f) /\ f.pc # "rebuild"
    BY <1>0, FailingMoves
<1>2. Become(c, x)
    BY Zenon DEF Fails
<1> HIDE DEF f
<1>3. Moves(call[c], x) /\ ~x.sure /\ x.pc # "rebuild"
    BY <1>1 DEF Moves, Formed, StateFields
<1> QED BY <1>2, <1>3

-----------------------------------------------------------------------------
(* Of the other calls a step can only take the promise away. *)

Touched(c) ==
    /\ DOMAIN call' = Calls
    /\ Moves(call[c], call'[c])
    /\ \A d \in Calls \ {c} : call'[d] \in {call[d], [call[d] EXCEPT !.sure = FALSE]}

LEMMA BecomeTouches ==
    ASSUME AllFormed, NEW c \in Calls, NEW x, Become(c, x)
    PROVE  /\ DOMAIN call' = Calls /\ call'[c] = x
           /\ \A d \in Calls \ {c} : call'[d] = call[d]
BY DEF AllFormed, Become

LEMMA DropTouches ==
    ASSUME AllFormed, NEW c \in Calls, Download(c) \/ ClearBodies(c)
    PROVE  /\ Touched(c)
           /\ \A d \in Calls : ~call'[d].sure
           /\ call'[c].pc \in {"write", "done"}
<1> DEFINE u(d) == [call[d] EXCEPT !.sure = FALSE]
           x == [u(c) EXCEPT !.pc = "write", !.piece = 1]
           y == [u(c) EXCEPT !.pc = "done"]
<1>0. 1 \in 1..Pieces
    BY OfficeAssumption
<1>1. \A d \in Calls : Formed(call[d])
    BY DEF AllFormed
<1>2. \A d \in Calls : ~u(d).sure
    BY <1>1 DEF Formed, StateFields
<1>3. DOMAIN Unsure = Calls /\ \A d \in Calls : Unsure[d] = u(d)
    BY DEF Unsure
<1>5. /\ call[c].pc = "download" => Moves(call[c], x)
      /\ ~x.sure /\ x.pc = "write"
    BY <1>1, <1>0 DEF Moves, Formed, StateFields, Holding
<1>6. Moves(call[c], y) /\ ~y.sure /\ y.pc = "done"
    BY <1>1 DEF Moves, Formed, StateFields, Holding
<1>7. call' = [Unsure EXCEPT ![c] = y] \/ (call' = [Unsure EXCEPT ![c] = x] /\ call[c].pc = "download")
    BY <1>3 DEF Download, ClearBodies, At
<1> HIDE DEF x, y, u
<1>8. /\ DOMAIN call' = Calls /\ \A d \in Calls \ {c} : call'[d] = u(d)
      /\ call'[c] = y \/ (call'[c] = x /\ call[c].pc = "download")
    BY <1>3, <1>7
<1>9. \A d \in Calls : u(d) \in {call[d], [call[d] EXCEPT !.sure = FALSE]}
    BY DEF u
<1> QED BY <1>2, <1>5, <1>6, <1>8, <1>9 DEF Touched

LEMMA StepTouches ==
    ASSUME AllFormed, NEW c \in Calls, CallStep(c)
    PROVE  Touched(c)
<1>1. CASE Download(c) \/ ClearBodies(c)
    BY <1>1, DropTouches
<1>2. CASE ~(Download(c) \/ ClearBodies(c))
    <2>1. Moved(c) \/ Fails(c)
        BY <1>2, BeginMoves, CrawlMoves, ChoiceMoves, ApplicationMoves, FileMoves,
           IngestStepMoves, AssignmentMoves DEF CallStep
    <2>2. \E x : Become(c, x) /\ Moves(call[c], x)
        BY <2>1, FailsMoves DEF Moved
    <2> QED BY <2>2, BecomeTouches DEF Touched
<1> QED BY <1>1, <1>2

LEMMA FormedKeeps ==
    ASSUME AllFormed, [Next]_vars
    PROVE  AllFormed'
<1>1. CASE UNCHANGED call
    BY <1>1 DEF AllFormed, Formed
<1>2. ASSUME NEW c \in Calls, CallStep(c)
      PROVE  AllFormed'
    <2>1. Touched(c)
        BY <1>2, StepTouches
    <2>2. Formed(call'[c])
        BY <2>1 DEF Touched, Moves
    <2>3. ASSUME NEW d \in Calls \ {c}
          PROVE  Formed(call'[d])
        <3>1. Formed(call[d])
            BY DEF AllFormed
        <3>2. Formed([call[d] EXCEPT !.sure = FALSE])
            BY <3>1 DEF Formed, StateFields
        <3> QED BY <2>1, <3>1, <3>2 DEF Touched
    <2> QED BY <2>1, <2>2, <2>3 DEF AllFormed, Touched, Formed
<1>3. Next => UNCHANGED call \/ \E c \in Calls : CallStep(c)
    BY DEF Next, SetSourceMode
<1>4. UNCHANGED vars => UNCHANGED call
    BY DEF vars
<1> QED BY <1>1, <1>2, <1>3, <1>4

LEMMA FormedStarts ==
    ASSUME Init
    PROVE  AllFormed
<1>1. given.calls \in [Calls -> Operations]
    BY OfficeAssumption DEF Init
<1>2. call = [c \in Calls |-> Start(given.calls[c])]
    BY DEF Init
<1> QED BY <1>1, <1>2, StartForms DEF AllFormed

-----------------------------------------------------------------------------
(* Which steps write the tables and the files, and which a stage allows. *)

LEMMA TablesStay ==
    ASSUME NEW c \in Calls, CallStep(c)
    PROVE  /\ app' = app \/ SaveNode(c)
           /\ owners' = owners \/ SaveNode(c) \/ SaveAssignments(c)
           /\ timeline' = timeline \/ RebuildHistory(c)
           /\ register' = register \/ SaveNode(c) \/ SaveAssignments(c) \/ Fails(c)
<1>1. CASE Begin(c) \/ StartCrawl(c) \/ Fetch(c) \/ FetchFails(c) \/ AllFailed(c) \/ Compare(c)
              \/ ListDiffs(c) \/ LoadPatent(c) \/ EnsureApplication(c) \/ PickKind(c) \/ ReadPrior(c)
              \/ Stat(c) \/ ServeCached(c) \/ ParsePiece(c) \/ ReadFields(c) \/ ViewBody(c)
              \/ FindBody(c) \/ FindCleared(c) \/ Request(c)
    <2>1. UNCHANGED <<patent, owned>>
        BY <1>1, Zenon DEF Begin, StartCrawl, Fetch, FetchFails, AllFailed, Compare, ListDiffs,
           LoadPatent, EnsureApplication, PickKind, ReadPrior, Stat, ServeCached, ParsePiece,
           ReadFields, ViewBody, FindBody, FindCleared, Request
    <2> QED BY <2>1 DEF patent, owned
<1>2. CASE ApplyChoices(c) \/ SettleDiffs(c) \/ FillFields(c)
    <2>1. UNCHANGED <<app, owned>>
        BY <1>2 DEF ApplyChoices, SettleDiffs, FillFields
    <2> QED BY <2>1 DEF owned
<1>3. CASE RecordAccess(c) \/ Download(c) \/ WritePiece(c) \/ RecordDownload(c) \/ SaveGrant(c)
              \/ SaveCitations(c) \/ ClearBodies(c)
    <2>1. UNCHANGED <<patent, owned>>
        BY <1>3 DEF RecordAccess, Download, WritePiece, RecordDownload, SaveGrant, SaveCitations,
           ClearBodies
    <2> QED BY <2>1 DEF patent, owned
<1>4. CASE SaveNode(c) \/ SaveAssignments(c) \/ RebuildHistory(c) \/ Fails(c)
    BY <1>4 DEF SaveNode, SaveAssignments, RebuildHistory, Fails, patent
<1> QED BY <1>1, <1>2, <1>3, <1>4 DEF CallStep

LEMMA FilesStay ==
    ASSUME NEW c \in Calls, CallStep(c)
    PROVE  /\ disk' = disk \/ Download(c) \/ WritePiece(c)
           /\ down' = down \/ RecordAccess(c) \/ RecordDownload(c)
           /\ body' = body \/ SaveGrant(c) \/ ClearBodies(c)
<1>1. CASE Begin(c) \/ StartCrawl(c) \/ Fetch(c) \/ FetchFails(c) \/ AllFailed(c) \/ Compare(c)
              \/ ListDiffs(c) \/ LoadPatent(c) \/ EnsureApplication(c) \/ PickKind(c) \/ ReadPrior(c)
              \/ Stat(c) \/ ServeCached(c) \/ ParsePiece(c) \/ ReadFields(c) \/ ViewBody(c)
              \/ FindBody(c) \/ FindCleared(c) \/ Request(c)
    <2>1. UNCHANGED <<files, texts>>
        BY <1>1, Zenon DEF Begin, StartCrawl, Fetch, FetchFails, AllFailed, Compare, ListDiffs,
           LoadPatent, EnsureApplication, PickKind, ReadPrior, Stat, ServeCached, ParsePiece,
           ReadFields, ViewBody, FindBody, FindCleared, Request
    <2> QED BY <2>1 DEF files, texts
<1>2. CASE ApplyChoices(c) \/ SettleDiffs(c) \/ FillFields(c) \/ SaveNode(c)
              \/ SaveAssignments(c) \/ RebuildHistory(c) \/ Fails(c)
    <2>1. UNCHANGED <<files, texts>>
        BY <1>2, Zenon DEF ApplyChoices, SettleDiffs, FillFields, SaveNode, SaveAssignments,
           RebuildHistory, Fails
    <2> QED BY <2>1 DEF files, texts
<1>3. CASE RecordAccess(c) \/ Download(c) \/ WritePiece(c) \/ RecordDownload(c) \/ SaveGrant(c)
              \/ SaveCitations(c) \/ ClearBodies(c)
    BY <1>3 DEF RecordAccess, Download, WritePiece, RecordDownload, SaveGrant, SaveCitations,
       ClearBodies, files, texts
<1> QED BY <1>1, <1>2, <1>3 DEF CallStep

\* A stage has its step, and may fail.
LEMMA StagesStep ==
    ASSUME NEW c \in Calls, CallStep(c)
    PROVE  /\ call[c].pc = "save" => SaveAssignments(c) \/ Fails(c)
           /\ call[c].pc = "rebuild" => RebuildHistory(c) \/ Fails(c)
           /\ call[c].pc = "start" => Begin(c)
           /\ call[c].pc = "crawl" => StartCrawl(c) \/ Fails(c)
           /\ call[c].pc = "fetch" => Fetch(c) \/ FetchFails(c) \/ AllFailed(c) \/ Fails(c)
           /\ call[c].pc = "second" => Compare(c) \/ Fails(c)
           /\ call[c].pc = "node" => SaveNode(c) \/ Fails(c)
           /\ call[c].pc = "view" => ViewBody(c) \/ Fails(c)
           /\ call[c].pc = "body" => FindBody(c) \/ Fails(c)
           /\ call[c].pc = "again" => FindBody(c) \/ Fails(c)
           /\ call[c].pc = "prior" => ReadPrior(c) \/ Fails(c)
           /\ call[c].pc = "stat" => Stat(c)
           /\ call[c].pc = "parse" => ParsePiece(c) \/ Fails(c)
           /\ call[c].pc = "save grant" => SaveGrant(c) \/ Fails(c)
           /\ call[c].pc = "cite" => SaveCitations(c) \/ Fails(c)
           /\ call[c].pc = "compare" => ReadFields(c) \/ Fails(c)
           /\ call[c].pc = "fill" => FillFields(c) \/ Fails(c)
           /\ call[c].pc # "done"
<1> DEFINE pc == call[c].pc
<1>1. /\ (Begin(c) => pc = "start") /\ (StartCrawl(c) => pc = "crawl")
      /\ (Fetch(c) => pc = "fetch") /\ (FetchFails(c) => pc = "fetch")
      /\ (AllFailed(c) => pc = "fetch") /\ (Compare(c) => pc = "second")
      /\ (SaveNode(c) => pc = "node") /\ (ListDiffs(c) => pc = "choose")
      /\ (LoadPatent(c) => pc = "load") /\ (ApplyChoices(c) => pc = "apply")
      /\ (SettleDiffs(c) => pc = "settle") /\ (EnsureApplication(c) => pc \in {"ensure", "reload"})
    BY Zenon DEF At, Begin, StartCrawl, Fetch, FetchFails, AllFailed, Compare, SaveNode, ListDiffs,
       LoadPatent, ApplyChoices, SettleDiffs, EnsureApplication
<1>2. /\ (PickKind(c) => pc = "pick") /\ (ReadPrior(c) => pc = "prior")
      /\ (Stat(c) => pc = "stat") /\ (ServeCached(c) => pc = "cached")
      /\ (RecordAccess(c) => pc = "access") /\ (Download(c) => pc = "download")
      /\ (WritePiece(c) => pc = "write") /\ (RecordDownload(c) => pc = "log")
      /\ (ParsePiece(c) => pc = "parse") /\ (SaveGrant(c) => pc = "save grant")
      /\ (SaveCitations(c) => pc = "cite") /\ (ReadFields(c) => pc = "compare")
      /\ (FillFields(c) => pc = "fill") /\ (ViewBody(c) => pc = "view")
    BY Zenon DEF At, PickKind, ReadPrior, Stat, ServeCached, RecordAccess, Download, WritePiece,
       RecordDownload, ParsePiece, SaveGrant, SaveCitations, ReadFields, FillFields, ViewBody
<1>3. /\ FindBody(c) => pc \in {"body", "again"}
      /\ (FindCleared(c) => pc = "clear") /\ (ClearBodies(c) => pc = "drop")
      /\ (Request(c) => pc = "request") /\ (SaveAssignments(c) => pc = "save")
      /\ RebuildHistory(c) => pc = "rebuild"
      /\ Fails(c) => pc \notin {"start", "done", "stat"}
    BY DEF At, FindBody, FindCleared, ClearBodies, Request, SaveAssignments, RebuildHistory, Fails
<1> QED BY <1>1, <1>2, <1>3, ZenonT(60) DEF CallStep

-----------------------------------------------------------------------------
(* The timeline shows the chain that was saved last. *)

Registered ==
    /\ DOMAIN register = {"chain", "fetched", "lost"}
    /\ register.fetched \in BOOLEAN /\ register.lost \in BOOLEAN
    /\ register.fetched => register.chain \in Chains

Ownership ==
    register.fetched /\ ~register.lost =>
        /\ (\E c \in Calls : Between(call[c])) => owners = register.chain
        /\ (\A c \in Calls : ~Between(call[c])) => \E a : timeline = Derived(register.chain, a)

OwnedInv == AllFormed /\ Registered /\ Ownership

\* Only a rebuilding or a failing call leaves the gap, and only a saving one enters it.
LEMMA GapStays ==
    ASSUME AllFormed, NEW c \in Calls, CallStep(c),
           ~SaveAssignments(c), ~RebuildHistory(c), ~(Fails(c) /\ Between(call[c]))
    PROVE  \A d \in Calls : Between(call'[d]) <=> Between(call[d])
<1>1. Touched(c)
    BY StepTouches
<1>2. ~Between(call[c])
    BY StagesStep DEF Between
<1>3. call'[c].pc # "rebuild"
    <2>1. CASE Fails(c)
        <3>1. \E x : Become(c, x) /\ x.pc # "rebuild"
            BY <2>1, FailsMoves
        <3> QED BY <3>1, BecomeTouches
    <2>2. CASE ~Fails(c)
        <3>1. call[c].pc # "save"
            BY <2>2, StagesStep
        <3> QED BY <1>1, <3>1 DEF Touched, Moves
    <2> QED BY <2>1, <2>2
<1>4. ASSUME NEW d \in Calls \ {c}
      PROVE  call'[d].pc = call[d].pc
    <2>1. Formed(call[d])
        BY DEF AllFormed
    <2>2. [call[d] EXCEPT !.sure = FALSE].pc = call[d].pc
        BY <2>1 DEF Formed, StateFields
    <2> QED BY <1>1, <2>2 DEF Touched
<1> QED BY <1>2, <1>3, <1>4 DEF Between

LEMMA OwnershipKeeps ==
    ASSUME OwnedInv, NEW c \in Calls, CallStep(c)
    PROVE  Registered' /\ Ownership'
<1> USE DEF OwnedInv
<1>1. CASE SaveAssignments(c)
    <2>1. /\ call[c].pc = "save" /\ owners' = call[c].chain
          /\ register' = [chain |-> call[c].chain, fetched |-> TRUE, lost |-> FALSE]
          /\ Become(c, Goto(call[c], "rebuild"))
        BY <1>1 DEF SaveAssignments, At
    <2>2. Formed(call[c]) /\ call[c].chain \in Chains
        BY <2>1 DEF AllFormed, Formed
    <2>3. call'[c].pc = "rebuild"
        BY <2>1, <2>2, BecomeTouches, GotoForms
    <2>4. Between(call'[c])
        BY <2>3 DEF Between
    <2>5. Registered'
        BY <2>1, <2>2 DEF Registered
    <2>6. owners' = register'.chain
        BY <2>1
    <2> QED BY <2>4, <2>5, <2>6 DEF Ownership
<1>2. CASE RebuildHistory(c)
    <2>1. /\ call[c].pc = "rebuild" /\ timeline' = Derived(owners, record.assignee)
          /\ UNCHANGED <<owners, register>>
        BY <1>2 DEF RebuildHistory, At
    <2>2. Between(call[c])
        BY <2>1 DEF Between
    <2>3. Registered'
        BY <2>1 DEF Registered
    <2> QED BY <2>1, <2>2, <2>3 DEF Ownership
<1>3. CASE Fails(c) /\ Between(call[c])
    <2>1. register' = [register EXCEPT !.lost = TRUE]
        BY <1>3 DEF Fails
    <2>2. Registered' /\ register'.lost
        BY <2>1 DEF Registered
    <2> QED BY <2>2 DEF Ownership
<1>4. CASE ~SaveAssignments(c) /\ ~RebuildHistory(c) /\ ~(Fails(c) /\ Between(call[c]))
    <2>1. \A d \in Calls : Between(call'[d]) <=> Between(call[d])
        BY <1>4, GapStays
    <2>2. timeline' = timeline
        BY <1>4, TablesStay
    <2>3. CASE SaveNode(c) /\ call[c].res.office
        <3>1. register' = [register EXCEPT !.lost = @ \/ \E d \in Calls : Between(call[d])]
            BY <2>3, Zenon DEF SaveNode
        <3>2. /\ Registered' /\ register'.chain = register.chain /\ register'.fetched = register.fetched
              /\ register'.lost <=> register.lost \/ \E d \in Calls : Between(call[d])
            BY <3>1 DEF Registered
        <3> QED BY <2>1, <2>2, <3>2 DEF Ownership
    <2>4. CASE ~(SaveNode(c) /\ call[c].res.office)
        <3>1. owners' = owners
            BY <1>4, <2>4, TablesStay DEF SaveNode
        <3>2. /\ Registered' /\ register'.chain = register.chain
              /\ register'.fetched = register.fetched /\ register'.lost = register.lost
            <4>1. CASE Fails(c)
                <5>1. register' = [register EXCEPT !.lost = @ \/ FALSE]
                    BY <1>4, <4>1 DEF Fails
                <5> QED BY <5>1 DEF Registered
            <4>2. CASE ~Fails(c)
                BY <1>4, <2>4, <4>2, TablesStay DEF SaveNode, Registered
            <4> QED BY <4>1, <4>2
        <3> QED BY <2>1, <2>2, <3>1, <3>2 DEF Ownership
    <2> QED BY <2>3, <2>4
<1> QED BY <1>1, <1>2, <1>3, <1>4

\* A timeline made of a chain shows it.
LEMMA DerivedShows ==
    ASSUME register.chain \in Chains, NEW a, timeline = Derived(register.chain, a)
    PROVE  OwnershipReflectsTheFetch
<1> DEFINE chain == register.chain
           rows == {r \in timeline : r.type = "assignment"}
           last == {t \in chain : \A b \in chain :
                       b.names = {} \/ b.date < t.date \/ (b.date = t.date /\ b.ord <= t.ord)}
           row(t, n) == [type |-> "assignment", ord |-> t.ord, name |-> n,
                         latest |-> \A b \in Named(chain) : ~Later(b, t)]
           grant(n) == [type |-> "at_grant", ord |-> -1, name |-> n, latest |-> Named(chain) = {}]
<1>1. timeline = {grant(n) : n \in {a} \ {NoName}} \union UNION {{row(t, n) : n \in t.names} : t \in chain}
    BY DEF Derived
<1>2. \A t \in chain : t.ord \in Nat /\ t.date \in Nat
    BY OfficeAssumption
<1>3. \A n : /\ grant(n).type = "at_grant" /\ (grant(n).latest <=> Named(chain) = {})
    OBVIOUS
<1>4. \A t, n : /\ row(t, n).type = "assignment" /\ row(t, n).ord = t.ord /\ row(t, n).name = n
                /\ (row(t, n).latest <=> \A b \in Named(chain) : ~Later(b, t))
    OBVIOUS
<1>5. \A t \in chain : (\A b \in Named(chain) : ~Later(b, t)) <=> t \in last
    <2>1. ASSUME NEW t \in chain, NEW b \in chain
          PROVE  ~Later(b, t) <=> b.date < t.date \/ (b.date = t.date /\ b.ord <= t.ord)
        BY <1>2 DEF Later
    <2> QED BY <2>1 DEF Named
<1>6. Named(chain) = {} <=> \A t \in chain : t.names = {}
    BY DEF Named
<1> HIDE DEF row, grant, last
<1>7. rows = UNION {{row(t, n) : n \in t.names} : t \in chain}
    BY <1>1, <1>3, <1>4
<1>8. {<<r.ord, r.name>> : r \in rows} = UNION {{<<t.ord, n>> : n \in t.names} : t \in chain}
    BY <1>4, <1>7
<1>9. {<<r.ord, r.name>> : r \in {t \in rows : t.latest}} = UNION {{<<t.ord, n>> : n \in t.names} : t \in last}
    BY <1>4, <1>5, <1>7 DEF last
<1>10. \A r \in timeline \ rows : r.latest <=> \A t \in chain : t.names = {}
    BY <1>1, <1>3, <1>6, <1>7
<1> QED BY <1>8, <1>9, <1>10 DEF OwnershipReflectsTheFetch, last

\* Whenever no fetch of assignments is between its two transactions, the timeline is that of
\* the chain saved last - whichever calls saved, emptied and rebuilt in between.
THEOREM TheTimelineShowsTheFetch == Spec => []OwnershipReflectsTheFetch
<1>1. Init => OwnedInv
    BY FormedStarts DEF Init, OwnedInv, Registered, Ownership
<1>2. OwnedInv /\ [Next]_vars => OwnedInv'
    <2> SUFFICES ASSUME OwnedInv, [Next]_vars
                 PROVE  OwnedInv'
        OBVIOUS
    <2>1. AllFormed'
        BY FormedKeeps DEF OwnedInv
    <2>2. CASE \E c \in Calls : CallStep(c)
        BY <2>1, <2>2, OwnershipKeeps DEF OwnedInv
    <2>3. CASE UNCHANGED <<owned, call>>
        BY <2>1, <2>3 DEF OwnedInv, Registered, Ownership, owned, Between
    <2>4. (\E c \in Calls : CallStep(c)) \/ UNCHANGED <<owned, call>>
        BY DEF Next, SetSourceMode, vars, owned
    <2> QED BY <2>2, <2>3, <2>4
<1>3. OwnedInv => OwnershipReflectsTheFetch
    <2> SUFFICES ASSUME OwnedInv, register.fetched, ~register.lost, \A c \in Calls : ~Between(call[c])
                 PROVE  OwnershipReflectsTheFetch
        BY DEF OwnershipReflectsTheFetch
    <2>1. register.chain \in Chains /\ \E a : timeline = Derived(register.chain, a)
        BY DEF OwnedInv, Registered, Ownership
    <2> QED BY <2>1, DerivedShows
<1> QED BY <1>1, <1>2, <1>3, PTL DEF Spec

-----------------------------------------------------------------------------
(* A crawl keeps to the mode it started under. *)

Crawling(s) == s.op.op = "crawl" /\ s.op.source = "any"

\* Nobody, or one.
Single(set) == set = {} \/ \E p : set = {p}

ResultFields == {"assignee", "office", "links", "diffs", "state"}

Unasked(s)  == s.asked = {} /\ s.answered = {} /\ s.mode = "compare"
\* Whom it may still ask; in compare mode the office among them unless it was asked already.
Asking(s)   == /\ s.asked \union s.ask \subseteq Permitted(s.mode) /\ s.answered = {}
               /\ s.mode = "compare" => "uspto" \in s.asked \union s.ask
\* One of the two sources has answered, and it is the other's turn.
Halfway(s)  == /\ s.mode = "compare"
               /\ \E p \in Providers : s.ask = {p} /\ p \in s.asked /\ s.answered = {p}
               /\ s.asked \subseteq Providers
Asked(s)    == /\ s.asked \subseteq Permitted(s.mode)
               /\ s.mode # "compare" => Single(s.answered)
Settled(s)  == Asked(s) /\ (s.mode = "compare" /\ s.asked # {} => "uspto" \in s.asked)
Noted(s)    == DOMAIN s.res = ResultFields /\ ("uspto" \in s.answered => s.res.office)

KeepsMode(s, held) ==
    /\ s.pc \in {"start", "crawl", "fetch", "second", "node", "done"}
    /\ s.pc \in {"start", "crawl"} => Unasked(s) /\ DOMAIN s.res = ResultFields
    /\ s.pc = "fetch" => Asking(s) /\ Noted(s)
    /\ s.pc = "second" => Halfway(s) /\ Noted(s)
    /\ s.pc = "node" => Settled(s) /\ Noted(s)
    /\ s.pc = "done" => /\ Asked(s)
                        /\ s.ok => Settled(s) /\ ("uspto" \in s.answered => held)

ModeInv == AllFormed /\ \A c \in Calls : Crawling(call[c]) => KeepsMode(call[c], app.held)

LEMMA ForemostIsAsked ==
    ASSUME NEW ask, ask \subseteq Providers, ask # {}
    PROVE  Foremost(ask) \in ask
<1>1. \E p \in ask : \A q \in ask : Place[p] <= Place[q]
    <2>1. Place["file"] = 1 /\ Place["uspto"] = 2 /\ Place["google"] = 3
        BY DEF Place
    <2>2. CASE "file" \in ask
        BY <2>1, <2>2 DEF Providers
    <2>3. CASE "file" \notin ask /\ "uspto" \in ask
        BY <2>1, <2>3 DEF Providers
    <2>4. CASE "file" \notin ask /\ "uspto" \notin ask
        <3>1. ask = {"google"}
            BY <2>4 DEF Providers
        <3> QED BY <2>1, <3>1
    <2> QED BY <2>2, <2>3, <2>4
<1> QED BY <1>1 DEF Foremost

LEMMA PermittedAreProviders ==
    ASSUME NEW m
    PROVE  /\ Permitted(m) \subseteq Providers
           /\ Permitted("compare") = Providers
BY DEF Permitted

LEMMA EndedKeepsMode ==
    ASSUME NEW s, Formed(s), Asked(s), NEW ok \in BOOLEAN, NEW held,
           ok => Settled(s) /\ ("uspto" \in s.answered => held)
    PROVE  KeepsMode(Ended(s, ok), held)
<1> DEFINE x == Ended(s, ok)
<1>1. /\ x.pc = "done" /\ x.ok = ok /\ x.mode = s.mode /\ x.asked = s.asked /\ x.answered = s.answered
    BY EndedForms
<1> HIDE DEF x
<1>2. KeepsMode(x, held)
    BY <1>1 DEF KeepsMode, Asked, Settled
<1> QED BY <1>2 DEF x

\* What a failed or unsuccessful crawl leaves.
LEMMA KeptIsAsked ==
    ASSUME NEW s, NEW held, KeepsMode(s, held)
    PROVE  Asked(s)
<1>1. CASE s.pc \in {"start", "crawl"}
    BY <1>1 DEF KeepsMode, Unasked, Asked
<1>2. CASE s.pc = "fetch"
    BY <1>2 DEF KeepsMode, Asking, Asked, Single
<1>3. CASE s.pc = "second"
    BY <1>3, PermittedAreProviders DEF KeepsMode, Halfway, Asked
<1>4. CASE s.pc = "node"
    BY <1>4 DEF KeepsMode, Settled
<1>5. CASE s.pc = "done"
    BY <1>5 DEF KeepsMode
<1> QED BY <1>1, <1>2, <1>3, <1>4, <1>5 DEF KeepsMode

LEMMA CrawlStartKeepsMode ==
    ASSUME AllFormed, NEW c \in Calls, Crawling(call[c]), NEW held, KeepsMode(call[c], held),
           Begin(c) \/ StartCrawl(c)
    PROVE  \E x : Become(c, x) /\ KeepsMode(x, held)
<1> DEFINE s == call[c]
<1>0. Formed(s)
    BY DEF AllFormed
<1>1. CASE Begin(c)
    <2>1. s.pc = "start" /\ s.op.op = "crawl"
        BY <1>1 DEF Begin, At, Crawling
    <2>2. Become(c, Goto(s, "crawl"))
        BY <1>1, <2>1 DEF Begin
    <2> DEFINE x == Goto(s, "crawl")
    <2>3. /\ x.pc = "crawl" /\ x.asked = s.asked /\ x.answered = s.answered /\ x.mode = s.mode
          /\ x.res = s.res
        BY <1>0 DEF Goto, Formed, StateFields
    <2> HIDE DEF x
    <2>4. KeepsMode(x, held)
        BY <2>1, <2>3 DEF KeepsMode, Unasked
    <2> QED BY <2>2, <2>4 DEF x
<1>2. CASE StartCrawl(c)
    <2> DEFINE res == [NoResult EXCEPT !.assignee = record.assignee]
               left == Permitted(mode) \ (IF Forced(s) THEN {"file"} ELSE {})
               x == [s EXCEPT !.pc = "node", !.res = res]
               z == [s EXCEPT !.pc = "fetch", !.mode = mode, !.ask = left]
    <2>1. s.pc = "crawl" /\ Source(s) = "any"
        BY <1>2 DEF StartCrawl, At, Crawling, Source
    <2>2. Become(c, x) \/ Become(c, z)
        BY <1>2, <2>1, Zenon DEF StartCrawl
    <2>3. Unasked(s) /\ DOMAIN s.res = ResultFields
        BY <2>1 DEF KeepsMode
    <2>4. DOMAIN res = ResultFields
        BY DEF NoResult, ResultFields
    <2>5. left \subseteq Permitted(mode) /\ (mode = "compare" => "uspto" \in left)
        BY PermittedAreProviders DEF Providers
    <2> HIDE DEF res, left
    <2>6. /\ x.pc = "node" /\ x.asked = {} /\ x.answered = {} /\ x.mode = "compare" /\ x.res = res
        BY <1>0, <2>3 DEF Formed, StateFields, Unasked
    <2>7. /\ z.pc = "fetch" /\ z.asked = {} /\ z.answered = {} /\ z.mode = mode /\ z.res = s.res
          /\ z.ask = left
        BY <1>0, <2>3 DEF Formed, StateFields, Unasked
    <2> HIDE DEF x, z
    <2>8. KeepsMode(x, held)
        BY <2>4, <2>6 DEF KeepsMode, Settled, Asked, Noted
    <2>9. KeepsMode(z, held)
        BY <2>3, <2>5, <2>7 DEF KeepsMode, Asking, Noted
    <2> QED BY <2>2, <2>8, <2>9
<1> QED BY <1>1, <1>2

LEMMA OfficeFields ==
    ASSUME NEW res, DOMAIN res = ResultFields, NEW p, NEW links
    PROVE  /\ DOMAIN Office(res, p, links) = ResultFields
           /\ p = "uspto" => Office(res, p, links).office
           /\ p # "uspto" => Office(res, p, links) = res
BY DEF Office, ResultFields

LEMMA FetchKeepsMode ==
    ASSUME AllFormed, NEW c \in Calls, Crawling(call[c]), NEW held, KeepsMode(call[c], held), Fetch(c)
    PROVE  \E x : Become(c, x) /\ KeepsMode(x, held)
<1> DEFINE s == call[c]
           p == Foremost(s.ask)
           a == [s EXCEPT !.asked = @ \union {p}, !.answered = @ \union {p}]
           res == [a.res EXCEPT !.assignee = given.says[p]]
           x(links) == [a EXCEPT !.res = Office(res, p, links),
                                 !.pc = IF Compares(s) THEN "second" ELSE "node", !.ask = {p}]
<1>1. Formed(s)
    BY DEF AllFormed
<1>2. s.pc = "fetch" /\ s.ask # {}
    BY DEF Fetch, At
<1>3. \E links : Become(c, x(links))
    BY Zenon DEF Fetch
<1>4. Compares(s) <=> s.mode = "compare"
    BY DEF Compares, Crawling, Source
<1>5. Asking(s) /\ Noted(s)
    BY <1>2 DEF KeepsMode
<1>6. p \in s.ask /\ p \in Providers /\ p \in Permitted(s.mode)
    BY <1>2, <1>5, ForemostIsAsked, PermittedAreProviders DEF Asking
<1> HIDE DEF p
<1>7. /\ DOMAIN a = StateFields /\ a.asked = s.asked \union {p} /\ a.answered = s.answered \union {p}
      /\ a.res = s.res /\ a.mode = s.mode
    BY <1>1 DEF Formed, StateFields
<1> HIDE DEF a
<1>8. DOMAIN res = ResultFields
    BY <1>5, <1>7 DEF Noted
<1> HIDE DEF res
<1>9. ASSUME NEW links
      PROVE  KeepsMode(x(links), held)
    <2> DEFINE o == Office(res, p, links)
               y == [a EXCEPT !.res = o, !.pc = IF Compares(s) THEN "second" ELSE "node", !.ask = {p}]
    <2>1. DOMAIN o = ResultFields /\ (p = "uspto" => o.office)
        BY <1>8, OfficeFields
    <2> HIDE DEF o
    <2>2. x(links) = y
        BY DEF o
    <2>3. /\ y.res = o /\ y.pc = (IF Compares(s) THEN "second" ELSE "node") /\ y.ask = {p}
          /\ y.asked = s.asked \union {p} /\ y.answered = {p} /\ y.mode = s.mode
        BY <1>5, <1>7 DEF StateFields, Asking
    <2> HIDE DEF y
    <2>4. Noted(y)
        BY <2>1, <2>3 DEF Noted
    <2>5. s.mode = "compare" => Halfway(y)
        BY <1>5, <1>6, <2>3, PermittedAreProviders DEF Halfway, Asking
    <2>6. s.mode # "compare" => Settled(y)
        BY <1>5, <1>6, <2>3 DEF Settled, Asked, Single, Asking
    <2>7. KeepsMode(y, held)
        BY <1>4, <2>3, <2>4, <2>5, <2>6 DEF KeepsMode
    <2> QED BY <2>2, <2>7
<1> HIDE DEF x
<1> QED BY <1>3, <1>9

LEMMA FetchFailsKeepsMode ==
    ASSUME AllFormed, NEW c \in Calls, Crawling(call[c]), NEW held, KeepsMode(call[c], held), FetchFails(c)
    PROVE  \E x : Become(c, x) /\ KeepsMode(x, held)
<1> DEFINE s == call[c]
           p == Foremost(s.ask)
           x == [s EXCEPT !.asked = @ \union {p}, !.ask = @ \ {p}]
<1>1. Formed(s)
    BY DEF AllFormed
<1>2. s.pc = "fetch" /\ s.ask # {} /\ Become(c, x)
    BY Zenon DEF FetchFails, At
<1>3. Asking(s) /\ Noted(s)
    BY <1>2 DEF KeepsMode
<1>4. p \in s.ask
    BY <1>2, <1>3, ForemostIsAsked, PermittedAreProviders DEF Asking
<1> HIDE DEF p
<1>5. /\ x.pc = "fetch" /\ x.asked = s.asked \union {p} /\ x.ask = s.ask \ {p} /\ x.res = s.res
      /\ x.answered = s.answered /\ x.mode = s.mode
    BY <1>1, <1>2 DEF Formed, StateFields
<1> HIDE DEF x
<1>6. Asking(x) /\ Noted(x)
    BY <1>3, <1>4, <1>5 DEF Asking, Noted
<1>7. KeepsMode(x, held)
    BY <1>5, <1>6 DEF KeepsMode
<1> QED BY <1>2, <1>7

LEMMA CompareKeepsMode ==
    ASSUME AllFormed, NEW c \in Calls, Crawling(call[c]), NEW held, KeepsMode(call[c], held), Compare(c)
    PROVE  \E x : Become(c, x) /\ KeepsMode(x, held)
<1> DEFINE s == call[c]
           p == Foremost(s.ask)
           q == Second(p)
           a == [s EXCEPT !.pc = "node", !.asked = @ \union {q}]
           res == [a.res EXCEPT !.diffs = Differences(given.says[p], given.says[q])]
           x(links) == [a EXCEPT !.answered = @ \union {q}, !.res = Office(res, q, links)]
<1>1. Formed(s)
    BY DEF AllFormed
<1>2. s.pc = "second"
    BY DEF Compare, At
<1>3. Become(c, a) \/ \E links : Become(c, x(links))
    BY Zenon DEF Compare
<1>4. Halfway(s) /\ Noted(s)
    BY <1>2 DEF KeepsMode
<1>5. p \in Providers /\ p \in s.asked /\ s.answered = {p}
    <2>1. PICK r \in Providers : s.ask = {r} /\ r \in s.asked /\ s.answered = {r}
        BY <1>4 DEF Halfway
    <2>2. p = r
        BY <2>1, ForemostIsAsked
    <2> QED BY <2>1, <2>2
<1>6. q \in Providers /\ "uspto" \in {p, q}
    BY <1>5 DEF Second, Providers
<1> HIDE DEF p, q
<1>7. /\ DOMAIN a = StateFields /\ a.pc = "node" /\ a.asked = s.asked \union {q}
      /\ a.answered = s.answered /\ a.res = s.res /\ a.mode = "compare"
    BY <1>1, <1>4 DEF Formed, StateFields, Halfway
<1> HIDE DEF a
<1>8. a.asked \subseteq Permitted("compare") /\ "uspto" \in a.asked
    BY <1>4, <1>5, <1>6, <1>7, PermittedAreProviders DEF Halfway
<1>9. KeepsMode(a, held)
    <2>1. Settled(a) /\ Noted(a)
        BY <1>4, <1>7, <1>8 DEF Settled, Asked, Noted
    <2> QED BY <1>7, <2>1 DEF KeepsMode
<1>10. DOMAIN res = ResultFields /\ res.office = s.res.office
    BY <1>4, <1>7 DEF Noted, ResultFields
<1> HIDE DEF res
<1>11. ASSUME NEW links
       PROVE  KeepsMode(x(links), held)
    <2> DEFINE o == Office(res, q, links)
               y == [a EXCEPT !.answered = @ \union {q}, !.res = o]
    <2>1. /\ DOMAIN o = ResultFields /\ (q = "uspto" => o.office)
          /\ q # "uspto" => o.office = s.res.office
        BY <1>10, OfficeFields
    <2> HIDE DEF o
    <2>2. x(links) = y
        BY DEF o
    <2>3. /\ y.res = o /\ y.pc = "node" /\ y.asked = a.asked /\ y.answered = {p, q} /\ y.mode = "compare"
        BY <1>5, <1>7 DEF StateFields
    <2> HIDE DEF y
    <2>4. Noted(y)
        BY <1>4, <1>5, <2>1, <2>3 DEF Noted
    <2>5. Settled(y)
        BY <1>8, <2>3 DEF Settled, Asked
    <2>6. KeepsMode(y, held)
        BY <2>3, <2>4, <2>5 DEF KeepsMode
    <2> QED BY <2>2, <2>6
<1> HIDE DEF x
<1> QED BY <1>3, <1>9, <1>11

LEMMA CrawlEndKeepsMode ==
    ASSUME AllFormed, NEW c \in Calls, Crawling(call[c]), KeepsMode(call[c], app.held),
           AllFailed(c) \/ SaveNode(c)
    PROVE  \E x : Become(c, x) /\ KeepsMode(x, app'.held)
<1> DEFINE s == call[c]
<1>0. Formed(s) /\ s.op.op = "crawl" /\ Asked(s)
    BY KeptIsAsked DEF AllFormed, Crawling
<1>1. CASE AllFailed(c)
    <2>1. Become(c, Ended(s, FALSE))
        BY <1>0, <1>1, CrawlEndsForms DEF AllFailed
    <2> QED BY <1>0, <2>1, EndedKeepsMode
<1>2. CASE SaveNode(c)
    <2>1. s.pc = "node" /\ Become(c, Ended(s, TRUE))
        BY <1>0, <1>2, CrawlEndsForms DEF SaveNode, At
    <2>2. s.res.office => app'.held
        BY <1>2 DEF SaveNode
    <2>3. Settled(s) /\ Noted(s)
        BY <2>1 DEF KeepsMode
    <2>4. "uspto" \in s.answered => app'.held
        BY <2>2, <2>3 DEF Noted
    <2>5. KeepsMode(Ended(s, TRUE), app'.held)
        BY <1>0, <2>3, <2>4, EndedKeepsMode
    <2> QED BY <2>1, <2>5
<1> QED BY <1>1, <1>2

LEMMA UnsureKeepsMode ==
    ASSUME NEW s, Formed(s), NEW held, KeepsMode(s, held)
    PROVE  KeepsMode([s EXCEPT !.sure = FALSE], held)
<1> DEFINE x == [s EXCEPT !.sure = FALSE]
<1>1. \A f \in StateFields \ {"sure"} : x[f] = s[f]
    BY DEF Formed, StateFields
<1>2. /\ x.pc = s.pc /\ x.asked = s.asked /\ x.answered = s.answered /\ x.mode = s.mode
      /\ x.ask = s.ask /\ x.res = s.res /\ x.ok = s.ok
    BY <1>1 DEF StateFields
<1> HIDE DEF x
<1>3. /\ Unasked(s) => Unasked(x)
      /\ Asking(s) => Asking(x)
      /\ Halfway(s) => Halfway(x)
      /\ Asked(s) => Asked(x)
      /\ Settled(s) => Settled(x)
      /\ Noted(s) => Noted(x)
    BY <1>2 DEF Unasked, Asking, Halfway, Asked, Settled, Noted
<1>4. KeepsMode(x, held)
    BY <1>2, <1>3 DEF KeepsMode
<1> QED BY <1>4 DEF x

LEMMA KeptStays ==
    ASSUME NEW s, KeepsMode(s, app.held), app.held => app'.held
    PROVE  KeepsMode(s, app'.held)
BY DEF KeepsMode

LEMMA CrawlFailsKeepsMode ==
    ASSUME AllFormed, NEW c \in Calls, Crawling(call[c]), NEW held, KeepsMode(call[c], held), Fails(c)
    PROVE  \E x : Become(c, x) /\ KeepsMode(x, held)
<1> DEFINE s == call[c]
           e == Ended(s, FALSE)
           x == [e EXCEPT !.sure = FALSE]
<1>1. Formed(s) /\ s.op.op = "crawl" /\ Asked(s)
    BY KeptIsAsked DEF AllFormed, Crawling
<1>2. s.pc \in {"crawl", "fetch", "second", "node"}
    BY DEF KeepsMode, Fails
<1>3. Failing(s) \in {CrawlEnds(s, FALSE), e}
    BY <1>2 DEF Failing
<1>4. Failing(s) = e
    BY <1>1, <1>3, CrawlEndsForms
<1>5. Become(c, x)
    BY <1>4 DEF Fails
<1>6. Formed(e) /\ KeepsMode(e, held)
    BY <1>1, EndedForms, EndedKeepsMode
<1> HIDE DEF e
<1>7. KeepsMode(x, held)
    BY <1>6, UnsureKeepsMode
<1> QED BY <1>5, <1>7

LEMMA HeldStays ==
    ASSUME NEW c \in Calls, CallStep(c), app.held
    PROVE  app'.held
<1>1. CASE app' = app
    BY <1>1
<1>2. CASE SaveNode(c)
    <2>1. app' = [held |-> TRUE, links |-> call[c].res.links] \/ app' = app
        BY <1>2 DEF SaveNode
    <2> QED BY <2>1
<1> QED BY <1>1, <1>2, TablesStay

LEMMA ModeKeeps ==
    ASSUME ModeInv, NEW c \in Calls, CallStep(c), NEW d \in Calls, Crawling(call[d])
    PROVE  KeepsMode(call'[d], app'.held)
<1> USE DEF ModeInv
<1>1. Formed(call[d]) /\ KeepsMode(call[d], app.held)
    BY DEF AllFormed
<1>2. app.held => app'.held
    BY HeldStays
<1>3. CASE d # c
    <2>1. call'[d] \in {call[d], [call[d] EXCEPT !.sure = FALSE]}
        BY <1>3, StepTouches DEF Touched
    <2>2. KeepsMode(call[d], app'.held)
        BY <1>1, <1>2, KeptStays
    <2>3. KeepsMode([call[d] EXCEPT !.sure = FALSE], app'.held)
        BY <1>1, <2>2, UnsureKeepsMode
    <2> QED BY <2>1, <2>2, <2>3
<1>4. CASE d = c
    <2>0. call[c].pc \in {"start", "crawl", "fetch", "second", "node", "done"}
        BY <1>1, <1>4 DEF KeepsMode
    <2>1. \/ Begin(c) \/ StartCrawl(c) \/ Fetch(c) \/ FetchFails(c) \/ Compare(c) \/ Fails(c)
          \/ AllFailed(c) \/ SaveNode(c)
        BY <2>0, StagesStep
    <2>2. CASE AllFailed(c) \/ SaveNode(c)
        <3>1. \E x : Become(c, x) /\ KeepsMode(x, app'.held)
            BY <1>1, <1>4, <2>2, CrawlEndKeepsMode
        <3> QED BY <1>4, <3>1, BecomeTouches
    <2>3. CASE ~(AllFailed(c) \/ SaveNode(c))
        <3>1. KeepsMode(call[c], app'.held)
            BY <1>1, <1>2, <1>4, KeptStays
        <3>2. \E x : Become(c, x) /\ KeepsMode(x, app'.held)
            <4> DEFINE held == app'.held
            <4>1. AllFormed /\ Crawling(call[c]) /\ KeepsMode(call[c], held)
                BY <1>4, <3>1
            <4> HIDE DEF held
            <4>2. \E x : Become(c, x) /\ KeepsMode(x, held)
                BY <2>1, <2>3, <4>1, CrawlStartKeepsMode, FetchKeepsMode, FetchFailsKeepsMode,
                   CompareKeepsMode, CrawlFailsKeepsMode
            <4> QED BY <4>2 DEF held
        <3> QED BY <1>4, <3>2, BecomeTouches
    <2> QED BY <2>2, <2>3
<1> QED BY <1>3, <1>4

LEMMA OperationsStay ==
    ASSUME AllFormed, NEW c \in Calls, CallStep(c)
    PROVE  \A d \in Calls : call'[d].op = call[d].op
<1>1. Touched(c)
    BY StepTouches
<1>2. ASSUME NEW d \in Calls \ {c}
      PROVE  call'[d].op = call[d].op
    <2>1. Formed(call[d])
        BY DEF AllFormed
    <2>2. [call[d] EXCEPT !.sure = FALSE].op = call[d].op
        BY <2>1 DEF Formed, StateFields
    <2> QED BY <1>1, <2>2 DEF Touched
<1> QED BY <1>1, <1>2 DEF Touched, Moves

LEMMA OneModeFollows ==
    ASSUME ModeInv
    PROVE  OneModePerFetch
<1> SUFFICES ASSUME NEW c \in Calls, Crawling(call[c])
             PROVE  LET s == call[c] IN
                    /\ s.asked \subseteq Permitted(s.mode)
                    /\ s.mode # "compare" => Cardinality(s.answered) <= 1
                    /\ At(c, "done") /\ s.ok /\ s.mode = "compare" /\ s.asked # {} => "uspto" \in s.asked
                    /\ At(c, "done") /\ s.ok /\ "uspto" \in s.answered => app.held
    BY DEF OneModePerFetch, Crawling
<1> DEFINE s == call[c]
<1>1. KeepsMode(s, app.held) /\ Asked(s)
    BY KeptIsAsked DEF ModeInv
<1>2. Single(s.answered) => Cardinality(s.answered) <= 1
    BY FS_EmptySet, FS_Singleton DEF Single
<1>3. s.pc = "done" /\ s.ok => Settled(s) /\ ("uspto" \in s.answered => app.held)
    BY <1>1 DEF KeepsMode
<1> QED BY <1>1, <1>2, <1>3 DEF Asked, Settled, At

\* A crawl asks nobody its mode forbids, takes a second answer in compare mode alone, and
\* does not save what the office said without the application - whatever the mode became
\* since it began.
THEOREM FetchesKeepOneMode == Spec => []OneModePerFetch
<1>1. Init => ModeInv
    <2> SUFFICES ASSUME Init, NEW c \in Calls
                 PROVE  KeepsMode(call[c], app.held)
        BY FormedStarts DEF ModeInv
    <2>1. call[c] = Start(given.calls[c])
        BY DEF Init
    <2>2. /\ call[c].pc = "start" /\ Unasked(call[c])
          /\ DOMAIN call[c].res = ResultFields
        BY <2>1 DEF Start, Unasked, NoResult, ResultFields
    <2> QED BY <2>2 DEF KeepsMode
<1>2. ModeInv /\ [Next]_vars => ModeInv'
    <2> SUFFICES ASSUME ModeInv, [Next]_vars
                 PROVE  ModeInv'
        OBVIOUS
    <2>1. AllFormed'
        BY FormedKeeps DEF ModeInv
    <2>2. CASE \E c \in Calls : CallStep(c)
        <3>1. PICK c \in Calls : CallStep(c)
            BY <2>2
        <3>2. \A d \in Calls : call'[d].op = call[d].op
            BY <3>1, OperationsStay DEF ModeInv
        <3>3. \A d \in Calls : Crawling(call[d]) => KeepsMode(call'[d], app'.held)
            BY <3>1, ModeKeeps
        <3> QED BY <2>1, <3>2, <3>3 DEF ModeInv, Crawling
    <2>3. CASE UNCHANGED <<app, call>>
        BY <2>1, <2>3 DEF ModeInv
    <2>4. (\E c \in Calls : CallStep(c)) \/ UNCHANGED <<app, call>>
        BY DEF Next, SetSourceMode, vars, patent
    <2> QED BY <2>2, <2>3, <2>4
<1>3. ModeInv => OneModePerFetch
    BY OneModeFollows
<1> QED BY <1>1, <1>2, <1>3, PTL DEF Spec

-----------------------------------------------------------------------------
(* A reader comes to the kind whose whole file is there. *)

Reading   == {"body", "prior", "stat", "parse", "save grant", "cite", "compare", "fill", "again"}
Ingesting == {"parse", "save grant", "cite", "compare", "fill"}
KindLists == {<<"grant", "pgpub">>, <<"grant">>, <<"pgpub">>}

WholeKinds == {k \in XMLKinds : Whole(k)}

\* The kind it is at is one of the whole ones, and is not passed over.
Present(s, whole, parsed) ==
    /\ Head(s.kinds) \in whole
    /\ s.pc = "stat" => s.prior.held
    /\ s.pc \in {"cite", "compare", "fill", "again"} => Head(s.kinds) \in parsed

\* The one after it is.
Ahead(s, whole) == s.kinds = <<"grant", "pgpub">> /\ "pgpub" \in whole

Promised(s, whole, parsed) ==
    /\ s.pc \in Reading \union {"view", "done"}
    /\ s.pc = "done" => s.ok
    /\ s.pc = "view" => \E k \in Wanted(s.op.kind) : k \in whole
    /\ s.pc \in Reading => s.kinds \in KindLists /\ (Present(s, whole, parsed) \/ Ahead(s, whole))
    /\ s.pc \in Ingesting => s.then = "again"

\* A record of a download is made for an application on file.
HeldFirst ==
    /\ \A c \in Calls : call[c].pc \in Holding => app.held
    /\ DOMAIN down = XMLKinds /\ DOMAIN disk = XMLKinds
    /\ \A k \in XMLKinds : down[k].held => app.held

Trusting(s) == s.op.op = "read" /\ s.sure

PromiseInv ==
    /\ AllFormed /\ HeldFirst
    /\ \A c \in Calls : Trusting(call[c]) => Promised(call[c], WholeKinds, body)

LEMMA HeldFirstKeeps ==
    ASSUME AllFormed, HeldFirst, NEW c \in Calls, CallStep(c)
    PROVE  HeldFirst'
<1>1. Touched(c)
    BY StepTouches
<1>2. app.held => app'.held
    BY HeldStays
<1>3. ASSUME NEW d \in Calls, call'[d].pc \in Holding
      PROVE  app'.held
    <2>1. CASE d = c
        <3>1. call[c].pc \in Holding \/ app.held
            BY <1>1, <1>3, <2>1 DEF Touched, Moves
        <3> QED BY <1>2, <3>1 DEF HeldFirst
    <2>2. CASE d # c
        <3>1. Formed(call[d])
            BY DEF AllFormed
        <3>2. [call[d] EXCEPT !.sure = FALSE].pc = call[d].pc
            BY <3>1 DEF Formed, StateFields
        <3>3. call[d].pc \in Holding
            BY <1>1, <1>3, <2>2, <3>2 DEF Touched
        <3> QED BY <1>2, <3>3 DEF HeldFirst
    <2> QED BY <2>1, <2>2
<1>4. DOMAIN disk' = XMLKinds
    <2>1. CASE disk' = disk
        BY <2>1 DEF HeldFirst
    <2>2. CASE Download(c) \/ WritePiece(c)
        BY <2>2 DEF Download, WritePiece, HeldFirst
    <2> QED BY <2>1, <2>2, FilesStay
<1>5. /\ DOMAIN down' = XMLKinds
      /\ \A k \in XMLKinds : down'[k].held => app'.held
    <2>1. CASE down' = down
        BY <1>2, <2>1 DEF HeldFirst
    <2>2. CASE RecordAccess(c) \/ RecordDownload(c)
        <3>1. down' = down \/ down' = [down EXCEPT ![Kind(c)] = Counted(c)]
            BY <2>2 DEF RecordAccess, RecordDownload
        <3>2. call[c].pc \in Holding
            BY <2>2 DEF RecordAccess, RecordDownload, At, Holding
        <3>3. app'.held
            BY <1>2, <3>2 DEF HeldFirst
        <3> QED BY <3>1, <3>3 DEF HeldFirst
    <2> QED BY <2>1, <2>2, FilesStay
<1> QED BY <1>3, <1>4, <1>5 DEF HeldFirst

\* What is there stays, but for a download that begins anew and a clearing.
LEMMA FilesGrow ==
    ASSUME AllFormed, HeldFirst, NEW c \in Calls, CallStep(c), ~Download(c), ~ClearBodies(c)
    PROVE  WholeKinds \subseteq WholeKinds' /\ body \subseteq body'
<1>1. body \subseteq body'
    BY FilesStay DEF SaveGrant
<1>2. ASSUME NEW k \in XMLKinds, Whole(k)
      PROVE  Whole(k)'
    <2>1. down'[k].held
        <3>1. CASE down' = down
            BY <1>2, <3>1 DEF Whole
        <3>2. CASE RecordAccess(c) \/ RecordDownload(c)
            <4>1. down' = down \/ down' = [down EXCEPT ![Kind(c)] = Counted(c)]
                BY <3>2 DEF RecordAccess, RecordDownload
            <4>2. Counted(c).held
                BY DEF Counted
            <4> QED BY <1>2, <4>1, <4>2 DEF Whole, HeldFirst
        <3> QED BY <3>1, <3>2, FilesStay
    <2>2. disk'[k] = 1..Pieces
        <3>1. CASE disk' = disk
            BY <1>2, <3>1 DEF Whole
        <3>2. CASE WritePiece(c)
            <4>1. disk' = [disk EXCEPT ![Kind(c)] = @ \union {call[c].piece}]
                BY <3>2 DEF WritePiece
            <4>2. call[c].piece \in 1..Pieces
                BY <3>2 DEF WritePiece, At, AllFormed, Formed
            <4> QED BY <1>2, <4>1, <4>2 DEF Whole, HeldFirst
        <3> QED BY <3>1, <3>2, FilesStay
    <2> QED BY <2>1, <2>2 DEF Whole
<1> QED BY <1>1, <1>2 DEF WholeKinds

LEMMA PromisedGrows ==
    ASSUME NEW s, NEW whole, NEW parsed, Promised(s, whole, parsed),
           NEW more, NEW later, whole \subseteq more, parsed \subseteq later
    PROVE  Promised(s, more, later)
<1>1. Present(s, whole, parsed) => Present(s, more, later)
    BY DEF Present
<1>2. Ahead(s, whole) => Ahead(s, more)
    BY DEF Ahead
<1> QED BY <1>1, <1>2 DEF Promised

LEMMA KindListFacts ==
    /\ Head(<<"grant", "pgpub">>) = "grant" /\ Tail(<<"grant", "pgpub">>) = <<"pgpub">>
    /\ Head(<<"grant">>) = "grant" /\ Head(<<"pgpub">>) = "pgpub"
    /\ Len(<<"grant", "pgpub">>) = 2
    /\ \A kinds \in KindLists : Head(kinds) \in XMLKinds
<1>1. /\ Head(<<"grant", "pgpub">>) = "grant" /\ Tail(<<"grant", "pgpub">>) = <<"pgpub">>
      /\ Head(<<"grant">>) = "grant" /\ Head(<<"pgpub">>) = "pgpub"
      /\ Len(<<"grant", "pgpub">>) = 2
    OBVIOUS
<1> QED BY <1>1 DEF KindLists, XMLKinds

LEMMA PromiseBegins ==
    ASSUME PromiseInv, NEW c \in Calls, call[c].op.op = "read", Begin(c)
    PROVE  \E x : Become(c, x) /\ (x.sure => Promised(x, WholeKinds, body))
<1> DEFINE s == call[c]
           x == [s EXCEPT !.pc = "view", !.sure = \E k \in Wanted(s.op.kind) : Whole(k)]
<1>1. Formed(s)
    BY DEF PromiseInv, AllFormed
<1>2. Become(c, x)
    BY DEF Begin
<1>3. x.pc = "view" /\ x.op = s.op /\ (x.sure => \E k \in Wanted(s.op.kind) : Whole(k))
    BY <1>1 DEF Formed, StateFields
<1>4. s.op.kind \in XMLKinds \union {"auto"}
    BY <1>1 DEF Formed, Operations
<1>5. Wanted(s.op.kind) \subseteq XMLKinds
    BY <1>4 DEF Wanted
<1> HIDE DEF x
<1>6. x.sure => \E k \in Wanted(x.op.kind) : k \in WholeKinds
    BY <1>3, <1>5 DEF WholeKinds
<1>7. x.sure => Promised(x, WholeKinds, body)
    BY <1>3, <1>6 DEF Promised, Reading, Ingesting
<1> QED BY <1>2, <1>7

LEMMA PromiseViews ==
    ASSUME PromiseInv, NEW c \in Calls, Trusting(call[c]), ViewBody(c)
    PROVE  \E x : Become(c, x) /\ Promised(x, WholeKinds, body)
<1> DEFINE s == call[c]
           kinds == IF s.op.kind = "auto" THEN <<"grant", "pgpub">> ELSE <<s.op.kind>>
           x == [s EXCEPT !.pc = "body", !.kinds = kinds]
<1>1. Formed(s) /\ s.op.op = "read" /\ s.pc = "view"
    BY DEF PromiseInv, AllFormed, Trusting, ViewBody, At
<1>2. PICK k \in Wanted(s.op.kind) : k \in WholeKinds
    BY <1>1 DEF PromiseInv, Promised
<1>3. app.held
    BY <1>2 DEF PromiseInv, HeldFirst, WholeKinds, Whole
<1>4. Become(c, x)
    BY <1>3, Zenon DEF ViewBody
<1>5. s.op.kind \in XMLKinds \union {"auto"}
    BY <1>1 DEF Formed, Operations
<1>6. /\ kinds \in KindLists
      /\ Head(kinds) \in WholeKinds \/ (kinds = <<"grant", "pgpub">> /\ "pgpub" \in WholeKinds)
    BY <1>2, <1>5, KindListFacts DEF KindLists, XMLKinds, Wanted
<1> HIDE DEF kinds
<1>7. x.pc = "body" /\ x.kinds = kinds
    BY <1>1 DEF Formed, StateFields
<1> HIDE DEF x
<1>8. Promised(x, WholeKinds, body)
    BY <1>6, <1>7 DEF Promised, Present, Ahead, Reading, Ingesting
<1> QED BY <1>4, <1>8

\* Of two kinds the second is the whole one: the reader passes on to it.
LEMMA PromisePasses ==
    ASSUME NEW s, Formed(s), NEW whole, NEW parsed, Ahead(s, whole)
    PROVE  Promised(NextKind(s), whole, parsed)
<1> DEFINE x == NextKind(s)
<1>1. s.kinds = <<"grant", "pgpub">> /\ "pgpub" \in whole
    BY DEF Ahead
<1>2. x.pc = "body" /\ x.kinds = <<"pgpub">>
    <2>1. Len(s.kinds) # 1 /\ Tail(s.kinds) = <<"pgpub">>
        BY <1>1, KindListFacts
    <2>2. x.pc = "body" /\ x.kinds = Tail(s.kinds)
        BY <2>1, NextKindForms
    <2> QED BY <2>1, <2>2
<1> HIDE DEF x
<1>3. Promised(x, whole, parsed)
    BY <1>1, <1>2, KindListFacts DEF Promised, Present, Reading, Ingesting, KindLists
<1> QED BY <1>3 DEF x

LEMMA PromiseGoes ==
    ASSUME NEW s, Formed(s), NEW whole, NEW parsed, NEW after,
           Promised(s, whole, parsed), s.pc \in Reading,
           NEW pc \in Reading \ {"parse", "stat"}, pc \in Ingesting => s.then = "again",
           Present(s, whole, parsed) /\ pc \in {"cite", "compare", "fill", "again"} => Head(s.kinds) \in after
    PROVE  Promised(Goto(s, pc), whole, after)
<1> DEFINE x == Goto(s, pc)
<1>1. pc \notin {"write", "parse", "save", "stat", "done", "view"}
    BY DEF Reading
<1>2. x.pc = pc /\ x.kinds = s.kinds /\ x.then = s.then
    BY <1>1, GotoForms DEF StateFields
<1> HIDE DEF x
<1>3. Present(s, whole, parsed) => Present(x, whole, after)
    BY <1>1, <1>2 DEF Present
<1>4. Ahead(s, whole) => Ahead(x, whole)
    BY <1>2 DEF Ahead
<1>5. Promised(x, whole, after)
    BY <1>1, <1>2, <1>3, <1>4 DEF Promised
<1> QED BY <1>5 DEF x

LEMMA PromiseEnds ==
    ASSUME NEW s, Formed(s), NEW whole, NEW parsed
    PROVE  Promised(Ended(s, TRUE), whole, parsed)
<1> DEFINE x == Ended(s, TRUE)
<1>1. x.pc = "done" /\ x.ok
    BY EndedForms
<1> HIDE DEF x
<1>2. Promised(x, whole, parsed)
    BY <1>1 DEF Promised, Reading, Ingesting
<1> QED BY <1>2 DEF x

LEMMA PromiseLooks ==
    ASSUME PromiseInv, NEW c \in Calls, Trusting(call[c]), FindBody(c)
    PROVE  \E x : Become(c, x) /\ Promised(x, WholeKinds, body)
<1> DEFINE s == call[c]
<1>1. Formed(s) /\ Promised(s, WholeKinds, body) /\ s.pc \in {"body", "again"}
    BY DEF PromiseInv, AllFormed, FindBody
<1>2. Become(c, IF Kind(c) \in body THEN Ended(s, TRUE)
                ELSE IF s.pc = "body" THEN Goto(s, "prior") ELSE NextKind(s))
    BY DEF FindBody
<1>3. CASE Kind(c) \in body
    BY <1>1, <1>2, <1>3, PromiseEnds
<1>4. CASE Kind(c) \notin body /\ s.pc = "body"
    <2>1. Promised(Goto(s, "prior"), WholeKinds, body)
        BY <1>1, <1>4, PromiseGoes DEF Reading, Ingesting
    <2> QED BY <1>2, <1>4, <2>1
<1>5. CASE Kind(c) \notin body /\ s.pc = "again"
    <2>1. Ahead(s, WholeKinds)
        BY <1>1, <1>5 DEF Promised, Present, Kind, Reading
    <2> QED BY <1>1, <1>2, <1>5, <2>1, PromisePasses
<1> QED BY <1>1, <1>3, <1>4, <1>5

LEMMA PromiseReads ==
    ASSUME PromiseInv, NEW c \in Calls, Trusting(call[c]), ReadPrior(c)
    PROVE  \E x : Become(c, x) /\ Promised(x, WholeKinds, body)
<1> DEFINE s == call[c]
           x == [s EXCEPT !.pc = "stat", !.prior = down[Kind(c)]]
<1>1. Formed(s) /\ Promised(s, WholeKinds, body) /\ s.pc = "prior" /\ Become(c, x)
    BY Zenon DEF PromiseInv, AllFormed, ReadPrior, At
<1>2. x.pc = "stat" /\ x.prior = down[Kind(c)] /\ x.kinds = s.kinds
    BY <1>1 DEF Formed, StateFields
<1> HIDE DEF x
<1>3. Head(s.kinds) \in WholeKinds => Present(x, WholeKinds, body)
    BY <1>2 DEF Present, WholeKinds, Whole, Kind
<1>4. Ahead(s, WholeKinds) => Ahead(x, WholeKinds)
    BY <1>2 DEF Ahead
<1>5. Promised(x, WholeKinds, body)
    BY <1>1, <1>2, <1>3, <1>4 DEF Promised, Present, Reading, Ingesting
<1> QED BY <1>1, <1>5

LEMMA PromiseStats ==
    ASSUME PromiseInv, NEW c \in Calls, Trusting(call[c]), Stat(c)
    PROVE  \E x : Become(c, x) /\ Promised(x, WholeKinds, body)
<1> DEFINE s == call[c]
           is == s.prior.held /\ disk[Kind(c)] # {}
           x == Ingest(s, "again")
<1>1. Formed(s) /\ Promised(s, WholeKinds, body) /\ s.pc = "stat" /\ s.op.op = "read"
    BY DEF PromiseInv, AllFormed, Stat, At, Trusting
<1>2. Become(c, IF is THEN x ELSE NextKind(s))
    BY <1>1 DEF Stat
<1>3. s.kinds \in KindLists /\ (Present(s, WholeKinds, body) \/ Ahead(s, WholeKinds))
    BY <1>1 DEF Promised, Reading
<1>4. CASE is
    <2>1. x.pc = "parse" /\ x.then = "again" /\ x.kinds = s.kinds
        BY <1>1, IngestForms DEF Followers
    <2> HIDE DEF x
    <2>2. Present(s, WholeKinds, body) => Present(x, WholeKinds, body)
        BY <2>1 DEF Present
    <2>3. Ahead(s, WholeKinds) => Ahead(x, WholeKinds)
        BY <2>1 DEF Ahead
    <2>4. Promised(x, WholeKinds, body)
        BY <1>3, <2>1, <2>2, <2>3 DEF Promised, Reading, Ingesting
    <2> QED BY <1>2, <1>4, <2>4
<1>5. CASE ~is
    <2>1. Ahead(s, WholeKinds)
        <3> SUFFICES ASSUME Present(s, WholeKinds, body)
                     PROVE  FALSE
            BY <1>3
        <3>1. s.prior.held /\ Kind(c) \in WholeKinds
            BY <1>1 DEF Present, Kind
        <3>2. disk[Kind(c)] = 1..Pieces
            BY <3>1 DEF WholeKinds, Whole
        <3>3. 1 \in 1..Pieces
            BY OfficeAssumption
        <3> QED BY <1>5, <3>1, <3>2, <3>3
    <2> QED BY <1>1, <1>2, <1>5, <2>1, PromisePasses
<1> QED BY <1>4, <1>5

LEMMA PromiseParses ==
    ASSUME PromiseInv, NEW c \in Calls, Trusting(call[c]), ParsePiece(c)
    PROVE  \E x : Become(c, x) /\ Promised(x, WholeKinds, body)
<1> DEFINE s == call[c]
           y == [s EXCEPT !.piece = @ + 1]
<1>1. Formed(s) /\ Promised(s, WholeKinds, body) /\ s.pc = "parse"
    BY DEF PromiseInv, AllFormed, ParsePiece, At
<1>2. /\ s.kinds \in KindLists /\ (Present(s, WholeKinds, body) \/ Ahead(s, WholeKinds))
      /\ s.then = "again"
    BY <1>1 DEF Promised, Reading, Ingesting
<1>3. Become(c, IF s.piece \notin disk[Kind(c)] THEN IngestEnds(s, FALSE)
                ELSE IF s.piece < Pieces THEN y
                ELSE Goto(s, "save grant"))
    BY Zenon DEF ParsePiece
<1>4. CASE s.piece \notin disk[Kind(c)]
    <2>1. Ahead(s, WholeKinds)
        <3> SUFFICES ASSUME Present(s, WholeKinds, body)
                     PROVE  FALSE
            BY <1>2
        <3>1. disk[Kind(c)] = 1..Pieces
            BY DEF Present, Kind, WholeKinds, Whole
        <3>2. s.piece \in 1..Pieces
            BY <1>1 DEF Formed
        <3> QED BY <1>4, <3>1, <3>2
    <2>2. IngestEnds(s, FALSE) = NextKind(s)
        BY <1>1, <1>2, IngestEndsForms
    <2> HIDE DEF y
    <2>3. Become(c, NextKind(s))
        BY <1>3, <1>4, <2>2
    <2> QED BY <1>1, <2>1, <2>3, PromisePasses
<1>5. Promised(y, WholeKinds, body)
    <2>1. y.pc = "parse" /\ y.kinds = s.kinds /\ y.then = s.then
        BY <1>1 DEF Formed, StateFields
    <2> HIDE DEF y
    <2>2. Present(s, WholeKinds, body) => Present(y, WholeKinds, body)
        BY <2>1 DEF Present
    <2>3. Ahead(s, WholeKinds) => Ahead(y, WholeKinds)
        BY <2>1 DEF Ahead
    <2> QED BY <1>2, <2>1, <2>2, <2>3 DEF Promised, Reading, Ingesting
<1>6. Promised(Goto(s, "save grant"), WholeKinds, body)
    BY <1>1, <1>2, PromiseGoes DEF Reading, Ingesting
<1> HIDE DEF y
<1>7. CASE s.piece \in disk[Kind(c)]
    <2>1. Become(c, y) \/ Become(c, Goto(s, "save grant"))
        BY <1>3, <1>7
    <2> QED BY <1>5, <1>6, <2>1
<1> QED BY <1>4, <1>7

LEMMA PromiseIngests ==
    ASSUME PromiseInv, NEW c \in Calls, Trusting(call[c]),
           SaveGrant(c) \/ SaveCitations(c) \/ ReadFields(c) \/ FillFields(c)
    PROVE  \E x : Become(c, x) /\ Promised(x, WholeKinds, body')
<1> DEFINE s == call[c]
<1>1. Formed(s) /\ Promised(s, WholeKinds, body)
    BY DEF PromiseInv, AllFormed
<1>2. CASE SaveGrant(c)
    <2>1. s.pc = "save grant" /\ Become(c, Goto(s, "cite")) /\ body' = body \union {Head(s.kinds)}
        BY <1>2 DEF SaveGrant, At, Kind
    <2>2. s.then = "again"
        BY <1>1, <2>1 DEF Promised, Ingesting
    <2>3. Head(s.kinds) \in body'
        BY <2>1
    <2>4. Promised(Goto(s, "cite"), WholeKinds, body')
        BY <1>1, <2>1, <2>2, <2>3, PromiseGoes DEF Reading, Ingesting
    <2> QED BY <2>1, <2>4
<1>3. CASE SaveCitations(c)
    <2>1. s.pc = "cite" /\ Become(c, Goto(s, "compare")) /\ body' = body
        BY <1>3 DEF SaveCitations, At
    <2>2. s.then = "again"
        BY <1>1, <2>1 DEF Promised, Ingesting
    <2>3. Present(s, WholeKinds, body) => Head(s.kinds) \in body
        BY <2>1 DEF Present
    <2>4. Promised(Goto(s, "compare"), WholeKinds, body)
        BY <1>1, <2>1, <2>2, <2>3, PromiseGoes DEF Reading, Ingesting
    <2> QED BY <2>1, <2>4
<1>4. CASE ReadFields(c) \/ FillFields(c)
    <2> DEFINE x == [s EXCEPT !.pc = "fill", !.copy = record]
    <2>1. /\ s.pc \in {"compare", "fill"} /\ body' = body
          /\ Become(c, IngestEnds(s, TRUE)) \/ (Become(c, x) /\ s.pc = "compare")
        BY <1>4, Zenon DEF ReadFields, FillFields, At, texts
    <2>2. /\ s.then = "again" /\ s.kinds \in KindLists
          /\ Present(s, WholeKinds, body) \/ Ahead(s, WholeKinds)
        BY <1>1, <2>1 DEF Promised, Reading, Ingesting
    <2>3. IngestEnds(s, TRUE) = Goto(s, "again")
        BY <1>1, <2>2, IngestEndsForms
    <2>4. Present(s, WholeKinds, body) => Head(s.kinds) \in body
        BY <2>1 DEF Present
    <2>5. Promised(Goto(s, "again"), WholeKinds, body)
        BY <1>1, <2>1, <2>4, PromiseGoes DEF Reading, Ingesting
    <2>6. x.pc = "fill" /\ x.kinds = s.kinds /\ x.then = s.then
        BY <1>1 DEF Formed, StateFields
    <2> HIDE DEF x
    <2>7. Present(s, WholeKinds, body) => Present(x, WholeKinds, body)
        BY <2>4, <2>6 DEF Present
    <2>8. Ahead(s, WholeKinds) => Ahead(x, WholeKinds)
        BY <2>6 DEF Ahead
    <2>9. Promised(x, WholeKinds, body)
        BY <2>2, <2>6, <2>7, <2>8 DEF Promised, Reading, Ingesting
    <2> QED BY <2>1, <2>3, <2>5, <2>9
<1> QED BY <1>2, <1>3, <1>4

LEMMA PromiseKeeps ==
    ASSUME PromiseInv, NEW c \in Calls, CallStep(c), NEW d \in Calls, Trusting(call'[d])
    PROVE  Promised(call'[d], WholeKinds', body')
<1>0. AllFormed /\ HeldFirst
    BY DEF PromiseInv
<1>1. CASE Download(c) \/ ClearBodies(c)
    BY <1>0, <1>1, DropTouches DEF Trusting
<1>2. CASE ~Download(c) /\ ~ClearBodies(c)
    <2>1. WholeKinds \subseteq WholeKinds' /\ body \subseteq body'
        BY <1>0, <1>2, FilesGrow
    <2>2. call'[d].op = call[d].op
        BY <1>0, OperationsStay
    <2>3. CASE d # c
        <3>1. call'[d] \in {call[d], [call[d] EXCEPT !.sure = FALSE]}
            BY <1>0, <2>3, StepTouches DEF Touched
        <3>2. Formed(call[d])
            BY <1>0 DEF AllFormed
        <3>3. ~[call[d] EXCEPT !.sure = FALSE].sure
            BY <3>2 DEF Formed, StateFields
        <3>4. call'[d] = call[d]
            BY <3>1, <3>3 DEF Trusting
        <3>5. Promised(call[d], WholeKinds, body)
            BY <3>4 DEF PromiseInv
        <3> QED BY <2>1, <3>4, <3>5, PromisedGrows
    <2>4. CASE d = c
        <3>1. call[c].op.op = "read" /\ call'[c].sure
            BY <2>2, <2>4 DEF Trusting
        <3>2. ~Fails(c)
            BY <1>0, <3>1, FailsMoves, BecomeTouches
        <3>3. CASE Begin(c)
            <4>1. PICK x : Become(c, x) /\ (x.sure => Promised(x, WholeKinds, body))
                BY <3>1, <3>3, PromiseBegins
            <4>2. call'[c] = x
                BY <1>0, <4>1, BecomeTouches
            <4> QED BY <2>1, <2>4, <3>1, <4>1, <4>2, PromisedGrows
        <3>4. CASE ~Begin(c)
            <4>1. call[c].pc # "start"
                BY <3>4, StagesStep
            <4>2. Trusting(call[c])
                BY <1>0, <3>1, <4>1, StepTouches DEF Touched, Moves, Trusting
            <4>3. Promised(call[c], WholeKinds, body)
                BY <4>2 DEF PromiseInv
            <4>4. call[c].pc \in Reading \union {"view", "done"}
                BY <4>3 DEF Promised
            <4>5. \/ ViewBody(c) \/ FindBody(c) \/ ReadPrior(c) \/ Stat(c) \/ ParsePiece(c)
                  \/ SaveGrant(c) \/ SaveCitations(c) \/ ReadFields(c) \/ FillFields(c)
                BY <3>2, <4>4, StagesStep DEF Reading
            <4>6. CASE SaveGrant(c) \/ SaveCitations(c) \/ ReadFields(c) \/ FillFields(c)
                <5>1. PICK x : Become(c, x) /\ Promised(x, WholeKinds, body')
                    BY <4>2, <4>6, PromiseIngests
                <5>2. call'[c] = x
                    BY <1>0, <5>1, BecomeTouches
                <5> QED BY <2>1, <2>4, <5>1, <5>2, PromisedGrows
            <4>7. CASE ViewBody(c) \/ FindBody(c) \/ ReadPrior(c) \/ Stat(c) \/ ParsePiece(c)
                <5>1. PICK x : Become(c, x) /\ Promised(x, WholeKinds, body)
                    BY <4>2, <4>7, PromiseViews, PromiseLooks, PromiseReads, PromiseStats, PromiseParses
                <5>2. call'[c] = x
                    BY <1>0, <5>1, BecomeTouches
                <5> QED BY <2>1, <2>4, <5>1, <5>2, PromisedGrows
            <4> QED BY <4>5, <4>6, <4>7
        <3> QED BY <3>3, <3>4
    <2> QED BY <2>3, <2>4
<1> QED BY <1>1, <1>2

\* A reader is not told that there is no text while a whole file it asks for is there, dropped
\* from the tables or not: each kind is tried in turn, and the file of one parsed anew.
THEOREM TheTextIsFoundAgain == Spec => []BodyIsFoundAgain
<1>1. Init => PromiseInv
    <2> SUFFICES ASSUME Init
                 PROVE  PromiseInv
        OBVIOUS
    <2>1. \A c \in Calls : call[c] = Start(given.calls[c]) /\ given.calls[c] \in Operations
        BY OfficeAssumption DEF Init
    <2>2. \A c \in Calls : call[c].pc = "start" /\ ~call[c].sure
        BY <2>1, StartForms
    <2>3. HeldFirst
        BY <2>2 DEF Init, HeldFirst, Holding
    <2> QED BY <2>2, <2>3, FormedStarts DEF PromiseInv, Trusting
<1>2. PromiseInv /\ [Next]_vars => PromiseInv'
    <2> SUFFICES ASSUME PromiseInv, [Next]_vars
                 PROVE  PromiseInv'
        OBVIOUS
    <2>1. AllFormed'
        BY FormedKeeps DEF PromiseInv
    <2>2. CASE \E c \in Calls : CallStep(c)
        <3>1. PICK c \in Calls : CallStep(c)
            BY <2>2
        <3>2. HeldFirst'
            BY <3>1, HeldFirstKeeps DEF PromiseInv
        <3>3. \A d \in Calls : Trusting(call'[d]) => Promised(call'[d], WholeKinds', body')
            BY <3>1, PromiseKeeps
        <3> QED BY <2>1, <3>2, <3>3 DEF PromiseInv, Trusting
    <2>3. CASE UNCHANGED <<app, files, body, call>>
        <3>1. WholeKinds' = WholeKinds
            BY <2>3 DEF WholeKinds, Whole, files
        <3>2. HeldFirst'
            BY <2>3 DEF HeldFirst, PromiseInv, files
        <3> QED BY <2>1, <2>3, <3>1, <3>2 DEF PromiseInv
    <2>4. (\E c \in Calls : CallStep(c)) \/ UNCHANGED <<app, files, body, call>>
        BY DEF Next, SetSourceMode, vars, patent, texts
    <2> QED BY <2>2, <2>3, <2>4
<1>3. PromiseInv => BodyIsFoundAgain
    <2> SUFFICES ASSUME PromiseInv, NEW c \in Calls, At(c, "done"), Trusting(call[c])
                 PROVE  call[c].ok
        BY DEF BodyIsFoundAgain, Trusting
    <2>1. Promised(call[c], WholeKinds, body)
        BY DEF PromiseInv
    <2> QED BY <2>1 DEF Promised, At
<1> QED BY <1>1, <1>2, <1>3, PTL DEF Spec

=============================================================================
