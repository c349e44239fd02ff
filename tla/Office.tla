-------------------------------- MODULE Office --------------------------------
(***************************************************************************)
(* What the daemon keeps of one patent from the patent office, and the     *)
(* calls that fetch, rebuild and drop it (engine_uspto.go): the row of its *)
(* application, the grant and publication XML on disk, the text parsed     *)
(* from them, the recorded assignments and the ownership timeline made of  *)
(* them; and the source registry behind a crawl of the patent, which       *)
(* decides by its mode whom to ask (crawl/source.go), with the differences *)
(* between sources that people settle (engine.ResolveSourceDiffs).         *)
(*                                                                         *)
(* Of the patent itself one field is kept, the assignee: sources disagree  *)
(* on it, people settle it, the timeline starts from it.  Every read of a  *)
(* table, every transaction, every question to a provider and every piece  *)
(* of a file is a step, so calls meet at any point.                        *)
(***************************************************************************)
EXTENDS Integers, Sequences, FiniteSets

CONSTANTS Calls,      \* calls and jobs under way
          Scenarios,  \* what they may be, in which mode, and what the providers have
          Granted,    \* the assignee the XML names
          Chains,     \* what the office may answer when asked for assignments
          Pieces,     \* pieces in which a file is written and read
          MaxSwitches \* bound on changes of the mode

Providers == {"file", "uspto", "google"}
Place     == [file |-> 1, uspto |-> 2, google |-> 3]   \* in the order they are asked
Modes     == {"compare", "uspto_first", "uspto_only", "google_only"}
XMLKinds  == {"grant", "pgpub"}
NoName    == "no name"

\* What a call may be asked to do.
Operations ==
    [op : {"crawl"}, source : Providers \union {"any"}, force : BOOLEAN]
    \union [op : {"xml", "read"}, kind : XMLKinds \union {"auto"}]
    \union [op : {"assign", "clear"}] \union [op : {"resolve"}, choice : {"uspto", "google"}]

(***************************************************************************)
(* A chain is a set of recorded transfers [ord, date, names].              *)
(***************************************************************************)
ASSUME OfficeAssumption ==
    /\ \A s \in Scenarios : /\ s.calls \in [Calls -> Operations]
                            /\ s.modes \subseteq Modes /\ s.links \subseteq SUBSET XMLKinds
    /\ \A s \in Scenarios : DOMAIN s.says = Providers
    /\ \A chain \in Chains : /\ \A a \in chain : a.ord \in Nat /\ a.date \in Nat
                             /\ \A a, b \in chain : a.ord = b.ord => a = b
    /\ Pieces \in Nat \ {0} /\ MaxSwitches \in Nat

VARIABLES given,            \* one of the scenarios, never changed
          mode, switches,   \* the mode of the registry, and how often it changed
          record,           \* [state, assignee] of the patent
          app,              \* the application row: held or not, XML it has links to
          owners, timeline, \* uspto_assignment, assignee_history
          diffs,            \* source_diff of the assignee, the newest first
          disk,             \* pieces of each XML file that are there
          down,             \* uspto_xml_download of each kind
          body, cites,      \* kinds parsed, kinds whose citations are in the graph
          call,             \* the state of each call
          register          \* history: the chain saved last, and whether it was lost on the way

sources == <<given, mode, switches>>
patent  == <<record, app, diffs>>
owned   == <<owners, timeline, register>>
files   == <<disk, down>>
texts   == <<body, cites>>
vars    == <<sources, patent, owned, files, texts, call>>

NoResult == [assignee |-> NoName, office |-> FALSE, links |-> {}, diffs |-> <<>>, state |-> "cached"]

Start(op) ==
    [op |-> op, pc |-> "start", then |-> "done", ok |-> TRUE,
     ask |-> {}, mode |-> "compare", res |-> NoResult, asked |-> {}, answered |-> {},
     links |-> {}, kinds |-> <<>>, prior |-> [held |-> FALSE, count |-> 0], piece |-> 1,
     copy |-> [state |-> "stub", assignee |-> NoName], chain |-> {}, picked |-> <<>>, sure |-> FALSE]

Init ==
    /\ given \in Scenarios
    /\ mode \in given.modes /\ switches = 0
    /\ record = [state |-> "stub", assignee |-> NoName]
    /\ app = [held |-> FALSE, links |-> {}] /\ diffs = <<>>
    /\ owners = {} /\ timeline = {}
    /\ register = [chain |-> {}, fetched |-> FALSE, lost |-> FALSE]
    /\ disk = [k \in XMLKinds |-> {}]
    /\ down = [k \in XMLKinds |-> [held |-> FALSE, count |-> 0]]
    /\ body = {} /\ cites = {}
    /\ call = [c \in Calls |-> Start(given.calls[c])]

Become(c, s)  == call' = [call EXCEPT ![c] = s]
Goto(s, pc)   == [s EXCEPT !.pc = pc]
\* What an ended call is remembered by.
Ended(s, ok)  == [Start(s.op) EXCEPT !.pc = "done", !.ok = ok, !.mode = s.mode, !.asked = s.asked,
                                     !.answered = s.answered, !.kinds = s.kinds, !.sure = s.sure]
At(c, pc)     == call[c].pc = pc
Kind(c)       == Head(call[c].kinds)

Wanted(kind)  == IF kind = "auto" THEN XMLKinds ELSE {kind}
\* All of a file is on disk and on record.
Whole(k)      == down[k].held /\ disk[k] = 1..Pieces

\* What the calls of each operation start with.
Begin(c) ==
    LET s == call[c]
    IN  /\ At(c, "start")
        /\ Become(c, CASE s.op.op = "crawl"   -> Goto(s, "crawl")
                       [] s.op.op = "xml"     -> [s EXCEPT !.pc = "ensure", !.then = "pick"]
                       [] s.op.op = "assign"  -> [s EXCEPT !.pc = "ensure", !.then = "request"]
                       [] s.op.op = "read"    -> [s EXCEPT !.pc = "view", !.sure =
                              \E k \in Wanted(s.op.kind) : Whole(k)]
                       [] s.op.op = "clear"   -> Goto(s, "clear")
                       [] s.op.op = "resolve" -> Goto(s, "choose"))
        /\ UNCHANGED <<sources, patent, owned, files, texts>>

(***************************************************************************)
(* The registry.  A crawl of this patent alone: FamilyCrawl has the rest.  *)
(***************************************************************************)
SetSourceMode(m) ==
    /\ switches < MaxSwitches /\ m \in given.modes \ {mode}
    /\ mode' = m /\ switches' = switches + 1
    /\ UNCHANGED <<given, patent, owned, files, texts, call>>

Permitted(m) ==
    Providers \ (CASE m = "uspto_only"  -> {"google"}
                   [] m = "google_only" -> {"uspto"}
                   [] OTHER             -> {})

Foremost(ask) == CHOOSE p \in ask : \A q \in ask : Place[p] <= Place[q]

Source(s) == IF s.op.op = "crawl" THEN s.op.source ELSE "uspto"
Forced(s) == Source(s) # "any" \/ (s.op.op = "crawl" /\ s.op.force)

\* A stored text answers an unforced crawl; one source, if named, is asked whatever the
\* mode; a forced crawl passes over the file.  The mode is read here and not again.
StartCrawl(c) ==
    LET s    == call[c]
        left == Permitted(mode) \ (IF Forced(s) THEN {"file"} ELSE {})
    IN  /\ At(c, "crawl")
        /\ Become(c,
               IF ~Forced(s) /\ record.state = "cached"
               THEN [s EXCEPT !.pc = "node", !.res = [NoResult EXCEPT !.assignee = record.assignee]]
               ELSE IF Source(s) # "any" THEN [s EXCEPT !.pc = "fetch", !.ask = {Source(s)}]
               ELSE [s EXCEPT !.pc = "fetch", !.mode = mode, !.ask = left])
        /\ UNCHANGED <<sources, patent, owned, files, texts>>

\* What a provider's answer adds to the result: only the office knows the application.
Office(res, p, links) == IF p = "uspto" THEN [res EXCEPT !.office = TRUE, !.links = links] ELSE res

\* A slip: the mode is read again once an answer is there.
ComparesByTheModeNow(s) == Source(s) = "any" /\ mode = "compare"

Compares(s) == Source(s) = "any" /\ s.mode = "compare"

Fetch(c) ==
    LET s == call[c]
        p == Foremost(s.ask)
        a == [s EXCEPT !.asked = @ \union {p}, !.answered = @ \union {p}]
    IN  /\ At(c, "fetch") /\ s.ask # {}
        /\ \E links \in IF p = "uspto" THEN given.links ELSE {{}} :
               Become(c, [a EXCEPT !.res = Office([@ EXCEPT !.assignee = given.says[p]], p, links),
                                   !.pc = IF Compares(s) THEN "second" ELSE "node",
                                   !.ask = {p}])
        /\ UNCHANGED <<sources, patent, owned, files, texts>>

\* Not available, or a hard error: the next one is asked.
FetchFails(c) ==
    LET s == call[c]
        p == Foremost(s.ask)
    IN  /\ At(c, "fetch") /\ s.ask # {}
        /\ Become(c, [s EXCEPT !.asked = @ \union {p}, !.ask = @ \ {p}])
        /\ UNCHANGED <<sources, patent, owned, files, texts>>

\* A crawl without an answer fails; a call that wanted the office goes on to see.
CrawlEnds(s, ok) ==
    IF s.op.op = "crawl" THEN Ended(s, ok) ELSE [Start(s.op) EXCEPT !.pc = "reload", !.then = s.then]

AllFailed(c) ==
    LET s == call[c]
    IN  /\ At(c, "fetch") /\ s.ask = {}
        /\ Become(c, CrawlEnds(s, FALSE))
        /\ UNCHANGED <<sources, patent, owned, files, texts>>

\* comparePatentFields: one row if they differ, the left one chosen.
Differences(left, right) ==
    IF left = right THEN <<>>
    ELSE <<[uspto |-> left, google |-> right, chosen |-> left, settled |-> FALSE]>>

\* compareWithGoogle and enrichWithUSPTO: in either case the first answer is the left one.
Second(p) == IF p = "uspto" THEN "google" ELSE "uspto"

Compare(c) ==
    LET s == call[c]
        p == Foremost(s.ask)
        q == Second(p)
        a == [s EXCEPT !.pc = "node", !.asked = @ \union {q}]
    IN  /\ At(c, "second")
        /\ \/ Become(c, a)
           \/ \E links \in IF q = "uspto" THEN given.links ELSE {{}} :
                  Become(c, [a EXCEPT !.answered = @ \union {q},
                                      !.res = Office([@ EXCEPT !.diffs = Differences(given.says[p], given.says[q])],
                                                     q, links)])
        /\ UNCHANGED <<sources, patent, owned, files, texts>>

\* Rows go by the two values; one that is found again moves to the front, unsettled.
SameRow(d, e) == d.uspto = e.uspto /\ d.google = e.google
Upserted(rows, new) == new \o SelectSeq(rows, LAMBDA d : \A i \in DOMAIN new : ~SameRow(d, new[i]))

Between(s) == s.pc = "rebuild"

\* SaveNode with what the sources said: the application's assignments go with it.
SaveNode(c) ==
    LET s == call[c]
    IN  /\ At(c, "node")
        /\ record' = [state |-> "cached", assignee |-> s.res.assignee]
        /\ diffs' = Upserted(diffs, s.res.diffs)
        /\ IF s.res.office
           THEN /\ app' = [held |-> TRUE, links |-> s.res.links]
                /\ owners' = {}
                /\ register' = [register EXCEPT !.lost = @ \/ \E d \in Calls : Between(call[d])]
           ELSE UNCHANGED <<app, owners, register>>
        /\ Become(c, CrawlEnds(s, TRUE))
        /\ UNCHANGED <<sources, timeline, files, texts>>

(***************************************************************************)
(* ResolveSourceDiffs: the choices of the person, as listed.               *)
(***************************************************************************)
ListDiffs(c) ==
    LET s == call[c]
        pick(d) == [d EXCEPT !.chosen = IF s.op.choice = "uspto" THEN d.uspto ELSE d.google]
    IN  /\ At(c, "choose")
        /\ Become(c, IF diffs = <<>> THEN Ended(s, TRUE)
                     ELSE [s EXCEPT !.pc = "load", !.picked = [i \in DOMAIN diffs |-> pick(diffs[i])]])
        /\ UNCHANGED <<sources, patent, owned, files, texts>>

LoadPatent(c) ==
    /\ At(c, "load")
    /\ Become(c, [call[c] EXCEPT !.pc = "apply", !.copy = record])
    /\ UNCHANGED <<sources, patent, owned, files, texts>>

\* Row after row over the same field: the one listed last, the oldest, stays.
ApplyChoices(c) ==
    LET s == call[c]
        named == SelectSeq(s.picked, LAMBDA d : d.chosen # NoName)
    IN  /\ At(c, "apply")
        /\ record' = IF named = <<>> THEN s.copy ELSE [s.copy EXCEPT !.assignee = named[Len(named)].chosen]
        /\ Become(c, Goto(s, "settle"))
        /\ UNCHANGED <<sources, app, diffs, owned, files, texts>>

\* The rows are written back as listed, dates included: behind any that is new since.
SettleDiffs(c) ==
    LET s == call[c]
        new == SelectSeq(diffs, LAMBDA d : \A i \in DOMAIN s.picked : ~SameRow(d, s.picked[i]))
    IN  /\ At(c, "settle")
        /\ diffs' = new \o [i \in DOMAIN s.picked |-> [s.picked[i] EXCEPT !.settled = TRUE]]
        /\ Become(c, Ended(s, TRUE))
        /\ UNCHANGED <<sources, record, app, owned, files, texts>>

(***************************************************************************)
(* ensureUSPTOApplication, at the head of both fetches: look, and if there *)
(* is no row crawl the patent from the office, within the call, and look   *)
(* again.                                                                  *)
(***************************************************************************)
EnsureApplication(c) ==
    LET s == call[c]
    IN  /\ s.pc \in {"ensure", "reload"}
        /\ Become(c, IF app.held THEN [s EXCEPT !.pc = s.then, !.links = app.links]
                     ELSE IF s.pc = "ensure" THEN Goto(s, "crawl")
                     ELSE Ended(s, FALSE))
        /\ UNCHANGED <<sources, patent, owned, files, texts>>

(***************************************************************************)
(* FetchUSPTOXML, and the part of USPTOGrantBody it shares.                *)
(***************************************************************************)
PickKind(c) ==
    LET s == call[c]
        want == IF s.op.kind = "auto" THEN <<"grant", "pgpub">> ELSE <<s.op.kind>>
        have == SelectSeq(want, LAMBDA k : k \in s.links)
    IN  /\ At(c, "pick")
        /\ Become(c, IF have = <<>> THEN Ended(s, FALSE)
                     ELSE [s EXCEPT !.pc = "prior", !.kinds = <<Head(have)>>])
        /\ UNCHANGED <<sources, patent, owned, files, texts>>

ReadPrior(c) ==
    /\ At(c, "prior")
    /\ Become(c, [call[c] EXCEPT !.pc = "stat", !.prior = down[Kind(c)]])
    /\ UNCHANGED <<sources, patent, owned, files, texts>>

NextKind(s) == IF Len(s.kinds) = 1 THEN Ended(s, FALSE) ELSE [s EXCEPT !.pc = "body", !.kinds = Tail(@)]
Ingest(s, then) == [s EXCEPT !.pc = "parse", !.piece = 1, !.then = then]

\* Whatever is on disk and not empty counts as the file.
Stat(c) ==
    LET s  == call[c]
        is == s.prior.held /\ disk[Kind(c)] # {}
    IN  /\ At(c, "stat")
        /\ Become(c, IF s.op.op = "read" THEN IF is THEN Ingest(s, "again") ELSE NextKind(s)
                     ELSE Goto(s, IF is THEN "cached" ELSE "download"))
        /\ UNCHANGED <<sources, patent, owned, files, texts>>

ServeCached(c) ==
    /\ At(c, "cached")
    /\ Become(c, IF Kind(c) \in body THEN Goto(call[c], "access") ELSE Ingest(call[c], "access"))
    /\ UNCHANGED <<sources, patent, owned, files, texts>>

Counted(c) == [held |-> TRUE, count |-> call[c].prior.count + 1]

\* The row read at the start is written back, counted once more; a failure is logged.
RecordAccess(c) ==
    /\ At(c, "access")
    /\ down' \in {down, [down EXCEPT ![Kind(c)] = Counted(c)]}
    /\ Become(c, Ended(call[c], TRUE))
    /\ UNCHANGED <<sources, patent, owned, disk, texts>>

\* A reader can no longer be promised the text.
Unsure == [d \in Calls |-> [call[d] EXCEPT !.sure = FALSE]]

\* The answer is streamed into the file it will be, emptied first.
Download(c) ==
    /\ At(c, "download")
    /\ disk' = [disk EXCEPT ![Kind(c)] = {}]
    /\ call' = [Unsure EXCEPT ![c].pc = "write", ![c].piece = 1]
    /\ UNCHANGED <<sources, patent, owned, down, texts>>

WritePiece(c) ==
    LET s == call[c]
    IN  /\ At(c, "write")
        /\ disk' = [disk EXCEPT ![Kind(c)] = @ \union {s.piece}]
        /\ Become(c, IF s.piece < Pieces THEN [s EXCEPT !.piece = @ + 1] ELSE Goto(s, "log"))
        /\ UNCHANGED <<sources, patent, owned, down, texts>>

RecordDownload(c) ==
    /\ At(c, "log")
    /\ down' \in {down, [down EXCEPT ![Kind(c)] = Counted(c)]}
    /\ Become(c, Ingest(call[c], "done"))
    /\ UNCHANGED <<sources, patent, owned, disk, texts>>

(***************************************************************************)
(* ingestUSPTOXML.  Of its failures a fetch takes no notice; a reader goes *)
(* on to the next kind.                                                    *)
(***************************************************************************)
IngestEnds(s, ok) ==
    IF s.then = "done" THEN Ended(s, TRUE)
    ELSE IF s.then = "again" /\ ~ok THEN NextKind(s)
    ELSE Goto(s, s.then)

\* A file that lacks a piece does not parse.
ParsePiece(c) ==
    LET s == call[c]
    IN  /\ At(c, "parse")
        /\ Become(c, IF s.piece \notin disk[Kind(c)] THEN IngestEnds(s, FALSE)
                     ELSE IF s.piece < Pieces THEN [s EXCEPT !.piece = @ + 1]
                     ELSE Goto(s, "save grant"))
        /\ UNCHANGED <<sources, patent, owned, files, texts>>

SaveGrant(c) ==
    /\ At(c, "save grant")
    /\ body' = body \union {Kind(c)}
    /\ Become(c, Goto(call[c], "cite"))
    /\ UNCHANGED <<sources, patent, owned, files, cites>>

SaveCitations(c) ==
    /\ At(c, "cite")
    /\ cites' = cites \union {Kind(c)}
    /\ Become(c, Goto(call[c], "compare"))
    /\ UNCHANGED <<sources, patent, owned, files, body>>

\* A patent without an assignee gets the one of the XML: read here, written next.
ReadFields(c) ==
    LET s == call[c]
    IN  /\ At(c, "compare")
        /\ Become(c, IF record.assignee = NoName THEN [s EXCEPT !.pc = "fill", !.copy = record]
                     ELSE IngestEnds(s, TRUE))
        /\ UNCHANGED <<sources, patent, owned, files, texts>>

FillFields(c) ==
    LET s == call[c]
    IN  /\ At(c, "fill")
        /\ record' = [s.copy EXCEPT !.assignee = Granted]
        /\ Become(c, IngestEnds(s, TRUE))
        /\ UNCHANGED <<sources, app, diffs, owned, files, texts>>

(***************************************************************************)
(* USPTOGrantBody: the text, made from the file if it has been dropped.    *)
(***************************************************************************)
ViewBody(c) ==
    LET s == call[c]
    IN  /\ At(c, "view")
        /\ Become(c, IF ~app.held THEN Ended(s, FALSE)
                     ELSE [s EXCEPT !.pc = "body", !.kinds = IF s.op.kind = "auto"
                               THEN <<"grant", "pgpub">> ELSE <<s.op.kind>>])
        /\ UNCHANGED <<sources, patent, owned, files, texts>>

\* A slip: a text that is not there is looked for under the next kind only.
FindBodyInTables(c) ==
    LET s == call[c]
    IN  /\ s.pc \in {"body", "again"}
        /\ Become(c, IF Kind(c) \in body THEN Ended(s, TRUE) ELSE NextKind(s))
        /\ UNCHANGED <<sources, patent, owned, files, texts>>

FindBody(c) ==
    LET s == call[c]
    IN  /\ s.pc \in {"body", "again"}
        /\ Become(c, IF Kind(c) \in body THEN Ended(s, TRUE)
                     ELSE IF s.pc = "body" THEN Goto(s, "prior") ELSE NextKind(s))
        /\ UNCHANGED <<sources, patent, owned, files, texts>>

\* ClearPatentCache: both kinds at once; files and records of them stay.
FindCleared(c) ==
    /\ At(c, "clear")
    /\ Become(c, IF app.held THEN Goto(call[c], "drop") ELSE Ended(call[c], TRUE))
    /\ UNCHANGED <<sources, patent, owned, files, texts>>

ClearBodies(c) ==
    /\ At(c, "drop")
    /\ body' = {}
    /\ call' = [Unsure EXCEPT ![c].pc = "done"]
    /\ UNCHANGED <<sources, patent, owned, files, cites>>

(***************************************************************************)
(* FetchUSPTOAssignments: replace the assignments, then rebuild the time-  *)
(* line from what the tables hold by then.                                 *)
(***************************************************************************)
Request(c) ==
    /\ At(c, "request")
    /\ \E chain \in Chains : Become(c, [call[c] EXCEPT !.pc = "save", !.chain = chain])
    /\ UNCHANGED <<sources, patent, owned, files, texts>>

SaveAssignments(c) ==
    LET s == call[c]
    IN  /\ At(c, "save")
        /\ owners' = s.chain
        /\ register' = [chain |-> s.chain, fetched |-> TRUE, lost |-> FALSE]
        /\ Become(c, Goto(s, "rebuild"))
        /\ UNCHANGED <<sources, patent, timeline, files, texts>>

\* Transfers that name somebody; the latest has the greatest date, then the greatest ordinal.
Named(chain) == {a \in chain : a.names # {}}
Later(a, b)  == a.date > b.date \/ (a.date = b.date /\ a.ord > b.ord)

Derived(chain, assignee) ==
    {[type |-> "at_grant", ord |-> -1, name |-> n, latest |-> Named(chain) = {}] :
         n \in {assignee} \ {NoName}}
    \union UNION {{[type |-> "assignment", ord |-> a.ord, name |-> n,
                    latest |-> \A b \in Named(chain) : ~Later(b, a)] : n \in a.names} : a \in chain}

\* A slip: the timeline is made of what this call was answered.
RebuildFromAnswer(c) ==
    /\ At(c, "rebuild")
    /\ timeline' = Derived(call[c].chain, record.assignee)
    /\ Become(c, Ended(call[c], TRUE))
    /\ UNCHANGED <<sources, patent, owners, register, files, texts>>

RebuildHistory(c) ==
    /\ At(c, "rebuild")
    /\ timeline' = Derived(owners, record.assignee)
    /\ Become(c, Ended(call[c], TRUE))
    /\ UNCHANGED <<sources, patent, owners, register, files, texts>>

(***************************************************************************)
(* A call whose next step fails or is cancelled, before it does anything.  *)
(***************************************************************************)
Failing(s) ==
    CASE s.pc \in {"parse", "save grant", "cite"} -> IngestEnds(s, FALSE)
      [] s.pc \in {"compare", "fill"}             -> IngestEnds(s, TRUE)
      [] s.pc = "cached"                          -> Goto(s, "access")
      [] s.pc = "again"                           -> NextKind(s)
      [] s.pc = "prior" /\ s.op.op = "read"       -> NextKind(s)
      [] s.pc \in {"fetch", "second", "node"}     -> CrawlEnds(s, FALSE)
      [] OTHER                                    -> Ended(s, FALSE)

Fails(c) ==
    /\ call[c].pc \notin {"start", "done", "pick", "access", "log", "stat"}
    /\ Become(c, [Failing(call[c]) EXCEPT !.sure = FALSE])
    /\ register' = [register EXCEPT !.lost = @ \/ Between(call[c])]
    /\ UNCHANGED <<sources, patent, owners, timeline, files, texts>>

CallStep(c) ==
    \/ Begin(c) \/ StartCrawl(c) \/ Fetch(c) \/ FetchFails(c) \/ AllFailed(c) \/ Compare(c)
    \/ SaveNode(c) \/ ListDiffs(c) \/ LoadPatent(c) \/ ApplyChoices(c) \/ SettleDiffs(c)
    \/ EnsureApplication(c) \/ PickKind(c) \/ ReadPrior(c) \/ Stat(c) \/ ServeCached(c)
    \/ RecordAccess(c) \/ Download(c) \/ WritePiece(c) \/ RecordDownload(c) \/ ParsePiece(c)
    \/ SaveGrant(c) \/ SaveCitations(c) \/ ReadFields(c) \/ FillFields(c) \/ ViewBody(c)
    \/ FindBody(c) \/ FindCleared(c) \/ ClearBodies(c) \/ Request(c) \/ SaveAssignments(c)
    \/ RebuildHistory(c) \/ Fails(c)

Next == (\E c \in Calls : CallStep(c)) \/ (\E m \in Modes : SetSourceMode(m))

Spec == Init /\ [][Next]_vars

(***************************************************************************)
(* Properties.                                                             *)
(***************************************************************************)
\* Whenever no fetch of assignments is between its two transactions, the timeline shows
\* the chain that was saved last, whoever saved it and whoever rebuilt, and the title
\* with the parties of its last transfer alone, or without one with the assignee at grant
\* - later crawls that empty the table notwithstanding.  Left out: a fetch that failed in
\* between, and a crawl that emptied the table in between.
OwnershipReflectsTheFetch ==
    register.fetched /\ ~register.lost /\ (\A c \in Calls : ~Between(call[c])) =>
        LET rows == {r \in timeline : r.type = "assignment"}
            last == {a \in register.chain : \A b \in register.chain :
                        b.names = {} \/ b.date < a.date \/ (b.date = a.date /\ b.ord <= a.ord)}
        IN  /\ {<<r.ord, r.name>> : r \in rows} =
                    UNION {{<<a.ord, n>> : n \in a.names} : a \in register.chain}
            /\ {<<r.ord, r.name>> : r \in {t \in rows : t.latest}} =
                    UNION {{<<a.ord, n>> : n \in a.names} : a \in last}
            /\ \A r \in timeline \ rows : r.latest <=> \A a \in register.chain : a.names = {}

\* A reader is not told that there is no text while a whole file it asks for is on disk and
\* on record, dropped from the tables or not - unless during the call the file was being
\* fetched anew, the texts were dropped, or a read or a write failed.
BodyIsFoundAgain ==
    \A c \in Calls : At(c, "done") /\ call[c].op.op = "read" /\ call[c].sure => call[c].ok

\* A fetch keeps to the mode it started under, however often that changes meanwhile: it
\* asks nobody the mode forbids, compares in no mode but compare, leaves the office out in
\* that mode only if nothing was saved, and what the office answered is on file.
OneModePerFetch ==
    \A c \in Calls : LET s == call[c] IN
        s.op.op = "crawl" /\ s.op.source = "any" =>
            /\ s.asked \subseteq Permitted(s.mode)
            /\ s.mode # "compare" => Cardinality(s.answered) <= 1
            /\ At(c, "done") /\ s.ok /\ s.mode = "compare" /\ s.asked # {} => "uspto" \in s.asked
            /\ At(c, "done") /\ s.ok /\ "uspto" \in s.answered => app.held

\* Of a difference the column of the office shows what the office said, and what is
\* chosen by default is that.
\* (crawl/source.go:446-447: "Default choice = USPTO per user preference".)
ColumnsAreTrue ==
    \A i \in DOMAIN diffs : diffs[i].uspto = given.says["uspto"]
=============================================================================
