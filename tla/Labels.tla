------------------------------- MODULE Labels -------------------------------
(***************************************************************************)
(* Tags and classes of patents: what the daemon does with them             *)
(* (engine_tag.go, engine_classification.go, store/sqlite/tag.go and       *)
(* classification.go) and the four overlays that show and change them: the *)
(* tags of a project ("taxonomy"), the tags ticked for some patents        *)
(* ("ticks"), the classes the daemon knows ("registry"), and the classes   *)
(* of a patent ("classes").                                                *)
(*                                                                         *)
(* Every call runs in a goroutine of its own with a deadline of its own,   *)
(* and no answer says which request it answers: requests are kept in the   *)
(* order they were made in, and any of them may be served or answered next.*)
(* A call of the engine is one step: what others do between its reads and  *)
(* its write is as if done before or after it.                             *)
(*                                                                         *)
(* Tags and codes are numbers, in the order of their names.  The messages  *)
(* above a list and the cursor in an input are left out.                   *)
(***************************************************************************)
EXTENDS Integers, SequencesExt, FiniteSets

CONSTANTS
  Kinds,        \* the overlays opened
  Tags,         \* names a tag may have
  Patents,      \* the patents whose tags are ticked, a sequence
  Codes,        \* classes
  Unsupported,  \* of them, those of no system that can be looked up
  Titles,       \* what a class is described by, in the order of descriptions
  Classed,      \* the classes of the patent, a sequence
  Steps,        \* a bound: keys and changes by others
  Outstanding,  \* a bound: calls under way when a key is pressed
  Faults        \* a bound: calls that fail or outlast their deadline

LabelsAssumption ==
  /\ Kinds \subseteq {"taxonomy", "ticks", "registry", "classes"}
  /\ Tags \subseteq Nat \ {0} /\ Codes \subseteq Nat \ {0} /\ Unsupported \subseteq Codes
  /\ IsFiniteSet(Tags) /\ IsFiniteSet(Codes)
  /\ Patents # <<>> /\ ToSet(Classed) \subseteq Codes
  /\ Titles \in [Codes -> Nat \ {0}]
  /\ {Steps, Outstanding, Faults} \subseteq Nat

VARIABLES
  kind,      \* which overlay is open
  view,      \* its fields
  requests,  \* calls under way, oldest first
  db,        \* tags of the project, tags on each patent, classes described
  strayed,   \* history: a failure, others, or an overtaken answer left the list behind
  promised,  \* history: what the user had ticked when he applied it
  down,      \* the program ended: a map was written while it was walked
  budget     \* steps and faults left

vars == <<kind, view, requests, db, strayed, promised, down, budget>>

Blank == 0       \* nothing, or spaces, typed
Invalid == -1    \* typed, but no name of a tag nor a class
Nothing == [t \in {} |-> "none"]   \* no tag ticked, nothing promised

Ascending(S) == SetToSortSeq(S, <)

-----------------------------------------------------------------------------
(* The store. *)

ProjectTags(d) == Ascending(d.tags)
PatentTags(d, p) == d.on[p]

(* Creating a tag twice is creating it once; deleting it takes it off every
   patent.                                                                   *)
CreateTag(d, t) == [d EXCEPT !.tags = @ \cup {t}]
DeleteTag(d, t) == [d EXCEPT !.tags = @ \ {t}, !.on = [p \in DOMAIN Patents |-> @[p] \ {t}]]
TagPatents(d, t, patents) ==
  [d EXCEPT !.on = [p \in DOMAIN Patents |-> IF p \in patents THEN @[p] \cup {t} ELSE @[p]]]
UntagPatents(d, t, patents) ==
  [d EXCEPT !.on = [p \in DOMAIN Patents |-> IF p \in patents THEN @[p] \ {t} ELSE @[p]]]

SaveClassificationDefinition(d, c) == [d EXCEPT !.defs = @ \cup {c}]
DeleteClassificationDefinition(d, c) == [d EXCEPT !.defs = @ \ {c}]
ClassificationDefinition(d, c) == c \in d.defs
ListClassificationDefinitions(d) ==
  Ascending(d.defs \ Unsupported) \o Ascending(d.defs \cap Unsupported)

-----------------------------------------------------------------------------
(* The engine. *)

Carriers(d, t) == {p \in DOMAIN Patents : t \in PatentTags(d, p)}

CreateTaxonomyTag(d, t) == CreateTag(d, t)
DeleteTaxonomyTagFails(d, t) == t \notin d.tags
DeleteTaxonomyTag(d, t) == DeleteTag(d, t)

TagPatentStrict(d, t) == TagPatents(d, t, DOMAIN Patents \ Carriers(d, t))
TagPatent(d, t) == TagPatentStrict(CreateTaxonomyTag(d, t), t)

(* One patent that carries it is enough, and needed. *)
UntagPatentFails(d, t) == t \notin d.tags \/ Carriers(d, t) = {}
UntagPatentStrict(d, t) == UntagPatents(d, t, Carriers(d, t))

(* LookupCPCDescription: the office's server may know the code.  That it does
   not is an error like any other.                                            *)
Described(c) == IF c \in Unsupported THEN {FALSE} ELSE BOOLEAN

(* A code that is not known is saved if it can be described; nothing is when
   it cannot.                                                                 *)
LookupClassification(d, c) ==
  IF ClassificationDefinition(d, c) THEN {d}
  ELSE {IF found THEN SaveClassificationDefinition(d, c) ELSE d : found \in Described(c)}

(* Each with whether it is described. *)
ListPatentClassifications(d) ==
  [i \in DOMAIN Classed |-> [code |-> Classed[i], known |-> ClassificationDefinition(d, Classed[i])]]

Tick(n) == IF n = Len(Patents) THEN "checked" ELSE IF n > 0 THEN "mixed" ELSE "unchecked"
Ticks(tags, counts) == [t \in tags |-> Tick(counts[t])]

-----------------------------------------------------------------------------
(* Requests. *)

Load == [what |-> "load", stage |-> "issued", old |-> FALSE]
Call(what, on) == [what |-> what, stage |-> "issued", on |-> on]
Asking(r) == Append(requests, r)

Becomes(i, r) == requests' = ReplaceAt(requests, i, r)
Answers(i, r) == Becomes(i, [r EXCEPT !.stage = "answered"])
Loads == {i \in DOMAIN requests : requests[i].what = "load"}
Walks == {i \in DOMAIN requests : requests[i].what = "apply"}

(* The i-th is answered; older lists still on their way are overtaken. *)
Taken(i) ==
  RemoveAt([j \in DOMAIN requests |->
             IF requests[i].what = "load" /\ j \in Loads /\ j < i
             THEN [requests[j] EXCEPT !.old = TRUE] ELSE requests[j]], i)

View ==
  [open |-> TRUE, list |-> <<>>, selected |-> 0, adding |-> FALSE, typed |-> Blank,
   checked |-> Nothing, initial |-> Nothing, applying |-> FALSE,
   loading |-> FALSE, fetching |-> FALSE, queue |-> <<>>, done |-> 0, total |-> 0,
   marked |-> {}, visual |-> FALSE, anchor |-> 0, chord |-> FALSE,
   focus |-> "system", sort |-> "system", up |-> TRUE, filter |-> {}]

NewTagTaxonomyOverlay == View
NewTagPatentOverlay == View
NewClassificationListOverlay == View
NewPatentClassificationOverlay == [View EXCEPT !.loading = TRUE]

Init ==
  /\ kind \in Kinds
  /\ view = CASE kind = "taxonomy" -> NewTagTaxonomyOverlay
              [] kind = "ticks" -> NewTagPatentOverlay
              [] kind = "registry" -> NewClassificationListOverlay
              [] kind = "classes" -> NewPatentClassificationOverlay
  /\ requests = <<Load>>
  /\ \E tags \in SUBSET Tags, defs \in SUBSET (Codes \ Unsupported) :
       \E on \in [DOMAIN Patents -> SUBSET tags] :
         /\ kind \in {"registry", "classes"} => tags = {}
         /\ kind = "taxonomy" => \A p \in DOMAIN Patents : on[p] = {}
         /\ kind \in {"taxonomy", "ticks"} => defs = {}
         /\ db = [tags |-> tags, on |-> on, defs |-> defs]
  /\ strayed = FALSE /\ promised = Nothing /\ down = FALSE
  /\ budget = [steps |-> Steps, faults |-> Faults]

-----------------------------------------------------------------------------
(* The goroutines.  They outlive the overlay. *)

Serving == ~down /\ UNCHANGED <<kind, view, strayed, promised, budget>>
At(i, what, stage) == requests[i].what = what /\ requests[i].stage = stage

LoadTags(i) ==
  /\ Serving /\ kind = "taxonomy" /\ At(i, "load", "issued")
  /\ Answers(i, requests[i] @@ [list |-> ProjectTags(db)])
  /\ UNCHANGED <<db, down>>

LoadClassifications(i) ==
  /\ Serving /\ kind = "registry" /\ At(i, "load", "issued")
  /\ Answers(i, requests[i] @@ [list |-> ListClassificationDefinitions(db)])
  /\ UNCHANGED <<db, down>>

LoadPatentClassifications(i) ==
  /\ Serving /\ kind = "classes" /\ At(i, "load", "issued")
  /\ Answers(i, requests[i] @@ [list |-> ListPatentClassifications(db)])
  /\ UNCHANGED <<db, down>>

(* The tags of the project, then patent by patent the tags it carries. *)
LoadTicks(i) ==
  /\ Serving /\ kind = "ticks"
  /\ \/ /\ At(i, "load", "issued")
        /\ Becomes(i, [requests[i] EXCEPT !.stage = "counting"] @@
                      [list |-> ProjectTags(db), next |-> 1, counts |-> [t \in Tags |-> 0]])
     \/ /\ At(i, "load", "counting")
        /\ LET r == requests[i]
               counts == [t \in Tags |-> r.counts[t] + IF t \in PatentTags(db, r.next) THEN 1 ELSE 0]
           IN  Becomes(i, [r EXCEPT !.counts = counts, !.next = @ + 1,
                                    !.stage = IF r.next = Len(Patents) THEN "answered" ELSE @])
  /\ UNCHANGED <<db, down>>

Create(i) ==
  /\ Serving /\ At(i, "create", "issued")
  /\ db' = CreateTaxonomyTag(db, requests[i].on)
  /\ Answers(i, requests[i]) /\ UNCHANGED down

TagDelete(i) ==
  /\ Serving /\ At(i, "delete", "issued") /\ kind = "taxonomy"
  /\ LET t == requests[i].on
     IN  /\ db' = DeleteTaxonomyTag(db, t)
         /\ IF DeleteTaxonomyTagFails(db, t) THEN Becomes(i, [requests[i] EXCEPT !.stage = "failed"])
            ELSE Answers(i, requests[i])
  /\ UNCHANGED down

ClassificationDelete(i) ==
  /\ Serving /\ At(i, "delete", "issued") /\ kind = "registry"
  /\ db' = DeleteClassificationDefinition(db, requests[i].on)
  /\ Answers(i, requests[i]) /\ UNCHANGED down

Lookup(i) ==
  /\ Serving /\ At(i, "lookup", "issued")
  /\ db' \in LookupClassification(db, requests[i].on)
  /\ Answers(i, requests[i]) /\ UNCHANGED down

(* applyTagsCmd.  It walks the map of the ticks, in no order; the map is the
   overlay's own, until an answer gives the overlay a new one.  What the ticks
   were at first it looks up in whatever map the overlay has by then.         *)
Walk(i) ==
  /\ Serving /\ At(i, "apply", "issued")
  /\ Becomes(i, [requests[i] EXCEPT !.stage = "walking"] @@
                [own |-> TRUE, ticks |-> view.checked, passed |-> {}])
  /\ UNCHANGED <<db, down>>

Final(r) == IF r.own THEN view.checked ELSE r.ticks
Initial(t) == IF t \in DOMAIN view.initial THEN view.initial[t] ELSE "unchecked"

Apply(i, t) ==
  /\ Serving /\ At(i, "apply", "walking")
  /\ LET r == requests[i]
         final == Final(r)[t]
         passes == Becomes(i, [r EXCEPT !.passed = @ \cup {t}])
     IN  /\ t \in DOMAIN Final(r) \ r.passed
         /\ \/ (final = Initial(t) \/ final = "mixed") /\ passes /\ UNCHANGED db
            \/ final # Initial(t) /\ final = "checked" /\ passes /\ db' = TagPatent(db, t)
            \/ /\ final # Initial(t) /\ final = "unchecked"
               /\ IF UntagPatentFails(db, t)
                  THEN Becomes(i, [r EXCEPT !.stage = "failed"]) /\ UNCHANGED db
                  ELSE passes /\ db' = UntagPatentStrict(db, t)
  /\ UNCHANGED down

(* A tag put into the map meanwhile may be passed over. *)
ApplyEnds(i) ==
  /\ Serving /\ At(i, "apply", "walking")
  /\ DOMAIN requests[i].ticks \subseteq requests[i].passed
  /\ Answers(i, requests[i])
  /\ UNCHANGED <<db, down>>

(* A call fails, or is done and answered too late. *)
Fault(i) ==
  /\ ~down /\ budget.faults > 0 /\ requests[i].stage \in {"issued", "counting", "walking"}
  /\ LET r == requests[i]
     IN  db' \in {db} \cup (CASE r.what = "create" -> {CreateTaxonomyTag(db, r.on)}
                              [] r.what = "delete" /\ kind = "taxonomy" -> {DeleteTaxonomyTag(db, r.on)}
                              [] r.what = "delete" /\ kind = "registry" -> {DeleteClassificationDefinition(db, r.on)}
                              [] r.what = "lookup" -> LookupClassification(db, r.on)
                              [] OTHER -> {})
  /\ Becomes(i, [requests[i] EXCEPT !.stage = "failed"])
  /\ strayed' = TRUE
  /\ budget' = [budget EXCEPT !.faults = @ - 1]
  /\ UNCHANGED <<kind, view, promised, down>>

-----------------------------------------------------------------------------
(* Messages. *)

Ready == ~down /\ view.open /\ UNCHANGED <<kind, db, down, budget>>
Ended(i, what) == requests[i].what = what /\ requests[i].stage \in {"answered", "failed"}
Failed(i) == requests[i].stage = "failed"
Shows(v, rs) == view' = v /\ requests' = rs

Clamped(v) ==
  [v EXCEPT !.selected = IF @ < Len(v.list) THEN @ ELSE IF v.list = <<>> THEN 0 ELSE Len(v.list) - 1]

Overtaken(i) == strayed' = (strayed \/ requests[i].old)

TagsLoaded(i) ==
  /\ Ready /\ kind = "taxonomy" /\ Ended(i, "load")
  /\ Shows(IF Failed(i) THEN view ELSE Clamped([view EXCEPT !.list = requests[i].list]), Taken(i))
  /\ Overtaken(i) /\ UNCHANGED promised

ClassificationsLoaded(i) ==
  /\ Ready /\ kind = "registry" /\ Ended(i, "load")
  /\ Shows(IF Failed(i) THEN view ELSE Clamped([view EXCEPT !.list = requests[i].list]), Taken(i))
  /\ Overtaken(i) /\ UNCHANGED promised

(* New maps: what was ticked is forgotten, and a walk goes on over the old. *)
TicksLoaded(i) ==
  /\ Ready /\ kind = "ticks" /\ Ended(i, "load")
  /\ IF Failed(i) THEN Shows(view, Taken(i))
     ELSE LET ticks == Ticks(ToSet(requests[i].list), requests[i].counts)
              rest == Taken(i)
          IN  Shows(Clamped([view EXCEPT !.list = requests[i].list, !.checked = ticks, !.initial = ticks]),
                    [j \in DOMAIN rest |->
                      IF rest[j].what = "apply" /\ rest[j].stage = "walking" /\ rest[j].own
                      THEN [rest[j] EXCEPT !.own = FALSE, !.ticks = view.checked] ELSE rest[j]])
  /\ Overtaken(i) /\ UNCHANGED promised

Closed(v) == [v EXCEPT !.adding = FALSE, !.typed = Blank]

TagCreated(i) ==
  /\ Ready /\ kind = "taxonomy" /\ Ended(i, "create")
  /\ IF Failed(i) THEN Shows(view, Taken(i)) ELSE Shows(Closed(view), Append(Taken(i), Load))
  /\ UNCHANGED <<strayed, promised>>

(* Writing into a map that is being walked ends the program, if it is noticed. *)
Writing == {j \in Walks : requests[j].stage = "walking" /\ requests[j].own}
MayEnd == down' \in {FALSE, Writing # {}}

TagCreatedAndTicked(i) ==
  /\ ~down /\ view.open /\ UNCHANGED <<kind, db, budget>>
  /\ kind = "ticks" /\ Ended(i, "create")
  /\ IF Failed(i) THEN Shows(view, Taken(i)) /\ UNCHANGED <<down, promised>>
     ELSE LET t == requests[i].on
          IN  /\ Shows([Closed(view) EXCEPT !.checked = (t :> "checked") @@ @,
                                            !.initial = (t :> "unchecked") @@ @],
                       Append(Taken(i), Load))
              /\ MayEnd /\ promised' = Nothing
  /\ UNCHANGED strayed

ClassificationLookedUp(i) ==
  /\ Ready /\ kind = "registry" /\ Ended(i, "lookup")
  /\ IF Failed(i) THEN Shows(view, Taken(i)) ELSE Shows(Closed(view), Append(Taken(i), Load))
  /\ UNCHANGED <<strayed, promised>>

TagDeleted(i) ==
  /\ Ready /\ kind = "taxonomy" /\ Ended(i, "delete")
  /\ Shows(view, IF Failed(i) THEN Taken(i) ELSE Append(Taken(i), Load))
  /\ UNCHANGED <<strayed, promised>>

ClassificationDeleted(i) ==
  /\ Ready /\ kind = "registry" /\ Ended(i, "delete")
  /\ LET last == Len(view.list) - 1
     IN  IF Failed(i) THEN Shows(view, Taken(i))
         ELSE Shows([view EXCEPT !.selected = IF @ < last THEN @ ELSE IF last < 1 THEN 0 ELSE last - 1],
                    Append(Taken(i), Load))
  /\ UNCHANGED <<strayed, promised>>

(* The status is shown and the overlay closes, whatever became of it. *)
ApplyFinished(i) ==
  /\ Ready /\ Ended(i, "apply")
  /\ Shows([view EXCEPT !.applying = FALSE, !.open = FALSE], Taken(i))
  /\ promised' = IF Failed(i) THEN Nothing ELSE promised
  /\ UNCHANGED strayed

-----------------------------------------------------------------------------
(* The classes of a patent. *)

System(c) == IF c \in Unsupported THEN 2 ELSE 1
Title(row) == IF row.known THEN Titles[row.code] ELSE 0

(* applySort's comparison: within a system it is the code that decides, in
   whatever column.                                                        *)
Before(a, b, column, up) ==
  LET least == CASE System(a.code) = System(b.code) /\ a.code # b.code -> a.code < b.code
                 [] column = "code" -> a.code < b.code
                 [] column = "description" -> Title(a) < Title(b)
                 [] OTHER -> System(a.code) < System(b.code)
  IN  IF up THEN least ELSE ~least

(* sort.SliceStable, on a list this short: each row goes up past those it is
   before.                                                                  *)
Sorted(v) ==
  LET Inserted(rows, row) ==
        LET places == {j \in 0..Len(rows) : j = 0 \/ ~Before(row, rows[j], v.sort, v.up)}
        IN  InsertAt(rows, (CHOOSE j \in places : \A k \in places : k <= j) + 1, row)
  IN  [v EXCEPT !.list = FoldLeft(Inserted, <<>>, @)]

PatentClassificationsLoaded(i) ==
  /\ Ready /\ kind = "classes" /\ Ended(i, "load")
  /\ LET v == [view EXCEPT !.loading = FALSE, !.done = 0, !.total = 0]
     IN  Shows(IF Failed(i) THEN v ELSE Clamped(Sorted([v EXCEPT !.list = requests[i].list])), Taken(i))
  /\ Overtaken(i) /\ UNCHANGED promised

(* One code after the other; after the last the list is read again. *)
LookedUpOne(i) ==
  /\ Ready /\ kind = "classes" /\ Ended(i, "lookup")
  /\ LET v == [view EXCEPT !.done = @ + 1]
     IN  IF v.queue = <<>>
         THEN Shows([v EXCEPT !.fetching = FALSE, !.list = <<>>, !.loading = TRUE], Append(Taken(i), Load))
         ELSE Shows([v EXCEPT !.queue = Tail(@)], Append(Taken(i), Call("lookup", Head(v.queue))))
  /\ UNCHANGED <<strayed, promised>>

-----------------------------------------------------------------------------
(* Keys. *)

Pressed ==
  /\ ~down /\ view.open /\ budget.steps > 0 /\ Len(requests) <= Outstanding
  /\ budget' = [budget EXCEPT !.steps = @ - 1]
  /\ UNCHANGED <<kind, db, strayed>>
Key == Pressed /\ UNCHANGED <<promised, down>>
Listing == kind \in {"taxonomy", "ticks", "registry"}

AddKey ==
  /\ Key /\ Listing /\ ~view.adding
  /\ Shows([view EXCEPT !.adding = TRUE, !.typed = Blank], requests)

(* Characters typed, taken back or put in between, or Esc. *)
TypeKey ==
  /\ Key /\ Listing /\ view.adding
  /\ \/ \E x \in {Blank} \cup (IF kind = "registry" THEN Codes ELSE Tags \cup {Invalid}) :
          x # view.typed /\ Shows([view EXCEPT !.typed = x], requests)
     \/ Shows(Closed(view), requests)

CreateKey ==
  /\ Key /\ kind \in {"taxonomy", "ticks"} /\ view.adding
  /\ Shows(view, IF view.typed \in Tags THEN Asking(Call("create", view.typed)) ELSE requests)

(* Any text that is not blank is a class of some system. *)
LookupKey ==
  /\ Key /\ kind = "registry" /\ view.adding /\ view.typed \in Codes
  /\ Shows(view, Asking(Call("lookup", view.typed)))

(* j and k go round. *)
MoveKey ==
  /\ Key /\ ~view.adding /\ view.list # <<>>
  /\ \E step \in {1, -1} :
       Shows([view EXCEPT !.selected = (@ + step + Len(view.list)) % Len(view.list), !.chord = FALSE], requests)

DeleteKey ==
  /\ Key /\ kind \in {"taxonomy", "registry"} /\ ~view.adding /\ view.selected < Len(view.list)
  /\ Shows(view, Asking(Call("delete", view.list[view.selected + 1])))

(* Keys are taken, and unseen, while ticks are being applied. *)
SpaceKey ==
  /\ Pressed /\ kind = "ticks" /\ ~view.adding /\ view.selected < Len(view.list)
  /\ Shows([view EXCEPT !.checked[view.list[view.selected + 1]] = IF @ = "checked" THEN "unchecked" ELSE "checked"],
           requests)
  /\ MayEnd
  /\ promised' = IF Walks = {} THEN promised ELSE Nothing

EnterKey ==
  /\ Pressed /\ kind = "ticks" /\ ~view.adding
  /\ Shows([view EXCEPT !.applying = TRUE], Asking([what |-> "apply", stage |-> "issued"]))
  /\ promised' = IF Walks # {} THEN promised
                 ELSE IF strayed \/ requests # <<>> THEN Nothing
                 ELSE view.checked
  /\ UNCHANGED down

(* Closing the classes of a patent filters the list below by those marked. *)
CloseKey ==
  /\ Pressed /\ ~view.adding
  /\ promised' = Nothing /\ UNCHANGED down
  /\ Shows([view EXCEPT !.open = FALSE,
                        !.filter = {r.code : r \in {q \in ToSet(view.list) : kind = "classes" /\ q.code \in view.marked}}],
           requests)

InRange(i) ==
  view.visual /\ \/ view.anchor <= i /\ i <= view.selected
                 \/ view.selected <= i /\ i <= view.anchor

Unseen(v) == [v EXCEPT !.visual = FALSE, !.anchor = 0]
Flipped(marks, codes) == (marks \ codes) \cup (codes \ marks)

MarkKey ==
  /\ Key /\ kind = "classes" /\ view.list # <<>>
  /\ LET rows == IF view.visual THEN {i \in DOMAIN view.list : InRange(i - 1)} ELSE {view.selected + 1}
     IN  Shows([Unseen(view) EXCEPT !.marked = Flipped(@, {view.list[i].code : i \in rows}), !.chord = FALSE], requests)

(* F *)
UnmarkKey == Key /\ kind = "classes" /\ Shows([view EXCEPT !.marked = {}, !.chord = FALSE], requests)

(* v, Esc, and g a *)
VisualKey ==
  /\ Key /\ kind = "classes"
  /\ \/ Shows(IF view.visual THEN [Unseen(view) EXCEPT !.chord = FALSE]
              ELSE [view EXCEPT !.visual = TRUE, !.anchor = view.selected, !.chord = FALSE], requests)
     \/ ~view.chord /\ Shows([view EXCEPT !.chord = TRUE], requests)
     \/ /\ view.chord
        /\ Shows(IF view.list = <<>> THEN [view EXCEPT !.chord = FALSE]
                 ELSE [view EXCEPT !.chord = FALSE, !.visual = TRUE, !.anchor = 0,
                                   !.selected = Len(view.list) - 1], requests)

(* h and l skip the column that cannot be sorted by. *)
FocusKey ==
  /\ Key /\ kind = "classes"
  /\ \E column \in {"system", "code", "description"} \ {view.focus} :
       Shows([view EXCEPT !.focus = column, !.chord = FALSE], requests)

SortKey ==
  /\ Key /\ kind = "classes"
  /\ Shows(Sorted([view EXCEPT !.up = IF view.sort = view.focus THEN ~@ ELSE TRUE,
                               !.sort = view.focus, !.chord = FALSE]), requests)

(* L *)
FetchKey ==
  /\ Key /\ kind = "classes" /\ ~view.fetching
  /\ LET rows == SelectSeq(view.list, LAMBDA r : r.code \notin Unsupported /\ ~r.known)
         v == [view EXCEPT !.chord = FALSE]
     IN  IF rows = <<>> THEN Shows(v, requests)
         ELSE Shows([v EXCEPT !.fetching = TRUE, !.total = Len(rows), !.done = 0,
                              !.queue = [i \in 1..(Len(rows) - 1) |-> rows[i + 1].code]],
                    Asking(Call("lookup", rows[1].code)))

(* Other clients. *)
Others ==
  /\ ~down /\ view.open /\ budget.steps > 0
  /\ budget' = [budget EXCEPT !.steps = @ - 1]
  /\ \/ \E t \in Tags : db' \in {CreateTaxonomyTag(db, t), DeleteTaxonomyTag(db, t), TagPatent(db, t)}
     \/ \E c \in Codes \ Unsupported : db' = [db EXCEPT !.defs = Flipped(@, {c})]
  /\ kind \in {"taxonomy", "ticks"} => db'.defs = db.defs
  /\ kind \in {"registry", "classes"} => db'.tags = db.tags
  /\ db' # db
  /\ strayed' = TRUE /\ promised' = Nothing
  /\ UNCHANGED <<kind, view, requests, down>>

-----------------------------------------------------------------------------
Goroutine(i) ==
  \/ LoadTags(i) \/ LoadTicks(i) \/ LoadClassifications(i) \/ LoadPatentClassifications(i)
  \/ Create(i) \/ TagDelete(i) \/ ClassificationDelete(i) \/ Lookup(i)
  \/ Walk(i) \/ ApplyEnds(i) \/ Fault(i)
  \/ \E t \in Tags : Apply(i, t)

TagTaxonomyUpdate(i) == TagsLoaded(i) \/ TagCreated(i) \/ TagDeleted(i)
TagPatentUpdate(i) == TicksLoaded(i) \/ TagCreatedAndTicked(i) \/ ApplyFinished(i)
ClassificationListUpdate(i) ==
  ClassificationsLoaded(i) \/ ClassificationLookedUp(i) \/ ClassificationDeleted(i)
PatentClassificationUpdate(i) == PatentClassificationsLoaded(i) \/ LookedUpOne(i)

Keys ==
  \/ AddKey \/ TypeKey \/ CreateKey \/ LookupKey \/ MoveKey \/ DeleteKey
  \/ SpaceKey \/ EnterKey \/ CloseKey
  \/ MarkKey \/ UnmarkKey \/ VisualKey \/ FocusKey \/ SortKey \/ FetchKey

Next ==
  \/ \E i \in DOMAIN requests :
       \/ Goroutine(i) \/ TagTaxonomyUpdate(i) \/ TagPatentUpdate(i)
       \/ ClassificationListUpdate(i) \/ PatentClassificationUpdate(i)
  \/ Keys \/ Others

Spec == Init /\ [][Next]_vars

-----------------------------------------------------------------------------
(* The selected row is one of the list, however it was shortened and whichever
   of several answers came last.                                              *)
SelectionIsListed == view.list # <<>> => view.selected < Len(view.list)

(* With nothing under way the overlay shows what the daemon has, unless a
   failure, another client or an overtaken answer left it behind: every change
   the overlay makes is followed by a list read after it.                      *)
ListIsFresh ==
  view.open /\ requests = <<>> /\ ~strayed =>
    /\ kind = "taxonomy" => view.list = Ascending(db.tags)
    /\ kind = "registry" => view.list = ListClassificationDefinitions(db)
    /\ kind = "classes" => ToSet(view.list) = ToSet(ListPatentClassifications(db))
    /\ kind = "ticks" =>
         view.initial = Ticks(db.tags, [t \in Tags |-> Cardinality(Carriers(db, t))])

(* Waiting ends: what is shown as loading, being fetched or being applied has a
   call under way that will end it, and the progress adds up.                  *)
WaitingIsAnswered ==
  view.open =>
    /\ view.loading => Loads # {}
    /\ view.applying => Walks # {}
    /\ view.fetching =>
         /\ Cardinality({i \in DOMAIN requests : requests[i].what = "lookup"}) = 1
         /\ view.done + 1 + Len(view.queue) = view.total

(* An overlay that closed because the ticks were applied leaves every patent
   with the tags that were ticked and without those that were not, if nobody
   else changed them and no key was pressed meanwhile.                         *)
TicksAreApplied ==
  ~view.open => \A t \in DOMAIN promised :
    /\ promised[t] = "checked" => Carriers(db, t) = DOMAIN Patents
    /\ promised[t] = "unchecked" => Carriers(db, t) = {}
=============================================================================
