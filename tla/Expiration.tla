------------------------------ MODULE Expiration ------------------------------
(***************************************************************************)
(* The expiration of one patent: ComputeAndStoreUSPTOExpiration with the   *)
(* walk over the applications it continues, and the handler that asks for  *)
(* it (engine/engine_expiration.go, uspto/expiration.go, rpc/              *)
(* server_uspto.go).  Every transaction of the store and every request to  *)
(* the office is a step, between which another computation may take its    *)
(* own.  Dates are small numbers, 0 is the zero date; the office's search  *)
(* finds the application that is asked for, and each application has a     *)
(* record of its own.                                                      *)
(***************************************************************************)
EXTENDS Integers, Sequences, FiniteSets, Relation

CONSTANTS Calls,     \* computations
          Apps, Own, \* applications, the patent's among them
          Filed,     \* the filing date of each
          Issued,    \* its grant, by its status; 0 if there is none
          Lists,     \* the rows [ord, parent, child, prov] the office lists for each
          Worlds,    \* see Init
          Term, DesignTerm,          \* 20 and 15 years
          Adjustment, Extension      \* what the office grants

VARIABLES given,             \* the world, never changed
          record, row, edges,\* of each application: its record, uspto_application, uspto_continuity
          call, faults

store == <<record, row, edges>>
vars  == <<given, store, call, faults>>

Absent == [held |-> FALSE, grant |-> 0, expires |-> 0, src |-> "none"]
Blank  == [Absent EXCEPT !.held = TRUE]
NoRow  == [held |-> FALSE, filed |-> 0, issued |-> 0, link |-> FALSE, pte |-> 0, expires |-> 0]
\* The extension is in no answer of the search.
Fresh(a) == [NoRow EXCEPT !.held = TRUE, !.filed = Filed[a], !.issued = Issued[a], !.link = Issued[a] # 0]
FromGoogle == [held |-> TRUE, grant |-> Issued[Own], expires |-> Filed[Own] + Term, src |-> "google"]

\* calm: what of the call nobody else wrote in, so far.  had: the extension it found on file.
Idle == [pc |-> "idle", refresh |-> FALSE, app |-> NoRow, purpose |-> "resolve", about |-> Own,
         frames |-> <<>>, enriched |-> FALSE, heard |-> {}, earliest |-> 0, by |-> Own, pta |-> 0, td |-> 0,
         rec |-> Absent, calm |-> {}, whole |-> TRUE, kept |-> FALSE, stamped |-> FALSE, had |-> 0, ok |-> FALSE]

\* A world: what is on file of the patent and of other applications, whether there is a key, a file of the grant and a crawler,
\* the calls with their refresh flags, and a bound on requests, reads and writes that fail.
Init ==
    /\ given \in Worlds
    /\ record = [a \in Apps |-> CASE a = Own /\ given.cached -> FromGoogle
                                  [] a \in given.known \ {Own} -> [Blank EXCEPT !.grant = Issued[a]]
                                  [] OTHER -> Absent]
    /\ row = [a \in Apps |-> CASE a \notin given.known -> NoRow
                               [] a = Own -> [Fresh(a) EXCEPT !.pte = given.pte]
                               [] OTHER   -> Fresh(a)]
    /\ edges = [a \in Apps |-> IF row[a].held THEN Lists[a] ELSE {}]
    /\ call = [c \in Calls |-> Idle] /\ faults = 0

At(c, pc)    == call[c].pc = pc
Become(c, s) == call' = [call EXCEPT ![c] = s]
Wrote(c, s)  == call' = [d \in Calls |-> IF d = c THEN s ELSE [call[d] EXCEPT !.calm = {}]]
Goto(s, pc)  == [s EXCEPT !.pc = pc]
Ask(s, a, purpose) == [s EXCEPT !.pc = "ask", !.about = a, !.purpose = purpose]
Fault == faults < given.faults /\ faults' = faults + 1

\* A node without continuities of its own takes those of its application along.
SaveNode(a, rec, app, rows) ==
    /\ record' = [record EXCEPT ![a] = rec]
    /\ row' = [row EXCEPT ![a] = app]
    /\ edges' = [edges EXCEPT ![a] = rows]
    /\ UNCHANGED <<given, faults>>
Fails == Fault /\ UNCHANGED <<given, store>>
Reads == UNCHANGED <<given, store, faults>>

(***************************************************************************)
(* Where the application comes from: the store, a file of the grant, a     *)
(* crawl, the office.                                                      *)
(***************************************************************************)
Start(c) ==
    /\ At(c, "idle") /\ c \in DOMAIN given.calls
    /\ Become(c, [Idle EXCEPT !.pc = "load", !.refresh = given.calls[c], !.calm = {"call"}])
    /\ Reads

Resolved(s, app) ==
    LET t == [s EXCEPT !.app = app] IN IF s.refresh THEN Ask(t, Own, "renew") ELSE Goto(t, "extend")

\* Not to find the application is another thing than to fail to read it, the first time only.
Load(c) ==
    /\ \/ At(c, "load") \/ At(c, "reload") \/ At(c, "retry")
    /\ LET s == call[c] IN
       \/ row[Own].held /\ Become(c, [Resolved(s, row[Own]) EXCEPT !.had = row[Own].pte]) /\ Reads
       \/ ~row[Own].held /\ s.pc = "load" /\ Become(c, Goto(s, "file")) /\ Reads
       \/ ~row[Own].held /\ s.pc = "reload" /\ Become(c, Goto(s, "crawl")) /\ Reads
       \/ ~row[Own].held /\ s.pc = "retry" /\ Become(c, Ask(s, Own, "resolve")) /\ Reads
       \/ s.pc = "reload" /\ Become(c, Goto(s, "crawl")) /\ Fails
       \/ s.pc # "reload" /\ Become(c, Ask(s, Own, "resolve")) /\ Fails

\* Nothing of the ingest reaches the columns the computation reads.
IngestFile(c) ==
    /\ At(c, "file")
    /\ LET s == Goto(call[c], "reload") IN
       \/ given.file /\ Wrote(c, s) /\ SaveNode(Own, Blank, [NoRow EXCEPT !.held = TRUE], {})
       \/ given.file /\ Become(c, s) /\ Fails
       \/ ~given.file /\ Become(c, s) /\ Reads

Crawl(c) ==
    /\ At(c, "crawl")
    /\ LET s == Goto(call[c], "retry") IN
       \/ /\ given.crawler = "office"
          /\ Wrote(c, s) /\ SaveNode(Own, [Blank EXCEPT !.grant = Issued[Own]], Fresh(Own), Lists[Own])
       \/ /\ given.crawler = "google"
          /\ Wrote(c, s)
          /\ record' = [record EXCEPT ![Own] = FromGoogle] /\ UNCHANGED <<given, row, edges, faults>>
       \/ given.crawler = "none" /\ Become(c, s) /\ Reads

(***************************************************************************)
(* A request for one application, and what follows it.                     *)
(***************************************************************************)
Finish(s, ok) == [s EXCEPT !.pc = "done", !.ok = ok]

Unanswered(s) ==
    CASE s.purpose = "resolve"           -> Finish(s, FALSE)
      [] s.purpose = "renew"             -> Goto(s, "extend")
      [] s.purpose = "parent"            -> Goto(s, "adjust")
      [] s.purpose \in {"source", "late"} -> Finish(s, TRUE)

AskOffice(c) ==
    /\ At(c, "ask")
    /\ \/ given.key /\ Become(c, Goto(call[c], "keep")) /\ Reads
       \/ given.key /\ Become(c, Unanswered(call[c])) /\ Fails
       \/ ~given.key /\ Become(c, Unanswered(call[c])) /\ Reads

\* A copy that has no extension or link leaves the answer without.
Renewed(s) == [Fresh(Own) EXCEPT !.link = s.app.link, !.pte = s.app.pte]

Ungranted(parent) == parent.issued = 0

Answered(s) ==
    CASE s.purpose = "resolve" -> Resolved(s, Fresh(Own))
      [] s.purpose = "renew"   -> [s EXCEPT !.app = Renewed(s), !.pc = "renew"]
      [] s.purpose = "source" /\ Ungranted(Fresh(s.about)) -> Ask(s, s.about, "late")
      [] OTHER -> Unanswered(s)

\* parseAndStoreUSPTOApplication goes on whether or not it could store.
Keep(c) ==
    /\ At(c, "keep")
    /\ LET s == call[c] IN
       \/ Wrote(c, Answered(s)) /\ SaveNode(s.about, Blank, Fresh(s.about), {})
       \/ Become(c, Answered(s)) /\ Fails

Renew(c) ==
    /\ At(c, "renew")
    /\ LET s == Goto(call[c], "extend") IN
       \/ Wrote(c, s) /\ SaveNode(Own, Blank, s.app, {})
       \/ Become(c, s) /\ Fails

(***************************************************************************)
(* The extension, and the walk over the parents: a stack of applications,  *)
(* each with the earliest date found under it and the rows left to follow. *)
(***************************************************************************)
Walk(s, from) ==
    [s EXCEPT !.pc = "read", !.frames = <<[app |-> Own, earliest |-> from, left |-> {}]>>,
              !.by = Own, !.calm = @ \cup {"walk"}, !.whole = TRUE]

Unextended(app) == app.pte = 0 /\ app.link /\ given.key

\* A grant without an extension says so by a zero, which is asked for again next time.
Extend(c) ==
    /\ At(c, "extend")
    /\ LET s == call[c]
           missing == Unextended(s.app)
       IN  \/ missing /\ Become(c, Walk([s EXCEPT !.app.pte = Extension], s.app.filed)) /\ Reads
           \/ missing /\ Become(c, Walk(s, s.app.filed)) /\ Fails
           \/ ~missing /\ Become(c, Walk(s, s.app.filed)) /\ Reads

Top(s)   == s.frames[Len(s.frames)]
Under(s) == SubSeq(s.frames, 1, Len(s.frames) - 1)
Rows(a)  == edges[a] \cup {r \in UNION {edges[b] : b \in Apps} : r.child = a}

\* A provisional application and one without a date count for nothing.
Counts(r) == ~r.prov /\ Filed[r.parent] # 0
Before(d, e) == d # 0 /\ (e = 0 \/ d < e)

\* What a walk that came to its end is used for: the second one only adds to the first.
Walked(s, date) ==
    [s EXCEPT !.earliest = date, !.frames = <<>>, !.pc = IF s.refresh /\ ~s.enriched THEN "enrich" ELSE "parent"]

Returned(s) ==
    LET found == Top(s).earliest
    IN  IF Len(s.frames) = 1 THEN Walked(s, found)
        ELSE LET below == Under(s) IN
             [s EXCEPT !.pc = "follow", !.frames =
                [below EXCEPT ![Len(below)].earliest = IF Before(found, @) THEN found ELSE @]]

\* A read that fails ends the branch and no more.
ReadParents(c) ==
    /\ At(c, "read")
    /\ LET s == call[c] IN
       \/ Become(c, [s EXCEPT !.pc = "follow", !.frames[Len(s.frames)].left = Rows(Top(s).app)]) /\ Reads
       \/ Become(c, [Returned(s) EXCEPT !.whole = FALSE]) /\ Fails

Followed(s, r) ==
    LET n == Len(s.frames)
        earlier == Before(Filed[r.parent], Top(s).earliest)
        t == [s EXCEPT !.frames[n].left = @ \ {r},
                       !.frames[n].earliest = IF earlier THEN Filed[r.parent] ELSE @,
                       !.by = IF earlier THEN r.parent ELSE @]
    IN  IF ~Counts(r) THEN [s EXCEPT !.frames[n].left = @ \ {r}]
        ELSE IF \E i \in 1..n : s.frames[i].app = r.parent THEN t
        ELSE [t EXCEPT !.pc = "read", !.frames =
                Append(@, [app |-> r.parent, earliest |-> Filed[r.parent], left |-> {}])]

Follow(c) ==
    /\ At(c, "follow")
    /\ LET s == call[c]
           rest == Top(s).left
       IN  \/ rest = {} /\ Become(c, Returned(s))
           \/ \E r \in rest : (\A q \in rest : r.ord <= q.ord) /\ Become(c, Followed(s, r))
    /\ Reads

(***************************************************************************)
(* On a refresh: continuities the store has none of, and the parent.       *)
(***************************************************************************)
Enrich(c) ==
    /\ At(c, "enrich")
    /\ LET s == [call[c] EXCEPT !.enriched = TRUE]
           silent == Goto(s, "parent")
           missing == Rows(Own) = {} /\ given.key
       IN  \/ given.key /\ Lists[Own] # {} /\ Become(c, Goto(s, "enlist")) /\ Fails
           \/ missing /\ Lists[Own] # {} /\ Become(c, Goto(s, "enlist")) /\ Reads
           \/ missing /\ Become(c, silent) /\ Fails
           \/ (~missing \/ Lists[Own] = {}) /\ Become(c, silent) /\ Reads

Enlist(c) ==
    /\ At(c, "enlist")
    /\ LET s == call[c]
           again == Walk(s, s.app.filed)
       IN  \/ Wrote(c, [again EXCEPT !.heard = Lists[Own]]) /\ SaveNode(Own, Blank, s.app, Lists[Own])
           \/ Become(c, again) /\ Fails

OnFile(a) == row[a].held

Prefetch(c) ==
    /\ At(c, "parent")
    /\ LET s == call[c]
           asks == s.refresh /\ s.by # Own
       IN  \/ asks /\ ~OnFile(s.by) /\ Become(c, Ask(s, s.by, "parent")) /\ Reads
           \/ asks /\ Become(c, Ask(s, s.by, "parent")) /\ Fails
           \/ (asks => OnFile(s.by)) /\ Become(c, Goto(s, "adjust")) /\ Reads

(***************************************************************************)
(* What the office grants and what was disclaimed; the date; its storing.  *)
(***************************************************************************)
Adjust(c) ==
    /\ At(c, "adjust")
    /\ LET s == Goto(call[c], "disclaim") IN
       \/ Become(c, [s EXCEPT !.pta = IF given.key THEN Adjustment ELSE 0]) /\ Reads
       \/ given.key /\ Become(c, s) /\ Fails

\* The earliest of the dates the disclaimers among the documents bear, if any bears one.
EarliestDisclaimer(docs) ==
    LET dates == {d.date : d \in {e \in docs : e.disclaims}} \ {0}
    IN  IF dates = {} THEN 0 ELSE CHOOSE d \in dates : \A e \in dates : d <= e

Disclaim(c) ==
    /\ At(c, "disclaim")
    /\ LET s == Goto(call[c], "record") IN
       \/ Become(c, [s EXCEPT !.td = IF given.key THEN EarliestDisclaimer(given.documents) ELSE 0]) /\ Reads
       \/ given.key /\ Become(c, s) /\ Fails

PatentExpiration(s, grant) ==
    LET base == IF s.earliest # 0 THEN s.earliest ELSE s.app.filed
        date == IF given.kind = "design" THEN grant + DesignTerm ELSE base + Term + s.pta + s.app.pte
    IN  IF s.app.filed = 0 /\ s.earliest = 0 /\ grant = 0 THEN 0
        ELSE IF Before(s.td, date) THEN s.td ELSE date

Recorded(s, rec) ==
    LET grant == IF rec.grant # 0 THEN rec.grant ELSE s.app.issued
    IN  [s EXCEPT !.pc = "store", !.rec = rec, !.app.expires = PatentExpiration(s, grant)]

\* A record that cannot be read is taken for none, and Store writes a blank one over it.
ReadRecord(c) ==
    /\ At(c, "record")
    /\ LET s == call[c] IN
       \/ record[Own].held /\ Become(c, Recorded(s, record[Own])) /\ Reads
       \/ ~record[Own].held /\ Become(c, Recorded(s, Blank)) /\ Reads
       \/ Become(c, Recorded(s, Blank)) /\ Fails

Store(c) ==
    /\ At(c, "store")
    /\ LET s == Goto(call[c], "reread") IN
       \/ Wrote(c, [s EXCEPT !.kept = TRUE]) /\ SaveNode(Own, s.rec, s.app, {})
       \/ Become(c, s) /\ Fails

\* The record as it is now, dated, is what Stamp writes.
Reread(c) ==
    /\ At(c, "reread")
    /\ LET s == call[c]
           rec == record[Own]
           differs == s.app.expires # 0 /\ (rec.expires # s.app.expires \/ rec.src # "uspto")
       IN  \/ /\ rec.held /\ differs
              /\ Become(c, [s EXCEPT !.pc = "stamp", !.rec = [rec EXCEPT !.expires = s.app.expires, !.src = "uspto"]])
              /\ Reads
           \/ ~(rec.held /\ differs) /\ Become(c, [s EXCEPT !.pc = "report", !.stamped = rec.held]) /\ Reads
           \/ Become(c, Goto(s, "report")) /\ Fails

Stamp(c) ==
    /\ At(c, "stamp")
    /\ LET s == Goto(call[c], "report") IN
       \/ /\ Wrote(c, [s EXCEPT !.stamped = TRUE])
          /\ record' = [record EXCEPT ![Own] = s.rec] /\ UNCHANGED <<given, row, edges, faults>>
       \/ Become(c, s) /\ Fails

\* The handler's own look for the parent: what is on file may lack the grant.
Report(c) ==
    /\ At(c, "report")
    /\ LET s == call[c] IN
       \/ s.by = Own /\ Become(c, Finish(s, TRUE)) /\ Reads
       \/ s.by # Own /\ ~OnFile(s.by) /\ Become(c, Ask(s, s.by, "source")) /\ Reads
       \/ s.by # Own /\ Become(c, Ask(s, s.by, "source")) /\ Fails
       \/ /\ s.by # Own /\ OnFile(s.by) /\ Reads
          /\ Become(c, IF Ungranted(row[s.by]) THEN Ask(s, s.by, "late") ELSE Finish(s, TRUE))

CallStep(c) ==
    \/ Start(c) \/ Load(c) \/ IngestFile(c) \/ Crawl(c) \/ AskOffice(c) \/ Keep(c) \/ Renew(c) \/ Extend(c)
    \/ ReadParents(c) \/ Follow(c) \/ Enrich(c) \/ Enlist(c) \/ Prefetch(c)
    \/ Adjust(c) \/ Disclaim(c) \/ ReadRecord(c) \/ Store(c) \/ Reread(c) \/ Stamp(c) \/ Report(c)

Next == \E c \in Calls : CallStep(c)

Spec == Init /\ [][Next]_vars

(***************************************************************************)
(* Properties.                                                             *)
(***************************************************************************)
Continues(a, b) == \E r \in Rows(a) : ~r.prov /\ Filed[b] # 0 /\ r.parent = b
Ancestors == LET reach == TransitiveClosure([e \in Apps \X Apps |-> Continues(e[1], e[2])], Apps)
             IN  {a \in Apps : reach[Own, a]}

\* The walk follows every branch, once around a circle, and returns the earliest date of
\* all applications the patent's continues, its own among them, as the store had them -
\* unless a read failed or the store was written to meanwhile.  A chain the office was
\* asked for in the same call is followed too.  (uspto/expiration.go:241-352)
WalkIsTheMinimum ==
    \A c \in Calls : LET s == call[c] IN
        /\ s.pc \in {"enrich", "parent"} /\ "walk" \in s.calm /\ s.whole =>
              LET dates == {Filed[a] : a \in Ancestors} \cup ({s.app.filed} \ {0})
              IN  IF dates = {} THEN s.earliest = 0
                  ELSE s.earliest \in dates /\ \A d \in dates : s.earliest <= d
        /\ s.pc = "adjust" /\ "walk" \in s.calm /\ s.whole =>
              \A r \in s.heard : ~r.prov /\ Filed[r.parent] # 0 => s.earliest <= Filed[r.parent]

\* A computation nobody wrote in since its walk, and whose own writes went through, leaves
\* the record dated as computed, with the office as the source, and the application beside
\* it: what is drawn is what was computed, whatever it was before.
RecordIsStamped ==
    \A c \in Calls : LET s == call[c] IN
        At(c, "done") /\ s.ok /\ "walk" \in s.calm /\ s.kept /\ s.stamped =>
            /\ row[Own].expires = s.app.expires
            /\ s.app.expires # 0 => record[Own].expires = s.app.expires /\ record[Own].src = "uspto"

\* An extension that a lone computation found on file is there when it ends,
\* although the office's search never names it and every answer is stored over it: the
\* extension is kept through a refresh even if the request for the grant fails.
ExtensionIsKept ==
    \A c \in Calls : LET s == call[c] IN
        At(c, "done") /\ "call" \in s.calm /\ s.kept => row[Own].pte >= s.had
=============================================================================
