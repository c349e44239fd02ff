---------------------------- MODULE ListingCache ----------------------------
(***************************************************************************)
(* The daemon's listing cache (internal/store/cache.go): a wrapper of the  *)
(* repository that keeps the rows and the total of each listing query and  *)
(* forgets them all on every write.  Readers look up, read the store twice *)
(* and fill the cache in steps that hold no common lock; writers commit to *)
(* the store and flush afterwards; crawls suspend the cache meanwhile.     *)
(*                                                                         *)
(* The content of the store is the set of writes it has seen, the answer   *)
(* to a query the set of writes it reflects: a listing is stale when it    *)
(* misses some.  Every write may show in every listing.                    *)
(***************************************************************************)
EXTENDS Integers, FiniteSets

CONSTANTS
  Edits,     \* calls of a modifying Repository method
  Forgetful,  \* those of a method that Cache does not override
  Readers,    \* calls of ListPatents or CountPatents
  Crawls,     \* calls of Crawler.crawl, each a SuspendCaching holder
  Queries,    \* the cache keys
  NoEntry     \* a key that is not in c.lists

\* listResult, with a note of the writes its fill was overtaken by.
Entry == [rows : SUBSET Edits, total : SUBSET Edits, late : SUBSET Edits]

ASSUME CacheAssumption ==
  /\ Forgetful \subseteq Edits
  /\ IsFiniteSet(Crawls)
  /\ NoEntry \notin Entry

VARIABLES
  write,     \* of each write: "new", "committed", "done", "failed"
  lists,     \* c.lists
  suspend,   \* c.suspend
  crawl,     \* of each crawl: "new", "running", "released", "ended"
  step,      \* how far each reader has come
  query,     \* the key it asks for
  rows,      \* what it has read, and finally answers
  total,     \* the total it has read to go with the rows
  promised,  \* the writes its answer ought to reflect
  sheltered  \* the readers that began while a crawl was running

storeVars == <<write, lists, suspend, crawl>>
readVars == <<step, query, rows, total, promised, sheltered>>
cacheVars == <<storeVars, readVars>>

CacheInit ==
  /\ write = [w \in Edits |-> "new"]
  /\ lists = [q \in Queries |-> NoEntry]
  /\ suspend = 0
  /\ crawl = [c \in Crawls |-> "new"]
  /\ step = [r \in Readers |-> "new"]
  /\ query \in [Readers -> Queries]
  /\ rows = [r \in Readers |-> {}]
  /\ total = [r \in Readers |-> {}]
  /\ promised = [r \in Readers |-> {}]
  /\ sheltered = {}

\* What a read of the store reflects.
Stored == {w \in Edits : write[w] \in {"committed", "done"}}

Returned == {w \in Edits : write[w] = "done"}

Running == {c \in Crawls : crawl[c] = "running"}

Flushed == [q \in Queries |-> NoEntry]

-----------------------------------------------------------------------------
\* c.Repository.<method> returns without an error.
Commit(w) ==
  /\ write[w] = "new"
  /\ write' = [write EXCEPT ![w] = IF w \in Forgetful THEN "done" ELSE "committed"]
  /\ UNCHANGED <<lists, suspend, crawl, readVars>>

\* It returns an error: the store is unchanged and nothing is flushed.
CommitFails(w) ==
  /\ write[w] = "new"
  /\ write' = [write EXCEPT ![w] = "failed"]
  /\ UNCHANGED <<lists, suspend, crawl, readVars>>

\* A slip: an override forwards the write and forgets to flush.
FlushOmitted(w) ==
  /\ write[w] = "committed"
  /\ write' = [write EXCEPT ![w] = "done"]
  /\ UNCHANGED <<lists, suspend, crawl, readVars>>

\* c.flush(), and the write returns to its caller.
Flush(w) ==
  /\ write[w] = "committed"
  /\ write' = [write EXCEPT ![w] = "done"]
  /\ lists' = Flushed
  /\ UNCHANGED <<suspend, crawl, readVars>>

-----------------------------------------------------------------------------
SuspendCaching(c) ==
  /\ crawl[c] = "new"
  /\ crawl' = [crawl EXCEPT ![c] = "running"]
  /\ suspend' = suspend + 1
  /\ UNCHANGED <<write, lists, readVars>>

\* A slip: one crawl's end lifts the suspension of the others.
ReleaseAll(c) ==
  /\ crawl[c] = "running"
  /\ suspend' = 0
  /\ crawl' = [crawl EXCEPT ![c] = "released"]
  /\ UNCHANGED <<write, lists, readVars>>

\* ResumeCaching, its c.suspend.Add(-1); only the last holder goes on to flush.
Release(c) ==
  /\ crawl[c] = "running"
  /\ suspend' = suspend - 1
  /\ crawl' = [crawl EXCEPT ![c] = IF suspend - 1 <= 0 THEN "released" ELSE "ended"]
  /\ UNCHANGED <<write, lists, readVars>>

ResumeFlush(c) ==
  /\ crawl[c] = "released"
  /\ crawl' = [crawl EXCEPT ![c] = "ended"]
  /\ lists' = Flushed
  /\ UNCHANGED <<write, suspend, readVars>>

-----------------------------------------------------------------------------
(***************************************************************************)
(* c.suspended(), the first thing ListPatents and CountPatents do.  What   *)
(* the caller may count on is fixed here: during a crawl everything that   *)
(* is stored, and nothing otherwise.                                       *)
(***************************************************************************)
Begin(r) ==
  /\ step[r] = "new"
  /\ step' = [step EXCEPT ![r] = IF suspend > 0 THEN "bypass" ELSE "lookup"]
  /\ promised' = [promised EXCEPT ![r] = IF Running # {} THEN Stored ELSE {}]
  /\ sheltered' = IF Running # {} THEN sheltered \union {r} ELSE sheltered
  /\ UNCHANGED <<storeVars, query, rows, total>>

Answer(r, answer) ==
  /\ step' = [step EXCEPT ![r] = "answered"]
  /\ rows' = [rows EXCEPT ![r] = answer]
  /\ UNCHANGED <<storeVars, query, total, promised, sheltered>>

\* The cache is suspended: ListPatents or CountPatents of the store.
ReadThrough(r) == step[r] = "bypass" /\ Answer(r, Stored)

\* ListPatents finds the key under c.mu.RLock; its rows are the answer.
HitList(r) ==
  /\ step[r] = "lookup"
  /\ lists[query[r]] # NoEntry
  /\ Answer(r, lists[query[r]].rows)

\* CountPatents finds it; the answer is the total the entry carries.
HitCount(r) ==
  /\ step[r] = "lookup"
  /\ lists[query[r]] # NoEntry
  /\ Answer(r, lists[query[r]].total)

\* CountPatents does not find it, asks the store and fills nothing.
MissCount(r) ==
  /\ step[r] = "lookup"
  /\ lists[query[r]] = NoEntry
  /\ step' = [step EXCEPT ![r] = "bypass"]
  /\ UNCHANGED <<storeVars, query, rows, total, promised, sheltered>>

\* ListPatents does not find it.
MissList(r) ==
  /\ step[r] = "lookup"
  /\ lists[query[r]] = NoEntry
  /\ step' = [step EXCEPT ![r] = "listing"]
  /\ UNCHANGED <<storeVars, query, rows, total, promised, sheltered>>

\* c.Repository.ListPatents, then c.Repository.CountPatents.
ReadRows(r) ==
  /\ step[r] = "listing"
  /\ step' = [step EXCEPT ![r] = "counting"]
  /\ rows' = [rows EXCEPT ![r] = Stored]
  /\ UNCHANGED <<storeVars, query, total, promised, sheltered>>

ReadTotal(r) ==
  /\ step[r] = "counting"
  /\ step' = [step EXCEPT ![r] = "filling"]
  /\ total' = [total EXCEPT ![r] = Stored]
  /\ UNCHANGED <<storeVars, query, rows, promised, sheltered>>

(***************************************************************************)
(* c.lists[key] = listResult{...}, under c.mu but without a second look at *)
(* the store or at c.suspend.  "late" records the writes that committed    *)
(* and flushed while this call held rows read before them.                 *)
(***************************************************************************)
Fill(r) ==
  /\ step[r] = "filling"
  /\ lists' = [lists EXCEPT ![query[r]] =
       [rows |-> rows[r], total |-> total[r], late |-> Returned \ rows[r]]]
  /\ step' = [step EXCEPT ![r] = "answered"]
  /\ UNCHANGED <<write, suspend, crawl, query, rows, total, promised,
                 sheltered>>

\* Either read of the store fails: the caller gets the error, nothing is filled.
ReadFails(r) ==
  /\ step[r] \in {"bypass", "listing", "counting"}
  /\ step' = [step EXCEPT ![r] = "failed"]
  /\ UNCHANGED <<storeVars, query, rows, total, promised, sheltered>>

Modify(w) == Commit(w) \/ CommitFails(w) \/ Flush(w)

Crawl(c) == SuspendCaching(c) \/ Release(c) \/ ResumeFlush(c)

ListOrCount(r) ==
  \/ Begin(r) \/ ReadThrough(r)
  \/ HitList(r) \/ MissList(r) \/ ReadRows(r) \/ ReadTotal(r) \/ Fill(r)
  \/ HitCount(r) \/ MissCount(r)
  \/ ReadFails(r)

CacheNext ==
  \/ \E w \in Edits : Modify(w)
  \/ \E c \in Crawls : Crawl(c)
  \/ \E r \in Readers : ListOrCount(r)

CacheSpec == CacheInit /\ [][CacheNext]_cacheVars

-----------------------------------------------------------------------------
CacheTypeOK ==
  /\ write \in [Edits -> {"new", "committed", "done", "failed"}]
  /\ lists \in [Queries -> Entry \union {NoEntry}]
  /\ suspend \in 0 .. Cardinality(Crawls)
  /\ crawl \in [Crawls -> {"new", "running", "released", "ended"}]
  /\ step \in [Readers -> {"new", "bypass", "lookup", "listing", "counting",
                           "filling", "answered", "failed"}]
  /\ query \in [Readers -> Queries]
  /\ rows \in [Readers -> SUBSET Edits]
  /\ total \in [Readers -> SUBSET Edits]
  /\ promised \in [Readers -> SUBSET Edits]
  /\ sheltered \subseteq Readers

(***************************************************************************)
(* What flushing after every commit achieves (cache.go:14-17): a cached    *)
(* listing misses a stored write only while that write still owes its      *)
(* flush, or because the write's method is not overridden, or because the  *)
(* write committed and flushed behind the back of the call that filled it. *)
(***************************************************************************)
StaleForAReason ==
  \A q \in Queries :
    lists[q] # NoEntry =>
      \A w \in Stored \ lists[q].rows :
        write[w] = "committed" \/ w \in Forgetful \/ w \in lists[q].late

(***************************************************************************)
(* A total is never older than the rows it is cached with: the pair a      *)
(* client pages with comes from one fill, list first (cache.go:84-98).     *)
(***************************************************************************)
TotalCoversRows ==
  \A q \in Queries : lists[q] # NoEntry => lists[q].rows \subseteq lists[q].total

(***************************************************************************)
(* "While caching is suspended listings are read straight through and      *)
(* never stored" (cache.go:19-21): a listing begun while any crawl runs    *)
(* reflects every write that was stored when it began, however the         *)
(* suspensions of several crawls nest.                                     *)
(***************************************************************************)
CrawlTimeReadsAreFresh ==
  \A r \in sheltered : step[r] = "answered" => promised[r] \subseteq rows[r]
=============================================================================
