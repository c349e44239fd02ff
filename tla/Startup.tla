------------------------------ MODULE Startup ------------------------------
(***************************************************************************)
(* The processes that open the database: the daemon (`patentmine serve`)   *)
(* and the tools that read the file beside it (`db`, `replay`,             *)
(* `expiration-date`).  Opening brings a database of any supported version *)
(* to the current one, with a copy kept of what each migration changes     *)
(* (store/sqlite).  A daemon then writes its pid file, binds its socket,   *)
(* serves until it is told to stop, and takes everything down again.  A    *)
(* process may fail or be killed between any two steps: what it has        *)
(* committed, and its files, stay for the next one to find.                *)
(*                                                                         *)
(* A transaction is one step; the statements of schema.sql outside of one  *)
(* are steps of their own where the next process could tell.               *)
(***************************************************************************)
EXTENDS Naturals, FiniteSets

CONSTANTS Serves,   \* daemons, one after another or at once
          Tools,    \* commands on the database file
          Origins,  \* databases found at first
          Careful,  \* people start things one at a time
          Nobody    \* no process

VARIABLES db,       \* the database file
          origin,   \* history: what it was at first
          copies,   \* the file each migration copies the database to
          proc,     \* the processes
          alone,    \* history: no two processes were opening at once
          pidfile,  \* whose pid it names
          socket,   \* whose listener the socket file leads to
          stop      \* the `patentmine stop` command

vars == <<db, origin, copies, proc, alone, pidfile, socket, stop>>

Processes == Serves \union Tools
Current   == 6
NoMeta    == 0   \* no schema_meta table
NoVersion == 1   \* the table, and no version in it
Copied    == 3..5

(***************************************************************************)
(* A database: its version; its patents, under the name of their table;    *)
(* whether every membership has its provenance; the tables made from the   *)
(* sources; the kinds of grants; the ownership timeline; the search index. *)
(***************************************************************************)
Database(v) ==
    [version    |-> v,
     patents    |-> IF v = NoMeta THEN "none" ELSE IF v < 4 THEN "patent" ELSE "record",
     provenance |-> v >= 3,
     derived    |-> IF v = NoMeta THEN "none" ELSE IF v < 4 THEN "old" ELSE "new",
     kinds      |-> v >= 5,
     owners     |-> v >= 6,
     index      |-> IF v = NoMeta THEN "none" ELSE "full"]

Obsolete == [Database(2) EXCEPT !.version = NoMeta]
Narrow   == [Database(Current) EXCEPT !.index = "narrow"]

ASSUME StartupAssumption ==
    /\ Origins \subseteq ({Database(v) : v \in {NoMeta} \union 2..Current} \union {Obsolete, Narrow})
    /\ Careful \in BOOLEAN
    /\ Nobody \notin Processes /\ Serves \intersect Tools = {}

Fresh(pc) == [pc |-> pc, version |-> NoMeta, signalled |-> FALSE]
NoCopy == [by |-> Nobody, of |-> NoMeta, whole |-> FALSE]

Init ==
    /\ db \in Origins /\ origin = db
    /\ copies = [v \in Copied |-> NoCopy]
    /\ proc = [p \in Processes |-> Fresh("idle")]
    /\ alone = TRUE
    /\ pidfile = Nobody /\ socket = Nobody
    /\ stop = [pc |-> "idle", of |-> Nobody]

files   == <<pidfile, socket>>
history == <<origin, alone>>

At(p, pc)     == proc[p].pc = pc
Goto(p, pc)   == proc' = [proc EXCEPT ![p] = IF pc = "ended" THEN Fresh(pc) ELSE [@ EXCEPT !.pc = pc]]
Ended(p)      == At(p, "ended")
OpenStages    == {"inspect", "version", "backup", "copy", "copying", "migrate", "meta", "number", "tables",
                  "require", "narrow", "create", "rebuild", "columns"}
Opening(p)    == proc[p].pc \in OpenStages
MountStages   == {"engine", "unlink", "listen"}

(***************************************************************************)
(* Opening (OpenWithMetrics, initSchema).                                  *)
(***************************************************************************)
\* People, if careful, start a daemon when no other is on its way up and the pid file is
\* gone or names one that has ended, and open an old database with one command at a time.
MayStart(p) ==
    /\ \A q \in Processes : Opening(q) => db.version \notin {2, 3}
    /\ p \in Serves => /\ stop.pc = "idle"
                       /\ pidfile # Nobody => Ended(pidfile)
                       /\ \A q \in Serves : ~Opening(q) /\ proc[q].pc \notin MountStages

Start(p) ==
    /\ At(p, "idle") /\ (Careful => MayStart(p))
    /\ Goto(p, "inspect")
    /\ alone' = (alone /\ \A q \in Processes : ~Opening(q))
    /\ UNCHANGED <<db, origin, copies, files, stop>>

\* Whatever is wrong, and if it is a signal or a kill: the command ends, and its
\* transaction, if it is in one, is rolled back.
OpenFails(p) ==
    /\ Opening(p) /\ Goto(p, "ended")
    /\ UNCHANGED <<db, history, copies, files, stop>>

Step(p, pc) == At(p, pc) /\ UNCHANGED <<history, files, stop>>

\* rejectObsoleteSchema
Inspect(p) ==
    /\ Step(p, "inspect") /\ UNCHANGED <<db, copies>>
    /\ Goto(p, IF db.version = NoMeta /\ db.patents # "none" THEN "ended" ELSE "version")

\* Version 2 is left without a copy.
NextFrom(v) == CASE v = 2 -> "migrate" [] v \in Copied -> "backup" [] v = Current -> "meta"

\* migrate: the version is read once, and then counted.
ReadVersion(p) ==
    /\ Step(p, "version") /\ UNCHANGED <<db, copies>>
    /\ proc' = [proc EXCEPT ![p].version = db.version,
                            ![p].pc = CASE db.version = NoMeta    -> "meta"
                                        [] db.version = NoVersion -> "ended"
                                        [] OTHER                  -> NextFrom(db.version)]

\* A slip: the newest migration copies over the oldest one's file.
CopyOfOldName(p) == IF proc[p].version = 5 THEN 3 ELSE proc[p].version

\* The copy a process is making, named for the version it is to hold.
CopyOf(p) == proc[p].version

\* Backup: an older copy is removed; VACUUM INTO writes to no file that is there.
RemoveOldCopy(p) ==
    /\ Step(p, "backup") /\ Goto(p, "copy")
    /\ copies' = [copies EXCEPT ![CopyOf(p)] = NoCopy]
    /\ UNCHANGED db

StartCopy(p) ==
    /\ Step(p, "copy") /\ UNCHANGED db
    /\ IF copies[CopyOf(p)] = NoCopy
       THEN /\ copies' = [copies EXCEPT ![CopyOf(p)] = [by |-> p, of |-> db.version, whole |-> FALSE]]
            /\ Goto(p, "copying")
       ELSE Goto(p, "ended") /\ UNCHANGED copies

FinishCopy(p) ==
    /\ Step(p, "copying") /\ Goto(p, "migrate")
    /\ copies' = [copies EXCEPT ![CopyOf(p)].whole = @ \/ copies[CopyOf(p)].by = p]
    /\ UNCHANGED db

\* migrateV2ToV3 ... migrateV5ToV6, each with its new version in one transaction.
\* A slip: the new tables are committed and the version is left for schema.sql to write.
MigratedUnnumbered(d, v) ==
    CASE v = 2 -> [d EXCEPT !.provenance = TRUE, !.version = 3]
      [] v = 3 -> [d EXCEPT !.patents = "record", !.derived = "none", !.index = "none"]
      [] v = 4 -> [d EXCEPT !.kinds = @ \/ d.derived # "none", !.version = 5]
      [] v = 5 -> [d EXCEPT !.owners = TRUE, !.version = 6]

Migrated(d, v) ==
    CASE v = 2 -> [d EXCEPT !.provenance = TRUE, !.version = 3]
      [] v = 3 -> [d EXCEPT !.patents = "record", !.derived = "none", !.index = "none", !.version = 4]
      [] v = 4 -> [d EXCEPT !.kinds = @ \/ d.derived # "none", !.version = 5]
      [] v = 5 -> [d EXCEPT !.owners = TRUE, !.version = 6]

\* Only the renaming of the table of patents notices that it has been done.
Migrate(p) ==
    LET v == proc[p].version
    IN  /\ Step(p, "migrate") /\ UNCHANGED copies
        /\ IF v = 3 /\ db.patents # "patent"
           THEN Goto(p, "ended") /\ UNCHANGED db
           ELSE /\ db' = Migrated(db, v)
                /\ proc' = [proc EXCEPT ![p].version = v + 1, ![p].pc = NextFrom(v + 1)]

\* schema.sql: its first two statements, and the rest of them.
CreateMeta(p) ==
    /\ Step(p, "meta") /\ Goto(p, "number") /\ UNCHANGED copies
    /\ db' = [db EXCEPT !.version = IF @ = NoMeta THEN NoVersion ELSE @]

WriteVersion(p) ==
    /\ Step(p, "number") /\ Goto(p, "tables") /\ UNCHANGED copies
    /\ db' = [db EXCEPT !.version = IF @ = NoVersion THEN Current ELSE @]

\* An index that is created has nothing in it; one of no patents is full.
CreateTables(p) ==
    /\ Step(p, "tables") /\ Goto(p, "require") /\ UNCHANGED copies
    /\ db' = [db EXCEPT !.patents = "record", !.provenance = TRUE, !.owners = TRUE,
                        !.derived = IF @ = "none" THEN "new" ELSE @,
                        !.index = IF @ # "none" THEN @
                                  ELSE IF db.patents = "none" THEN "full" ELSE "empty"]

RequireVersion(p) ==
    /\ Step(p, "require") /\ UNCHANGED <<db, copies>>
    /\ Goto(p, IF db.version = Current THEN "narrow" ELSE "ended")

\* ensureClassificationsFTSColumn: an index of the old columns is dropped, created, filled.
DropNarrowIndex(p) ==
    /\ Step(p, "narrow") /\ UNCHANGED copies
    /\ IF db.index = "narrow"
       THEN db' = [db EXCEPT !.index = "none"] /\ Goto(p, "create")
       ELSE Goto(p, "columns") /\ UNCHANGED db

CreateIndex(p) ==
    /\ Step(p, "create") /\ UNCHANGED copies
    /\ IF db.index = "none"
       THEN db' = [db EXCEPT !.index = "empty"] /\ Goto(p, "rebuild")
       ELSE Goto(p, "ended") /\ UNCHANGED db

RebuildIndex(p) ==
    /\ Step(p, "rebuild") /\ Goto(p, "columns") /\ UNCHANGED copies
    /\ db' = [db EXCEPT !.index = "full"]

\* syncFTS compares the counts of the patents and of the index; the index keeps no rows
\* of its own and counts those of the patents, so it is never rebuilt here.  The columns
\* added next are added if they can be.  What a tool does then - count, copy, compact -
\* changes nothing that is modelled.
Opened(p) ==
    /\ Step(p, "columns") /\ UNCHANGED <<db, copies>>
    /\ proc' = [proc EXCEPT ![p] = Fresh(IF p \in Serves THEN "engine" ELSE "ended")]

(***************************************************************************)
(* runServe, once the database is open.                                    *)
(***************************************************************************)
Serve(p, pc) == At(p, pc) /\ UNCHANGED <<db, history, copies, stop>>

WritePID(p) ==
    /\ Serve(p, "engine") /\ UNCHANGED socket
    /\ \/ pidfile' = p /\ Goto(p, "unlink")
       \/ UNCHANGED pidfile /\ Goto(p, "drain")

\* A socket left behind is removed, whose it may be.
ClearSocket(p) ==
    /\ Serve(p, "unlink") /\ UNCHANGED pidfile
    /\ \/ socket' = Nobody /\ Goto(p, "listen")
       \/ UNCHANGED socket /\ Goto(p, "unpid")

Listen(p) ==
    /\ Serve(p, "listen") /\ UNCHANGED pidfile
    /\ IF socket = Nobody
       THEN socket' = p /\ Goto(p, "serving")
       ELSE UNCHANGED socket /\ Goto(p, "unpid")

\* rpc.Server.Serve closes the listener, which removes its file, and returns.
CloseListener(p) ==
    /\ Serve(p, "serving") /\ proc[p].signalled /\ UNCHANGED pidfile
    /\ socket' = Nobody /\ Goto(p, "snapshot")

AcceptFails(p) ==
    /\ Serve(p, "serving") /\ ~proc[p].signalled /\ Goto(p, "unsocket") /\ UNCHANGED files

\* The copy at shutdown, or its failure; then what was deferred, the last first.
ShutdownBackup(p) ==
    /\ Serve(p, "snapshot") /\ Goto(p, "unsocket") /\ UNCHANGED files

\* A slip: the pid file goes first.
RemovedFirstThePID(pc) == IF pc = "unsocket" THEN "pid" ELSE "socket"

\* Which file goes in which of the two deferred steps: the socket's first.
Removed(pc) == IF pc = "unsocket" THEN "socket" ELSE "pid"

TakeDown(p) ==
    \E pc \in {"unsocket", "unpid"} :
        /\ Serve(p, pc) /\ Goto(p, IF pc = "unsocket" THEN "unpid" ELSE "drain")
        /\ IF Removed(pc) = "socket"
           THEN socket' = Nobody /\ UNCHANGED pidfile
           ELSE pidfile' = Nobody /\ UNCHANGED socket

\* Engine.Close waits for the jobs under way; the store is closed after it.
CloseEngine(p) ==
    /\ Serve(p, "drain") /\ Goto(p, "ended") /\ UNCHANGED files

(***************************************************************************)
(* From outside.                                                           *)
(***************************************************************************)
Kill(p) ==
    /\ proc[p].pc \notin OpenStages \union {"idle", "ended"} /\ Goto(p, "ended")
    /\ UNCHANGED <<db, history, copies, files, stop>>

Interrupt(p) ==
    /\ p \in Serves /\ proc[p].pc \notin OpenStages \union {"idle", "ended"}
    /\ proc' = [proc EXCEPT ![p].signalled = TRUE]
    /\ UNCHANGED <<db, history, copies, files, stop>>

(***************************************************************************)
(* runStop: read the pid, signal the process, wait for the file to go.     *)
(***************************************************************************)
ReadPID ==
    /\ stop.pc = "idle"
    /\ Careful => \A p \in Serves : ~Opening(p) /\ proc[p].pc \notin MountStages
    /\ pidfile # Nobody /\ stop' = [pc |-> "signal", of |-> pidfile]
    /\ UNCHANGED <<db, history, copies, proc, files>>

\* The file of a process that is gone is removed.
SignalDaemon ==
    /\ stop.pc = "signal" /\ UNCHANGED <<db, history, copies, socket>>
    /\ IF Ended(stop.of)
       THEN pidfile' = Nobody /\ stop' = [stop EXCEPT !.pc = "idle"] /\ UNCHANGED proc
       ELSE /\ proc' = [proc EXCEPT ![stop.of].signalled = TRUE]
            /\ stop' = [stop EXCEPT !.pc = "poll"] /\ UNCHANGED pidfile

\* "stopped" when the file is gone; after five seconds it gives up.
PollPID ==
    /\ stop.pc = "poll" /\ stop' = [stop EXCEPT !.pc = "idle"]
    /\ UNCHANGED <<db, history, copies, proc, files>>

Next ==
    \/ \E p \in Processes :
          \/ Start(p) \/ OpenFails(p) \/ Inspect(p) \/ ReadVersion(p) \/ RemoveOldCopy(p) \/ StartCopy(p)
          \/ FinishCopy(p) \/ Migrate(p) \/ CreateMeta(p) \/ WriteVersion(p) \/ CreateTables(p)
          \/ RequireVersion(p) \/ DropNarrowIndex(p) \/ CreateIndex(p) \/ RebuildIndex(p) \/ Opened(p)
          \/ WritePID(p) \/ ClearSocket(p) \/ Listen(p) \/ CloseListener(p) \/ AcceptFails(p)
          \/ ShutdownBackup(p) \/ TakeDown(p) \/ CloseEngine(p) \/ Kill(p) \/ Interrupt(p)
    \/ ReadPID \/ SignalDaemon \/ PollPID

Spec == Init /\ [][Next]_vars

(***************************************************************************)
(* Properties.                                                             *)
(***************************************************************************)
\* Wherever the processes that open a database fail or are killed, and however their steps
\* mix on one of version 4 or later, the number in it tells the tables it has: the next
\* one to open it starts from the right migration.  Left out: a new file whose first
\* process ended between its first two statements (no number: it is refused from then on).
NumberTellsTheTables ==
    /\ db.version = NoVersion => origin = Database(NoMeta)
    /\ db.version \in 2..Current /\ db.patents # "none" =>
           /\ db.patents = (IF db.version < 4 THEN "patent" ELSE "record")
           /\ db.version < 4 <=> db.derived = "old"
           /\ db.version >= 3 => db.provenance
           /\ db.version = Current => db.owners

\* Of a database on which no two processes were opening at once, a whole copy of each
\* version it has passed is kept beside it (backupBeforeMigration: "a clean restore point
\* if anything goes wrong"), whatever was cut off and done again.
RestorePointsAreKept ==
    alone /\ origin.version >= 2 =>
        \A v \in Copied : origin.version <= v /\ v < db.version => copies[v].whole /\ copies[v].of = v

\* If daemons are started one at a time, each when the pid file is gone or names one that
\* has ended, then clients reach the one that serves, and stop finds it: what the last one
\* takes down on its way out is never the new one's.
ServingIsReachable ==
    \A p \in Serves : At(p, "serving") /\ ~proc[p].signalled => socket = p /\ pidfile = p

\* When stop says that the daemon has stopped, the daemon it signalled takes no more
\* clients - its jobs may still be ending.
StoppedIsDown ==
    [][stop.pc = "poll" /\ stop'.pc = "idle" /\ pidfile = Nobody =>
           proc[stop.of].pc \in {"drain", "ended"}]_vars

\* Every patent can be found by searching once the database is open.
\* (sqlite.go:394-396: syncFTS rebuilds the index "when the two are out of step".)
SearchSeesEveryPatent ==
    \A p \in Serves : At(p, "serving") => db.index = "full"
=============================================================================
