---------------------------- MODULE StartupProofs ----------------------------
(***************************************************************************)
(* Safety of Startup for any processes and any supported databases: the    *)
(* version in the file tells its tables, restore points are kept, clients  *)
(* reach the daemon that serves, and what stop reports is so.              *)
(***************************************************************************)
EXTENDS Startup, TLAPS

Databases == [version : 0..Current, patents : {"none", "patent", "record"}, provenance : BOOLEAN,
              derived : {"none", "old", "new"}, kinds : BOOLEAN, owners : BOOLEAN,
              index : {"none", "empty", "narrow", "full"}]

Holding == {"unlink", "listen", "serving", "snapshot", "unsocket", "unpid"}
Migrating == {"backup", "copy", "copying", "migrate"}
Filling   == {"tables", "require", "narrow", "create", "rebuild", "columns"}
Stages == OpenStages \union Holding \union {"idle", "engine", "drain", "ended"}

\* Only daemons get further than opening, and only supported versions are migrated.
Serving(p)  == proc[p].pc \in Holding \union {"engine", "drain"} => p \in Serves
Counting(p) == proc[p].pc \in Migrating =>
                 proc[p].version \in 2..5 /\ (proc[p].pc # "migrate" => proc[p].version \in Copied)

TypeOK ==
  /\ db \in Databases /\ origin \in Origins /\ alone \in BOOLEAN
  /\ copies \in [Copied -> [by : Processes \union {Nobody}, of : 0..Current, whole : BOOLEAN]]
  /\ proc \in [Processes -> [pc : Stages, version : 0..Current, signalled : BOOLEAN]]
  /\ pidfile \in Serves \union {Nobody} /\ socket \in Serves \union {Nobody}
  /\ stop \in [pc : {"idle", "signal", "poll"}, of : Serves \union {Nobody}]
  /\ \A p \in Processes : Serving(p) /\ Counting(p)

\* A process migrates from the version it has counted to.  Only from version 4 on can
\* another process be ahead of it.
MigratingFrom(p) ==
  LET v == proc[p].version
  IN  proc[p].pc \in Migrating =>
        /\ v \in 2..3 => db.version = v
        /\ v \in 4..5 => db.version >= v

\* A process that writes the schema found a database that is new or has been migrated.
SchemaOver(p) ==
  /\ proc[p].pc = "meta" => db.version \notin 2..4
  /\ proc[p].pc = "number" => db.version \notin {NoMeta} \union 2..4
  /\ proc[p].pc \in Filling => db.version \in 5..Current

OnlyOneOpens == \A p, q \in Processes : Opening(p) /\ Opening(q) => p = q

\* What the file says of itself, if it is not of version 2 or 3 or people are careful.
Guarded == Careful \/ origin.version \notin 2..3

NumberExact ==
  /\ origin.version \notin 2..3 => db.version \notin 2..3
  /\ db.version \in 2..3 => OnlyOneOpens
  /\ \A p \in Processes : MigratingFrom(p) /\ SchemaOver(p)
  /\ db.version = NoMeta => db = origin
  /\ db.version = NoVersion => origin = Database(NoMeta) /\ db = [origin EXCEPT !.version = NoVersion]
  /\ origin = Obsolete => db = origin /\ \A p \in Processes : proc[p].pc \in {"idle", "inspect", "ended"}
  /\ db.patents = "none" => db.derived = "none"
  /\ NumberTellsTheTables

\* While processes open the database one after another, the one that migrates is at the
\* version of the file, and its copy is whole before it changes anything.
CopyReady(p) ==
  LET v == proc[p].version
  IN  /\ proc[p].pc \in Migrating => db.version = v
      /\ proc[p].pc = "copying" => copies[v].by = p /\ copies[v].of = v
      /\ proc[p].pc = "migrate" /\ v \in Copied => copies[v].whole /\ copies[v].of = v

CopiesExact ==
  /\ origin.version >= 2 => db.version >= 2
  /\ alone => OnlyOneOpens /\ \A p \in Processes : CopyReady(p)
  /\ RestorePointsAreKept

\* Daemons between their start and the removal of their pid file.
Daemons == {p \in Serves : Opening(p) \/ proc[p].pc \in {"engine"} \union Holding}

\* If people are careful there is one at most; the files are its own, and stop
\* speaks to it.
FilesExact ==
  /\ \A p, q \in Daemons : p = q
  /\ \A p \in Serves : /\ proc[p].pc \in Holding => pidfile = p
                       /\ proc[p].pc = "serving" => socket = p
  /\ pidfile # Nobody => proc[pidfile].pc \in Holding \union {"ended"}
  /\ stop.pc # "idle" =>
       /\ \A p \in Serves : ~Opening(p) /\ proc[p].pc \notin MountStages
       /\ \A p \in Daemons : p = stop.of
       /\ stop.of # Nobody /\ proc[stop.of].pc \in Holding \union {"drain", "ended"}

IInv == TypeOK /\ (Guarded => NumberExact) /\ CopiesExact /\ (Careful => FilesExact)

-----------------------------------------------------------------------------
(* Moves of a process. *)

OnlyMoves(p) == \A q \in Processes \ {p} : proc'[q] = proc[q]

LEMMA GotoMoves ==
  ASSUME TypeOK, NEW p \in Processes, NEW pc \in Stages, Goto(p, pc)
  PROVE  /\ OnlyMoves(p) /\ proc'[p].pc = pc
         /\ proc'[p].version = IF pc = "ended" THEN NoMeta ELSE proc[p].version
         /\ proc' \in [Processes -> [pc : Stages, version : 0..Current, signalled : BOOLEAN]]
<1>1. CASE pc = "ended"
  <2>1. proc' = [proc EXCEPT ![p] = Fresh("ended")] BY <1>1 DEF Goto
  <2>2. /\ Fresh("ended") \in [pc : Stages, version : 0..Current, signalled : BOOLEAN]
        /\ Fresh("ended").pc = "ended" /\ Fresh("ended").version = NoMeta
    BY <1>1 DEF Fresh, NoMeta, Current
  <2> QED BY <1>1, <2>1, <2>2 DEF OnlyMoves, TypeOK
<1>2. CASE pc # "ended"
  BY <1>2 DEF Goto, OnlyMoves, TypeOK
<1> QED BY <1>1, <1>2

\* The steps of a process that opens the database, each with the stage it starts from.
LEMMA OpeningMoves ==
  ASSUME TypeOK, NEW p \in Processes
  PROVE  /\ OpenFails(p) => Goto(p, "ended") /\ Opening(p)
         /\ Inspect(p) => At(p, "inspect") /\ (Goto(p, "ended") \/ Goto(p, "version"))
         /\ RemoveOldCopy(p) => At(p, "backup") /\ Goto(p, "copy")
         /\ StartCopy(p) => At(p, "copy") /\ (Goto(p, "copying") \/ Goto(p, "ended"))
         /\ FinishCopy(p) => At(p, "copying") /\ Goto(p, "migrate")
         /\ CreateMeta(p) => At(p, "meta") /\ Goto(p, "number")
         /\ WriteVersion(p) => At(p, "number") /\ Goto(p, "tables")
         /\ CreateTables(p) => At(p, "tables") /\ Goto(p, "require")
         /\ RequireVersion(p) => At(p, "require") /\ (Goto(p, "narrow") \/ Goto(p, "ended"))
         /\ DropNarrowIndex(p) => At(p, "narrow") /\ (Goto(p, "create") \/ Goto(p, "columns"))
         /\ CreateIndex(p) => At(p, "create") /\ (Goto(p, "rebuild") \/ Goto(p, "ended"))
         /\ RebuildIndex(p) => At(p, "rebuild") /\ Goto(p, "columns")
BY DEF OpenFails, Inspect, RemoveOldCopy, StartCopy, FinishCopy, CreateMeta, WriteVersion, CreateTables,
       RequireVersion, DropNarrowIndex, CreateIndex, RebuildIndex, Step

LEMMA DatabasesTyped ==
  /\ \A v \in {NoMeta} \union 2..Current : Database(v) \in Databases /\ Database(v).version = v
  /\ Obsolete \in Databases /\ Narrow \in Databases
<1>1. \A v \in {NoMeta} \union 2..Current : Database(v) \in Databases /\ Database(v).version = v
  BY DEF Database, Databases, NoMeta, Current
<1>2. Database(2) \in Databases /\ Database(6) \in Databases BY <1>1 DEF Current
<1>3. Obsolete \in Databases BY <1>2 DEF Obsolete, Databases, NoMeta, Current
<1>4. Narrow \in Databases BY <1>2 DEF Narrow, Databases, Current
<1> QED BY <1>1, <1>3, <1>4

\* Writing one field of a database.
LEMMA FieldsTyped ==
  ASSUME NEW d \in Databases
  PROVE  /\ \A x \in 0..Current : [d EXCEPT !.version = x] \in Databases /\ [d EXCEPT !.version = x].version = x
         /\ \A x \in {"none", "patent", "record"} : [d EXCEPT !.patents = x] \in Databases
         /\ \A x \in {"none", "old", "new"} : [d EXCEPT !.derived = x] \in Databases
         /\ \A x \in {"none", "empty", "narrow", "full"} : [d EXCEPT !.index = x] \in Databases
         /\ \A x \in BOOLEAN : [d EXCEPT !.provenance = x] \in Databases
         /\ \A x \in BOOLEAN : [d EXCEPT !.kinds = x] \in Databases
         /\ \A x \in BOOLEAN : [d EXCEPT !.owners = x] \in Databases
BY DEF Databases

LEMMA MigratedFields ==
  ASSUME NEW d \in Databases
  PROVE  /\ Migrated(d, 2) = [[d EXCEPT !.provenance = TRUE] EXCEPT !.version = 3]
         /\ Migrated(d, 3) = [[[[d EXCEPT !.patents = "record"] EXCEPT !.derived = "none"]
                               EXCEPT !.index = "none"] EXCEPT !.version = 4]
         /\ \E b \in BOOLEAN : Migrated(d, 4) = [[d EXCEPT !.kinds = b] EXCEPT !.version = 5]
         /\ Migrated(d, 5) = [[d EXCEPT !.owners = TRUE] EXCEPT !.version = 6]
<1>1. Migrated(d, 2) = [[d EXCEPT !.provenance = TRUE] EXCEPT !.version = 3] BY DEF Migrated
<1>2. Migrated(d, 3) = [[[[d EXCEPT !.patents = "record"] EXCEPT !.derived = "none"]
                        EXCEPT !.index = "none"] EXCEPT !.version = 4]
  BY DEF Migrated
<1>3. Migrated(d, 4) = [[d EXCEPT !.kinds = d.kinds \/ d.derived # "none"] EXCEPT !.version = 5]
  BY DEF Migrated
<1>4. (d.kinds \/ d.derived # "none") \in BOOLEAN OBVIOUS
<1>5. Migrated(d, 5) = [[d EXCEPT !.owners = TRUE] EXCEPT !.version = 6] BY DEF Migrated
<1> QED BY <1>1, <1>2, <1>3, <1>4, <1>5

LEMMA MigratedTyped ==
  ASSUME NEW d \in Databases, NEW v \in 2..5
  PROVE  Migrated(d, v) \in Databases /\ Migrated(d, v).version = v + 1
<1>0. 2 + 1 = 3 /\ 3 + 1 = 4 /\ 4 + 1 = 5 /\ 5 + 1 = 6 /\ {3, 4, 5, 6} \subseteq 0..Current BY DEF Current
<1>1. CASE v = 2
  <2> DEFINE e == [d EXCEPT !.provenance = TRUE]
  <2>6. Migrated(d, 2) = [e EXCEPT !.version = 3] BY MigratedFields
  <2>7. e \in Databases BY FieldsTyped
  <2> HIDE DEF e
  <2>8. [e EXCEPT !.version = 3] \in Databases /\ [e EXCEPT !.version = 3].version = 3
    BY <2>7, FieldsTyped, <1>0, Zenon
  <2> QED BY <1>1, <2>6, <2>8, <1>0
<1>2. CASE v = 3
  <2> DEFINE c == [d EXCEPT !.patents = "record"]
             b == [c EXCEPT !.derived = "none"]
             e == [b EXCEPT !.index = "none"]
  <2>6. Migrated(d, 3) = [e EXCEPT !.version = 4] BY MigratedFields
  <2>1. c \in Databases BY FieldsTyped
  <2> HIDE DEF c
  <2>2. b \in Databases BY <2>1, FieldsTyped
  <2> HIDE DEF b
  <2>7. e \in Databases BY <2>2, FieldsTyped
  <2> HIDE DEF e
  <2>8. [e EXCEPT !.version = 4] \in Databases /\ [e EXCEPT !.version = 4].version = 4
    BY <2>7, FieldsTyped, <1>0, Zenon
  <2> QED BY <1>2, <2>6, <2>8, <1>0
<1>3. CASE v = 4
  <2>1. PICK b \in BOOLEAN : Migrated(d, 4) = [[d EXCEPT !.kinds = b] EXCEPT !.version = 5]
    BY MigratedFields
  <2> DEFINE e == [d EXCEPT !.kinds = b]
  <2>6. Migrated(d, 4) = [e EXCEPT !.version = 5] BY <2>1
  <2>7. e \in Databases BY FieldsTyped
  <2> HIDE DEF e
  <2>8. [e EXCEPT !.version = 5] \in Databases /\ [e EXCEPT !.version = 5].version = 5
    BY <2>7, FieldsTyped, <1>0, Zenon
  <2> QED BY <1>3, <2>6, <2>8, <1>0
<1>4. CASE v = 5
  <2> DEFINE e == [d EXCEPT !.owners = TRUE]
  <2>6. Migrated(d, 5) = [e EXCEPT !.version = 6] BY MigratedFields
  <2>7. e \in Databases BY FieldsTyped
  <2> HIDE DEF e
  <2>8. [e EXCEPT !.version = 6] \in Databases /\ [e EXCEPT !.version = 6].version = 6
    BY <2>7, FieldsTyped, <1>0, Zenon
  <2> QED BY <1>4, <2>6, <2>8, <1>0
<1> QED BY <1>1, <1>2, <1>3, <1>4

-----------------------------------------------------------------------------
(* Types. *)

\* What a step of schema.sql, or of the index, writes.
LEMMA SchemaWrites ==
  ASSUME TypeOK, NEW p \in Processes,
         \/ CreateMeta(p) \/ WriteVersion(p) \/ CreateTables(p)
         \/ DropNarrowIndex(p) \/ CreateIndex(p) \/ RebuildIndex(p)
  PROVE  db' \in Databases
<1>0. db \in Databases /\ db.version \in 0..Current BY DEF TypeOK, Databases
<1>1. CASE CreateMeta(p)
  <2>1. PICK x \in 0..Current : db' = [db EXCEPT !.version = x]
    BY <1>0, <1>1 DEF CreateMeta, NoVersion, Current
  <2> QED BY <1>0, <2>1, FieldsTyped, Zenon
<1>2. CASE WriteVersion(p)
  <2>1. PICK x \in 0..Current : db' = [db EXCEPT !.version = x]
    BY <1>0, <1>2 DEF WriteVersion, Current
  <2> QED BY <1>0, <2>1, FieldsTyped, Zenon
<1>3. CASE CreateTables(p)
  <2> DEFINE d1 == [db EXCEPT !.patents = "record"]
             d2 == [d1 EXCEPT !.provenance = TRUE]
             d3 == [d2 EXCEPT !.owners = TRUE]
             x == IF db.derived = "none" THEN "new" ELSE db.derived
             y == IF db.index # "none" THEN db.index ELSE IF db.patents = "none" THEN "full" ELSE "empty"
             d4 == [d3 EXCEPT !.derived = x]
  <2>1. db' = [d4 EXCEPT !.index = y] BY <1>0, <1>3 DEF CreateTables, Databases
  <2>2. x \in {"none", "old", "new"} /\ y \in {"none", "empty", "narrow", "full"} BY <1>0 DEF Databases
  <2> HIDE DEF x, y
  <2>3. d1 \in Databases BY <1>0, FieldsTyped, Zenon
  <2> HIDE DEF d1
  <2>4. d2 \in Databases BY <2>3, FieldsTyped
  <2> HIDE DEF d2
  <2>5. d3 \in Databases BY <2>4, FieldsTyped
  <2> HIDE DEF d3
  <2>6. d4 \in Databases BY <2>2, <2>5, FieldsTyped, Zenon
  <2> HIDE DEF d4
  <2> QED BY <2>1, <2>2, <2>6, FieldsTyped, Zenon
<1>4. CASE DropNarrowIndex(p) \/ CreateIndex(p) \/ RebuildIndex(p)
  <2>1. db' = db \/ \E x \in {"none", "empty", "narrow", "full"} : db' = [db EXCEPT !.index = x]
    BY <1>4 DEF DropNarrowIndex, CreateIndex, RebuildIndex
  <2> QED BY <1>0, <2>1, FieldsTyped, Zenon
<1> QED BY <1>1, <1>2, <1>3, <1>4

SameExceptProc == UNCHANGED <<origin, alone, pidfile, socket, stop>>

\* It is enough that the process and what it writes are of their types.
LEMMA OpeningTypes ==
  ASSUME TypeOK, NEW p \in Processes, NEW pc \in OpenStages \union {"ended"}, Goto(p, pc),
         db' \in Databases,
         copies' \in [Copied -> [by : Processes \union {Nobody}, of : 0..Current, whole : BOOLEAN]],
         SameExceptProc, pc \in Migrating => proc[p].pc \in {"backup", "copy", "copying"}
  PROVE  TypeOK'
<1>1. /\ OnlyMoves(p) /\ proc'[p].pc = pc /\ (pc # "ended" => proc'[p].version = proc[p].version)
      /\ proc' \in [Processes -> [pc : Stages, version : 0..Current, signalled : BOOLEAN]]
  BY GotoMoves DEF Stages
<1>2. pc \notin Holding \union {"engine", "drain"} BY DEF OpenStages, Holding
<1>3. \A q \in Processes \ {p} : Serving(q)' /\ Counting(q)'
  BY <1>1 DEF OnlyMoves, TypeOK, Serving, Counting
<1>4. Serving(p)' BY <1>1, <1>2 DEF Serving
<1>5. Counting(p)' BY <1>1 DEF Counting, TypeOK, Migrating, Copied
<1> QED BY <1>1, <1>3, <1>4, <1>5 DEF TypeOK, SameExceptProc

LEMMA OpeningStepTypes ==
  ASSUME TypeOK, NEW p \in Processes,
         \/ Start(p) \/ OpenFails(p) \/ Inspect(p) \/ RemoveOldCopy(p) \/ StartCopy(p) \/ FinishCopy(p)
         \/ CreateMeta(p) \/ WriteVersion(p) \/ CreateTables(p) \/ RequireVersion(p)
         \/ DropNarrowIndex(p) \/ CreateIndex(p) \/ RebuildIndex(p)
  PROVE  TypeOK'
<1> DEFINE Copies == [Copied -> [by : Processes \union {Nobody}, of : 0..Current, whole : BOOLEAN]]
<1>1. CASE Start(p)
  <2>1. Goto(p, "inspect") /\ UNCHANGED <<db, origin, copies, pidfile, socket, stop>> /\ alone' \in BOOLEAN
    BY <1>1 DEF Start, files
  <2>2. /\ OnlyMoves(p) /\ proc'[p].pc = "inspect"
        /\ proc' \in [Processes -> [pc : Stages, version : 0..Current, signalled : BOOLEAN]]
    BY <2>1, GotoMoves DEF Stages, OpenStages
  <2>3. \A q \in Processes : Serving(q)' /\ Counting(q)'
    BY <2>2 DEF OnlyMoves, TypeOK, Holding, Migrating, Serving, Counting
  <2> QED BY <2>1, <2>2, <2>3 DEF TypeOK
<1>2. CASE OpenFails(p) \/ Inspect(p) \/ RequireVersion(p)
  <2>1. PICK pc \in OpenStages \union {"ended"} : Goto(p, pc) /\ pc \notin Migrating
    BY <1>2, OpeningMoves DEF OpenStages, Migrating
  <2>2. UNCHANGED <<db, copies>> /\ SameExceptProc
    BY <1>2 DEF OpenFails, Inspect, RequireVersion, Step, SameExceptProc, history, files
  <2> QED BY <2>1, <2>2, OpeningTypes DEF TypeOK
<1>3. CASE RemoveOldCopy(p) \/ StartCopy(p) \/ FinishCopy(p)
  <2>1. /\ \E pc \in OpenStages \union {"ended"} : Goto(p, pc)
        /\ proc[p].pc \in {"backup", "copy", "copying"}
    BY <1>3, OpeningMoves DEF OpenStages, At
  <2>2. db' = db /\ SameExceptProc
    BY <1>3 DEF RemoveOldCopy, StartCopy, FinishCopy, Step, SameExceptProc, history, files
  <2>3. copies \in Copies /\ db.version \in 0..Current BY DEF TypeOK, Databases
  <2>4. copies' \in Copies
    <3>0. ASSUME NEW v, NEW c \in [by : Processes \union {Nobody}, of : 0..Current, whole : BOOLEAN]
          PROVE  [copies EXCEPT ![v] = c] \in Copies
      BY <2>3
    <3>1. CASE RemoveOldCopy(p)
      <4>1. NoCopy \in [by : Processes \union {Nobody}, of : 0..Current, whole : BOOLEAN]
        BY DEF NoCopy, NoMeta, Current
      <4> QED BY <3>0, <3>1, <4>1 DEF RemoveOldCopy
    <3>2. CASE StartCopy(p)
      <4> DEFINE c == [by |-> p, of |-> db.version, whole |-> FALSE]
      <4>1. c \in [by : Processes \union {Nobody}, of : 0..Current, whole : BOOLEAN] BY <2>3
      <4>2. copies' = copies \/ copies' = [copies EXCEPT ![CopyOf(p)] = c] BY <3>2 DEF StartCopy
      <4> HIDE DEF c
      <4> QED BY <2>3, <3>0, <4>1, <4>2
    <3>3. CASE FinishCopy(p)
      <4>1. copies' = [copies EXCEPT ![CopyOf(p)].whole = @ \/ copies[CopyOf(p)].by = p]
        BY <3>3 DEF FinishCopy
      <4>2. \A v \in Copied : (copies[v].whole \/ copies[v].by = p) \in BOOLEAN OBVIOUS
      <4> QED BY <2>3, <4>1, <4>2
    <3> QED BY <1>3, <3>1, <3>2, <3>3
  <2> QED BY <2>1, <2>2, <2>4, OpeningTypes DEF TypeOK
<1>4. CASE \/ CreateMeta(p) \/ WriteVersion(p) \/ CreateTables(p)
           \/ DropNarrowIndex(p) \/ CreateIndex(p) \/ RebuildIndex(p)
  <2>1. PICK pc \in OpenStages \union {"ended"} : Goto(p, pc) /\ pc \notin Migrating
    BY <1>4, OpeningMoves DEF OpenStages, Migrating
  <2>2. copies' = copies /\ SameExceptProc
    BY <1>4 DEF CreateMeta, WriteVersion, CreateTables, DropNarrowIndex, CreateIndex, RebuildIndex,
       Step, SameExceptProc, history, files
  <2> QED BY <1>4, <2>1, <2>2, SchemaWrites, OpeningTypes DEF TypeOK
<1> QED BY <1>1, <1>2, <1>3, <1>4

\* ReadVersion, Migrate and Opened set more than the stage.
LEMMA ProcTypes ==
  ASSUME TypeOK, NEW p \in Processes, db' \in Databases, UNCHANGED copies, SameExceptProc, OnlyMoves(p),
         proc' \in [Processes -> [pc : Stages, version : 0..Current, signalled : BOOLEAN]],
         Serving(p)', Counting(p)'
  PROVE  TypeOK'
<1>1. \A q \in Processes : Serving(q)' /\ Counting(q)'
  BY DEF OnlyMoves, TypeOK, Serving, Counting
<1> QED BY <1>1 DEF TypeOK, SameExceptProc

LEMMA ReadVersionMoves ==
  ASSUME TypeOK, NEW p \in Processes, ReadVersion(p)
  PROVE  /\ OnlyMoves(p) /\ UNCHANGED <<db, copies>> /\ SameExceptProc /\ At(p, "version")
         /\ proc' \in [Processes -> [pc : Stages, version : 0..Current, signalled : BOOLEAN]]
         /\ proc'[p].version = db.version
         /\ proc'[p].pc = CASE db.version = NoMeta    -> "meta"
                            [] db.version = NoVersion -> "ended"
                            [] OTHER                  -> NextFrom(db.version)
         /\ proc'[p].pc \in {"meta", "ended", "migrate", "backup"}
<1> DEFINE pc == CASE db.version = NoMeta    -> "meta"
                   [] db.version = NoVersion -> "ended"
                   [] OTHER                  -> NextFrom(db.version)
<1>1. db.version \in 0..Current BY DEF TypeOK, Databases
<1>2. pc \in {"meta", "ended", "migrate", "backup"}
  BY <1>1 DEF NextFrom, NoMeta, NoVersion, Current, Copied
<1>3. proc' = [proc EXCEPT ![p].version = db.version, ![p].pc = pc]
  BY DEF ReadVersion
<1>4. UNCHANGED <<db, copies>> /\ SameExceptProc /\ At(p, "version")
  BY DEF ReadVersion, Step, SameExceptProc, history, files
<1> HIDE DEF pc
<1>5. pc \in Stages BY <1>2 DEF Stages, OpenStages
<1>6. proc' \in [Processes -> [pc : Stages, version : 0..Current, signalled : BOOLEAN]]
  BY <1>1, <1>3, <1>5 DEF TypeOK
<1>7. OnlyMoves(p) /\ proc'[p].version = db.version /\ proc'[p].pc = pc
  BY <1>3 DEF TypeOK, OnlyMoves
<1> QED BY <1>2, <1>4, <1>6, <1>7 DEF pc

LEMMA MigrateMoves ==
  ASSUME TypeOK, NEW p \in Processes, Migrate(p)
  PROVE  /\ OnlyMoves(p) /\ UNCHANGED copies /\ SameExceptProc /\ At(p, "migrate")
         /\ proc' \in [Processes -> [pc : Stages, version : 0..Current, signalled : BOOLEAN]]
         /\ proc[p].version \in 2..5
         /\ \/ db' = db /\ proc'[p].pc = "ended"
            \/ /\ db' = Migrated(db, proc[p].version) /\ db' \in Databases
               /\ db'.version = proc[p].version + 1 /\ proc'[p].version = proc[p].version + 1
               /\ proc'[p].pc = (IF proc[p].version = 5 THEN "meta" ELSE "backup")
               /\ proc[p].version = 3 => db.patents = "patent"
<1> DEFINE v == proc[p].version
<1>1. UNCHANGED copies /\ SameExceptProc /\ At(p, "migrate")
  BY DEF Migrate, Step, SameExceptProc, history, files
<1>2. v \in 2..5 BY <1>1 DEF TypeOK, Counting, Migrating, At
<1>3. CASE v = 3 /\ db.patents # "patent"
  <2>1. Goto(p, "ended") /\ db' = db BY <1>3 DEF Migrate
  <2> QED BY <1>1, <1>2, <2>1, GotoMoves DEF Stages
<1>4. CASE ~(v = 3 /\ db.patents # "patent")
  <2>1. /\ db' = Migrated(db, v)
        /\ proc' = [proc EXCEPT ![p].version = v + 1, ![p].pc = NextFrom(v + 1)]
    BY <1>4 DEF Migrate
  <2>2. NextFrom(v + 1) = (IF v = 5 THEN "meta" ELSE "backup") BY <1>2 DEF NextFrom, Copied, Current
  <2>3. v + 1 \in 0..Current BY <1>2 DEF Current
  <2>4. db' \in Databases /\ db'.version = v + 1 BY <1>2, <2>1, MigratedTyped DEF TypeOK
  <2> DEFINE n == v + 1  pc == NextFrom(n)
  <2>5. pc \in Stages BY <2>2 DEF Stages, OpenStages
  <2>6. proc' = [proc EXCEPT ![p].version = n, ![p].pc = pc] BY <2>1
  <2> HIDE DEF n, pc
  <2>7. /\ OnlyMoves(p) /\ proc'[p].version = n /\ proc'[p].pc = pc
        /\ proc' \in [Processes -> [pc : Stages, version : 0..Current, signalled : BOOLEAN]]
    BY <2>3, <2>5, <2>6 DEF OnlyMoves, TypeOK, n
  <2> QED BY <1>1, <1>2, <1>4, <2>1, <2>2, <2>4, <2>7 DEF n, pc
<1> QED BY <1>3, <1>4

LEMMA OpenedMoves ==
  ASSUME TypeOK, NEW p \in Processes, Opened(p)
  PROVE  /\ OnlyMoves(p) /\ UNCHANGED <<db, copies>> /\ SameExceptProc /\ At(p, "columns")
         /\ proc' \in [Processes -> [pc : Stages, version : 0..Current, signalled : BOOLEAN]]
         /\ proc'[p].pc = IF p \in Serves THEN "engine" ELSE "ended"
<1> DEFINE pc == IF p \in Serves THEN "engine" ELSE "ended"
<1>1. UNCHANGED <<db, copies>> /\ SameExceptProc /\ At(p, "columns") /\ proc' = [proc EXCEPT ![p] = Fresh(pc)]
  BY DEF Opened, Step, SameExceptProc, history, files
<1>2. pc \in Stages BY DEF Stages
<1> HIDE DEF pc
<1>3. Fresh(pc) \in [pc : Stages, version : 0..Current, signalled : BOOLEAN] /\ Fresh(pc).pc = pc
  BY <1>2 DEF Fresh, NoMeta, Current
<1>4. /\ OnlyMoves(p) /\ proc'[p].pc = pc
      /\ proc' \in [Processes -> [pc : Stages, version : 0..Current, signalled : BOOLEAN]]
  BY <1>1, <1>3 DEF OnlyMoves, TypeOK
<1> QED BY <1>1, <1>4 DEF pc

LEMMA CountingTypes ==
  ASSUME TypeOK, NEW p \in Processes, ReadVersion(p) \/ Migrate(p) \/ Opened(p)
  PROVE  TypeOK'
<1>0. db \in Databases /\ db.version \in 0..Current BY DEF TypeOK, Databases
<1>1. CASE ReadVersion(p)
  <2>1. Serving(p)' BY <1>1, ReadVersionMoves DEF Serving, Holding
  <2>2. db.version \in 0..Current /\ (proc'[p].pc \in Migrating => db.version \in 2..5)
        /\ (proc'[p].pc = "backup" => db.version \in Copied)
    <3>1. db.version = NoMeta \/ db.version = NoVersion \/ db.version \in 2..6
      BY <1>0 DEF NoMeta, NoVersion, Current
    <3>2. NextFrom(2) = "migrate" /\ NextFrom(6) = "meta" BY DEF NextFrom, Copied, Current
    <3> QED BY <1>0, <1>1, <3>1, <3>2, ReadVersionMoves DEF Migrating, Copied, NoMeta, NoVersion
  <2>3. Counting(p)' BY <1>1, <2>2, ReadVersionMoves DEF Counting, Migrating
  <2> QED BY <1>0, <1>1, <2>1, <2>3, ReadVersionMoves, ProcTypes
<1>2. CASE Migrate(p)
  <2>1. Serving(p)' BY <1>2, MigrateMoves DEF Serving, Holding
  <2>2. Counting(p)'
    <3>1. CASE proc'[p].pc = "ended" BY <3>1 DEF Counting, Migrating
    <3>2. CASE /\ proc'[p].version = proc[p].version + 1
               /\ proc'[p].pc = (IF proc[p].version = 5 THEN "meta" ELSE "backup")
      BY <1>2, <3>2, MigrateMoves DEF Counting, Migrating, Copied
    <3> QED BY <1>2, <3>1, <3>2, MigrateMoves
  <2>3. db' \in Databases BY <1>0, <1>2, MigrateMoves
  <2> QED BY <1>2, <2>1, <2>2, <2>3, MigrateMoves, ProcTypes
<1>3. CASE Opened(p)
  <2>1. Serving(p)' /\ Counting(p)' BY <1>3, OpenedMoves DEF Serving, Counting, Holding, Migrating
  <2> QED BY <1>0, <1>3, <2>1, OpenedMoves, ProcTypes
<1> QED BY <1>1, <1>2, <1>3

ServeStep(p) == \/ WritePID(p) \/ ClearSocket(p) \/ Listen(p) \/ CloseListener(p) \/ AcceptFails(p)
                \/ ShutdownBackup(p) \/ TakeDown(p) \/ CloseEngine(p) \/ Kill(p)

StopStep == (\E p \in Processes : Interrupt(p)) \/ ReadPID \/ SignalDaemon \/ PollPID

LEMMA ServeMoves ==
  ASSUME TypeOK, NEW p \in Processes, ServeStep(p)
  PROVE  /\ p \in Serves /\ proc[p].pc \in Holding \union {"engine", "drain"}
         /\ \E pc \in Holding \union {"drain", "ended"} : Goto(p, pc)
         /\ UNCHANGED <<db, origin, alone, copies, stop>>
         /\ pidfile' \in {pidfile, p, Nobody} /\ socket' \in {socket, p, Nobody}
<1>1. proc[p].pc \in Stages BY DEF TypeOK
<1>2. proc[p].pc \in Holding \union {"engine", "drain"}
  BY <1>1 DEF ServeStep, WritePID, ClearSocket, Listen, CloseListener, AcceptFails, ShutdownBackup, TakeDown,
     CloseEngine, Kill, Serve, At, Stages, Holding
<1>3. \E pc \in Holding \union {"drain", "ended"} : Goto(p, pc)
  BY DEF ServeStep, WritePID, ClearSocket, Listen, CloseListener, AcceptFails, ShutdownBackup, TakeDown,
     CloseEngine, Kill, Holding
<1>4. UNCHANGED <<db, origin, alone, copies, stop>>
  BY DEF ServeStep, WritePID, ClearSocket, Listen, CloseListener, AcceptFails, ShutdownBackup, TakeDown,
     CloseEngine, Kill, Serve, history
<1>5. pidfile' \in {pidfile, p, Nobody} /\ socket' \in {socket, p, Nobody}
  BY DEF ServeStep, WritePID, ClearSocket, Listen, CloseListener, AcceptFails, ShutdownBackup, TakeDown,
     CloseEngine, Kill, files
<1> QED BY <1>2, <1>3, <1>4, <1>5 DEF TypeOK, Serving

LEMMA ServeTypes ==
  ASSUME TypeOK, NEW p \in Processes, ServeStep(p)
  PROVE  TypeOK'
<1>1. PICK pc \in Holding \union {"drain", "ended"} : Goto(p, pc) BY ServeMoves
<1>2. /\ OnlyMoves(p) /\ proc'[p].pc = pc
      /\ proc' \in [Processes -> [pc : Stages, version : 0..Current, signalled : BOOLEAN]]
  BY <1>1, GotoMoves DEF Stages
<1>3. \A q \in Processes \ {p} : Serving(q)' /\ Counting(q)'
  BY <1>2 DEF OnlyMoves, TypeOK, Serving, Counting
<1>4. Serving(p)' /\ Counting(p)'
  BY <1>2, ServeMoves DEF Serving, Counting, Holding, Migrating
<1> QED BY <1>2, <1>3, <1>4, ServeMoves DEF TypeOK

LEMMA StopMoves ==
  ASSUME TypeOK, StopStep
  PROVE  /\ UNCHANGED <<db, origin, alone, copies, socket>>
         /\ \A q \in Processes : proc'[q].pc = proc[q].pc /\ proc'[q].version = proc[q].version
         /\ proc' \in [Processes -> [pc : Stages, version : 0..Current, signalled : BOOLEAN]]
         /\ pidfile' \in {pidfile, Nobody}
<1>1. UNCHANGED <<db, origin, alone, copies, socket>> /\ pidfile' \in {pidfile, Nobody}
  BY DEF StopStep, Interrupt, ReadPID, SignalDaemon, PollPID, history, files
<1>2. proc' = proc \/ \E p : proc' = [proc EXCEPT ![p].signalled = TRUE]
  BY DEF StopStep, Interrupt, ReadPID, SignalDaemon, PollPID
<1>3. ASSUME NEW p, proc' = [proc EXCEPT ![p].signalled = TRUE]
      PROVE  /\ \A q \in Processes : proc'[q].pc = proc[q].pc /\ proc'[q].version = proc[q].version
             /\ proc' \in [Processes -> [pc : Stages, version : 0..Current, signalled : BOOLEAN]]
  <2>1. proc \in [Processes -> [pc : Stages, version : 0..Current, signalled : BOOLEAN]] BY DEF TypeOK
  <2> QED BY <1>3, <2>1
<1>4. CASE proc' = proc BY <1>1, <1>4 DEF TypeOK
<1> QED BY <1>1, <1>2, <1>3, <1>4

LEMMA StopTypes ==
  ASSUME TypeOK, StopStep
  PROVE  TypeOK'
<1>1. stop' \in [pc : {"idle", "signal", "poll"}, of : Serves \union {Nobody}]
  BY DEF StopStep, Interrupt, ReadPID, SignalDaemon, PollPID, TypeOK
<1>2. \A q \in Processes : Serving(q)' /\ Counting(q)'
  BY StopMoves DEF TypeOK, Serving, Counting
<1> QED BY <1>1, <1>2, StopMoves DEF TypeOK

OpenStep(p) == \/ OpenFails(p) \/ Inspect(p) \/ ReadVersion(p) \/ RemoveOldCopy(p) \/ StartCopy(p)
               \/ FinishCopy(p) \/ Migrate(p) \/ CreateMeta(p) \/ WriteVersion(p) \/ CreateTables(p)
               \/ RequireVersion(p) \/ DropNarrowIndex(p) \/ CreateIndex(p) \/ RebuildIndex(p) \/ Opened(p)

LEMMA StepKinds ==
  ASSUME Next
  PROVE  (\E p \in Processes : Start(p) \/ OpenStep(p) \/ ServeStep(p)) \/ StopStep
BY DEF Next, OpenStep, ServeStep, StopStep

LEMMA TypesKept ==
  ASSUME TypeOK, [Next]_vars
  PROVE  TypeOK'
<1>1. ASSUME NEW p \in Processes, Start(p) \/ OpenStep(p) PROVE TypeOK'
  BY <1>1, OpeningStepTypes, CountingTypes DEF OpenStep
<1>2. ASSUME NEW p \in Processes, ServeStep(p) PROVE TypeOK' BY <1>2, ServeTypes
<1>3. CASE StopStep BY <1>3, StopTypes
<1>4. CASE UNCHANGED vars BY <1>4 DEF vars, TypeOK, Serving, Counting
<1> QED BY <1>1, <1>2, <1>3, <1>4, StepKinds

-----------------------------------------------------------------------------
(* The number and the tables. *)

\* Steps that change nothing in the file.
LEMMA NumberQuiet ==
  ASSUME NumberExact, NEW p \in Processes, OnlyMoves(p), UNCHANGED <<db, origin>>,
         MigratingFrom(p)', SchemaOver(p)', Opening(p)' => Opening(p),
         origin = Obsolete => proc'[p].pc \in {"idle", "inspect", "ended"}
  PROVE  NumberExact'
<1>1. \A q \in Processes : (Opening(q) => Opening(q))' /\ (Opening(q)' => Opening(q))
  BY DEF OnlyMoves, Opening
<1>2. db'.version \in 2..3 => OnlyOneOpens' BY <1>1 DEF NumberExact, OnlyOneOpens
<1>3. \A q \in Processes : MigratingFrom(q)' /\ SchemaOver(q)'
  BY DEF NumberExact, OnlyMoves, MigratingFrom, SchemaOver
<1>4. origin' = Obsolete => db' = origin' /\ \A q \in Processes : proc'[q].pc \in {"idle", "inspect", "ended"}
  BY DEF NumberExact, OnlyMoves
<1>5. NumberTellsTheTables' BY DEF NumberExact, NumberTellsTheTables
<1> QED BY <1>2, <1>3, <1>4, <1>5 DEF NumberExact

LEMMA NumberStart ==
  ASSUME TypeOK, NumberExact, Guarded, NEW p \in Processes, Start(p)
  PROVE  NumberExact'
<1>1. Goto(p, "inspect") /\ UNCHANGED <<db, origin>> /\ At(p, "idle") /\ (Careful => MayStart(p))
  BY DEF Start
<1>2. OnlyMoves(p) /\ proc'[p].pc = "inspect" BY <1>1, GotoMoves DEF Stages, OpenStages
<1>3. \A q \in Processes : MigratingFrom(q)' /\ SchemaOver(q)'
  BY <1>1, <1>2 DEF NumberExact, OnlyMoves, MigratingFrom, SchemaOver, Migrating, Filling
<1>4. db'.version \in 2..3 => OnlyOneOpens'
  <2> SUFFICES ASSUME db.version \in 2..3 PROVE OnlyOneOpens' BY <1>1
  <2>1. Careful BY DEF NumberExact, Guarded
  <2>2. \A q \in Processes : ~Opening(q) BY <1>1, <2>1 DEF MayStart
  <2>3. \A q \in Processes \ {p} : ~Opening(q)' BY <1>2, <2>2 DEF OnlyMoves, Opening
  <2> QED BY <2>3 DEF OnlyOneOpens
<1>5. origin' = Obsolete => db' = origin' /\ \A q \in Processes : proc'[q].pc \in {"idle", "inspect", "ended"}
  BY <1>1, <1>2 DEF NumberExact, OnlyMoves
<1>6. NumberTellsTheTables' BY <1>1 DEF NumberExact, NumberTellsTheTables
<1> QED BY <1>1, <1>3, <1>4, <1>5, <1>6 DEF NumberExact

LEMMA AcceptedOrigin ==
  ASSUME NumberExact, NEW p \in Processes, proc[p].pc \notin {"idle", "inspect", "ended"}
  PROVE  origin # Obsolete
BY DEF NumberExact

\* Of two stages of opening: the steps that leave the file alone.
LEMMA NumberLooks ==
  ASSUME TypeOK, NumberExact, NEW p \in Processes,
         \/ OpenFails(p) \/ Inspect(p) \/ ReadVersion(p) \/ RemoveOldCopy(p) \/ StartCopy(p) \/ FinishCopy(p)
         \/ RequireVersion(p) \/ Opened(p)
  PROVE  NumberExact'
<1>0. db.version \in 0..6 BY DEF TypeOK, Databases, Current
<1>1. CASE OpenFails(p)
  <2>1. UNCHANGED <<db, origin>> BY <1>1 DEF OpenFails, history
  <2>2. OnlyMoves(p) /\ proc'[p].pc = "ended" /\ Opening(p) BY <1>1, OpeningMoves, GotoMoves DEF Stages
  <2>3. MigratingFrom(p)' /\ SchemaOver(p)' BY <2>2 DEF MigratingFrom, SchemaOver, Migrating, Filling
  <2> QED BY <2>1, <2>2, <2>3, NumberQuiet
<1>2. CASE Inspect(p)
  <2>1. UNCHANGED <<db, origin>> /\ At(p, "inspect") BY <1>2 DEF Inspect, Step, history
  <2>2. OnlyMoves(p) /\ proc'[p].pc = IF db.version = NoMeta /\ db.patents # "none" THEN "ended" ELSE "version"
    BY <1>2, GotoMoves DEF Inspect, Stages, OpenStages
  <2>3. MigratingFrom(p)' /\ SchemaOver(p)' BY <2>2 DEF MigratingFrom, SchemaOver, Migrating, Filling
  <2>4. Opening(p) BY <2>1 DEF Opening, OpenStages, At
  <2>5. Obsolete.version = NoMeta /\ Obsolete.patents # "none"
    BY DEF Obsolete, Database, NoMeta
  <2>6. origin = Obsolete => proc'[p].pc = "ended" BY <2>2, <2>5 DEF NumberExact
  <2> QED BY <2>1, <2>2, <2>3, <2>4, <2>6, NumberQuiet
<1>3. CASE ReadVersion(p)
  <2>1. UNCHANGED <<db, origin>> /\ OnlyMoves(p) /\ At(p, "version")
    BY <1>3, ReadVersionMoves DEF SameExceptProc
  <2>2. Opening(p) BY <2>1 DEF Opening, OpenStages, At
  <2>3. /\ proc'[p].version = db.version /\ proc'[p].pc \in {"meta", "ended", "migrate", "backup"}
        /\ proc'[p].pc = "meta" => db.version \notin 2..4
    <3>1. NextFrom(2) = "migrate" /\ NextFrom(3) = "backup" /\ NextFrom(4) = "backup"
      BY DEF NextFrom, Copied, Current
    <3> QED BY <1>3, <3>1, ReadVersionMoves DEF NoMeta, NoVersion
  <2>4. MigratingFrom(p)' BY <1>0, <2>1, <2>3 DEF MigratingFrom
  <2>5. SchemaOver(p)' BY <2>1, <2>3 DEF SchemaOver, Filling
  <2>6. origin # Obsolete BY <2>1, AcceptedOrigin DEF At
  <2> QED BY <2>1, <2>2, <2>4, <2>5, <2>6, NumberQuiet
<1>4. CASE RemoveOldCopy(p) \/ StartCopy(p) \/ FinishCopy(p)
  <2>1. UNCHANGED <<db, origin>> BY <1>4 DEF RemoveOldCopy, StartCopy, FinishCopy, Step, history
  <2>2. proc[p].pc \in {"backup", "copy", "copying"} BY <1>4, OpeningMoves DEF At
  <2>3. Goto(p, "copy") \/ Goto(p, "copying") \/ Goto(p, "migrate") \/ Goto(p, "ended")
    BY <1>4, OpeningMoves
  <2>4. /\ OnlyMoves(p) /\ proc'[p].pc \in {"copy", "copying", "migrate", "ended"}
        /\ proc'[p].pc # "ended" => proc'[p].version = proc[p].version
    BY <2>3, GotoMoves DEF Stages, OpenStages
  <2>5. MigratingFrom(p)' BY <2>1, <2>2, <2>4 DEF NumberExact, MigratingFrom, Migrating
  <2>6. SchemaOver(p)' BY <2>4 DEF SchemaOver, Filling
  <2>7. Opening(p) /\ origin # Obsolete BY <2>2, AcceptedOrigin DEF Opening, OpenStages
  <2> QED BY <2>1, <2>4, <2>5, <2>6, <2>7, NumberQuiet
<1>5. CASE RequireVersion(p)
  <2>1. UNCHANGED <<db, origin>> /\ At(p, "require") BY <1>5 DEF RequireVersion, Step, history
  <2>2. OnlyMoves(p) /\ proc'[p].pc = IF db.version = Current THEN "narrow" ELSE "ended"
    BY <1>5, GotoMoves DEF RequireVersion, Stages, OpenStages
  <2>3. MigratingFrom(p)' /\ SchemaOver(p)'
    BY <2>1, <2>2 DEF MigratingFrom, SchemaOver, Migrating, Filling, Current
  <2>4. Opening(p) /\ origin # Obsolete BY <2>1, AcceptedOrigin DEF Opening, OpenStages, At
  <2> QED BY <2>1, <2>2, <2>3, <2>4, NumberQuiet
<1>6. CASE Opened(p)
  <2>1. UNCHANGED <<db, origin>> /\ OnlyMoves(p) /\ At(p, "columns") /\ proc'[p].pc \in {"engine", "ended"}
    BY <1>6, OpenedMoves DEF SameExceptProc
  <2>2. MigratingFrom(p)' /\ SchemaOver(p)' BY <2>1 DEF MigratingFrom, SchemaOver, Migrating, Filling
  <2>3. Opening(p) /\ origin # Obsolete BY <2>1, AcceptedOrigin DEF Opening, OpenStages, At
  <2> QED BY <2>1, <2>2, <2>3, NumberQuiet
<1> QED BY <1>1, <1>2, <1>3, <1>4, <1>5, <1>6

\* What the processes agree on depends on the version alone.
LEMMA NumberChanged ==
  ASSUME NumberExact, NEW p \in Processes, OnlyMoves(p), UNCHANGED origin,
         Opening(p), origin # Obsolete, MigratingFrom(p)', SchemaOver(p)',
         db.version \notin 2..3 => db'.version \notin 2..3,
         \/ db'.version = db.version
         \/ db.version \in 2..3
         \/ db.version \in {NoMeta, NoVersion} /\ db'.version \in {NoVersion, Current}
         \/ db.version \in 4..Current /\ db'.version \in 5..Current,
         db'.version = NoMeta => db' = origin,
         db'.version = NoVersion => origin = Database(NoMeta) /\ db' = [origin EXCEPT !.version = NoVersion],
         db'.patents = "none" => db'.derived = "none",
         NumberTellsTheTables'
  PROVE  NumberExact'
<1>1. \A q \in Processes : Opening(q)' => Opening(q)
  BY DEF OnlyMoves, Opening
<1>2. db'.version \in 2..3 => OnlyOneOpens' BY <1>1 DEF NumberExact, OnlyOneOpens
<1>3. ASSUME NEW q \in Processes \ {p} PROVE MigratingFrom(q)' /\ SchemaOver(q)'
  <2>0. proc'[q] = proc[q] BY DEF OnlyMoves
  <2>1. CASE db'.version = db.version
    BY <2>0, <2>1 DEF NumberExact, MigratingFrom, SchemaOver
  <2>2. CASE db.version \in 2..3
    <3>1. ~Opening(q) BY <2>2 DEF NumberExact, OnlyOneOpens
    <3> QED BY <2>0, <3>1 DEF Opening, OpenStages, MigratingFrom, SchemaOver, Migrating, Filling
  <2>3. CASE db.version \in {NoMeta, NoVersion} /\ db'.version \in {NoVersion, Current}
    BY <2>0, <2>3 DEF NumberExact, MigratingFrom, SchemaOver, NoMeta, NoVersion, Current
  <2>4. CASE db.version \in 4..Current /\ db'.version \in 5..Current
    BY <2>0, <2>4 DEF NumberExact, MigratingFrom, SchemaOver, NoMeta, Current
  <2> QED BY <2>1, <2>2, <2>3, <2>4
<1> QED BY <1>2, <1>3 DEF NumberExact

LEMMA NumberIndexed ==
  ASSUME TypeOK, NumberExact, NEW p \in Processes, DropNarrowIndex(p) \/ CreateIndex(p) \/ RebuildIndex(p)
  PROVE  NumberExact'
<1>1. UNCHANGED origin BY DEF DropNarrowIndex, CreateIndex, RebuildIndex, Step, history
<1>2. proc[p].pc \in {"narrow", "create", "rebuild"} BY OpeningMoves DEF At
<1>3. OnlyMoves(p) /\ proc'[p].pc \in {"create", "rebuild", "columns", "ended"}
  <2>1. Goto(p, "create") \/ Goto(p, "rebuild") \/ Goto(p, "columns") \/ Goto(p, "ended") BY OpeningMoves
  <2> QED BY <2>1, GotoMoves DEF Stages, OpenStages
<1>4. db' = db \/ \E x : db' = [db EXCEPT !.index = x]
  BY DEF DropNarrowIndex, CreateIndex, RebuildIndex
<1>5. /\ db'.version = db.version /\ db'.patents = db.patents /\ db'.provenance = db.provenance
      /\ db'.derived = db.derived /\ db'.owners = db.owners
  <2>1. ASSUME NEW x, db' = [db EXCEPT !.index = x] 
        PROVE  /\ db'.version = db.version /\ db'.patents = db.patents /\ db'.provenance = db.provenance
               /\ db'.derived = db.derived /\ db'.owners = db.owners
    BY <2>1 DEF TypeOK, Databases
  <2> QED BY <1>4, <2>1
<1>6. db.version \in 5..Current BY <1>2 DEF NumberExact, SchemaOver, Filling
<1>7. MigratingFrom(p)' /\ SchemaOver(p)'
  BY <1>3, <1>5, <1>6 DEF MigratingFrom, SchemaOver, Migrating
<1>8. Opening(p) /\ origin # Obsolete BY <1>2, AcceptedOrigin DEF Opening, OpenStages
<1>9. db'.version # NoMeta /\ db'.version # NoVersion BY <1>5, <1>6 DEF NoMeta, NoVersion, Current
<1>10. NumberTellsTheTables' BY <1>1, <1>5 DEF NumberExact, NumberTellsTheTables
<1> QED BY <1>1, <1>3, <1>5, <1>7, <1>8, <1>9, <1>10, NumberChanged DEF NumberExact

LEMMA NumberTables ==
  ASSUME TypeOK, NumberExact, NEW p \in Processes, CreateTables(p)
  PROVE  NumberExact'
<1>1. UNCHANGED origin /\ At(p, "tables") BY DEF CreateTables, Step, history
<1>2. OnlyMoves(p) /\ proc'[p].pc = "require" BY GotoMoves DEF CreateTables, Stages, OpenStages
<1>3. db.version \in 5..6 BY <1>1 DEF NumberExact, SchemaOver, Filling, At, Current
<1>4. /\ db'.version = db.version /\ db'.patents = "record" /\ db'.provenance /\ db'.owners
      /\ db'.derived = IF db.derived = "none" THEN "new" ELSE db.derived
  BY DEF CreateTables, TypeOK, Databases
<1>5. db.derived # "old"
  <2>1. CASE db.patents = "none" BY <2>1 DEF NumberExact
  <2>2. CASE db.patents # "none" BY <1>3, <2>2 DEF NumberExact, NumberTellsTheTables, Current
  <2> QED BY <2>1, <2>2
<1>6. MigratingFrom(p)' /\ SchemaOver(p)'
  BY <1>2, <1>3, <1>4 DEF MigratingFrom, SchemaOver, Migrating, Current
<1>7. Opening(p) /\ origin # Obsolete BY <1>1, AcceptedOrigin DEF Opening, OpenStages, At
<1>8. db'.version # NoMeta /\ db'.version # NoVersion BY <1>3, <1>4 DEF NoMeta, NoVersion
<1>9. NumberTellsTheTables' BY <1>3, <1>4, <1>5, <1>8 DEF NumberTellsTheTables
<1> QED BY <1>1, <1>2, <1>4, <1>6, <1>7, <1>8, <1>9, NumberChanged

\* The origin of a file that has no table of versions yet is a new file.
LEMMA NewFile ==
  ASSUME TypeOK, NumberExact, origin # Obsolete, db.version = NoMeta
  PROVE  db = Database(NoMeta) /\ origin = Database(NoMeta)
<1>1. db = origin BY DEF NumberExact
<1>2. Narrow.version = Current BY DEF Narrow, Database, Current
<1>3. \A v \in 2..Current : Database(v).version # NoMeta BY DatabasesTyped DEF Current, NoMeta
<1>4. Current # NoMeta BY DEF Current, NoMeta
<1> QED BY <1>1, <1>2, <1>3, <1>4, StartupAssumption DEF TypeOK

LEMMA NumberMeta ==
  ASSUME TypeOK, NumberExact, NEW p \in Processes, CreateMeta(p)
  PROVE  NumberExact'
<1>1. UNCHANGED origin /\ At(p, "meta") BY DEF CreateMeta, Step, history
<1>2. OnlyMoves(p) /\ proc'[p].pc = "number" BY GotoMoves DEF CreateMeta, Stages, OpenStages
<1>3. Opening(p) /\ origin # Obsolete BY <1>1, AcceptedOrigin DEF Opening, OpenStages, At
<1>4. db.version \notin 2..4 BY <1>1 DEF NumberExact, SchemaOver, At
<1>5. MigratingFrom(p)' BY <1>2 DEF MigratingFrom, Migrating
<1>6. CASE db.version = NoMeta
  <2>1. db = Database(NoMeta) /\ origin = Database(NoMeta) BY <1>3, <1>6, NewFile
  <2>2. db' = [db EXCEPT !.version = NoVersion] BY <1>6 DEF CreateMeta
  <2>3. db'.version = NoVersion /\ db'.patents = db.patents /\ db'.derived = db.derived
    BY <2>2 DEF TypeOK, Databases
  <2>4. SchemaOver(p)' BY <1>2, <2>3 DEF SchemaOver, Filling, NoMeta, NoVersion
  <2>5. NumberTellsTheTables' BY <1>1, <2>1, <2>3 DEF NumberTellsTheTables, NoVersion, Current
  <2>6. NoVersion # NoMeta /\ NoVersion \notin 2..3 BY DEF NoVersion, NoMeta
  <2>7. db'.patents = "none" => db'.derived = "none" BY <2>3 DEF NumberExact
  <2> QED BY <1>1, <1>2, <1>3, <1>5, <1>6, <2>1, <2>2, <2>3, <2>4, <2>5, <2>6, <2>7, NumberChanged
<1>7. CASE db.version # NoMeta
  <2>1. db' = [db EXCEPT !.version = db.version] BY <1>7 DEF CreateMeta
  <2>2. db' = db BY <2>1 DEF TypeOK, Databases
  <2>3. SchemaOver(p)' BY <1>2, <1>4, <1>7, <2>2 DEF SchemaOver, Filling
  <2>4. Opening(p)' => Opening(p) BY <1>3
  <2> QED BY <1>1, <1>2, <1>3, <1>5, <2>2, <2>3, NumberQuiet
<1> QED BY <1>6, <1>7

LEMMA NumberVersion ==
  ASSUME TypeOK, NumberExact, NEW p \in Processes, WriteVersion(p)
  PROVE  NumberExact'
<1>1. UNCHANGED origin /\ At(p, "number") BY DEF WriteVersion, Step, history
<1>2. OnlyMoves(p) /\ proc'[p].pc = "tables" BY GotoMoves DEF WriteVersion, Stages, OpenStages
<1>3. Opening(p) /\ origin # Obsolete BY <1>1, AcceptedOrigin DEF Opening, OpenStages, At
<1>4. db.version \notin {NoMeta} \union 2..4 BY <1>1 DEF NumberExact, SchemaOver, At
<1>5. MigratingFrom(p)' BY <1>2 DEF MigratingFrom, Migrating
<1>6. db.version \in 0..6 BY DEF TypeOK, Databases, Current
<1>7. CASE db.version = NoVersion
  <2>1. db' = [db EXCEPT !.version = Current] BY <1>7 DEF WriteVersion
  <2>2. db'.version = Current /\ db'.patents = db.patents /\ db'.derived = db.derived
    BY <2>1 DEF TypeOK, Databases
  <2>3. db.patents = "none"
    <3>1. db = [Database(NoMeta) EXCEPT !.version = NoVersion] BY <1>7 DEF NumberExact
    <3> QED BY <3>1 DEF Database, NoMeta
  <2>4. SchemaOver(p)' BY <1>2, <2>2 DEF SchemaOver, Filling, Current
  <2>5. Current # NoVersion /\ Current # NoMeta /\ Current \notin 2..3 BY DEF Current, NoMeta, NoVersion
  <2>6. NumberTellsTheTables' BY <2>2, <2>3, <2>5 DEF NumberTellsTheTables
  <2>7. db'.patents = "none" => db'.derived = "none" BY <2>2 DEF NumberExact
  <2> QED BY <1>1, <1>2, <1>3, <1>5, <1>7, <2>2, <2>4, <2>5, <2>6, <2>7, NumberChanged
<1>8. CASE db.version # NoVersion
  <2>1. db' = [db EXCEPT !.version = db.version] BY <1>8 DEF WriteVersion
  <2>2. db' = db BY <2>1 DEF TypeOK, Databases
  <2>3. db.version \in 5..Current BY <1>4, <1>6, <1>8 DEF NoMeta, NoVersion, Current
  <2>4. SchemaOver(p)' BY <1>2, <2>2, <2>3 DEF SchemaOver
  <2> QED BY <1>1, <1>2, <1>3, <1>5, <2>2, <2>4, NumberQuiet
<1> QED BY <1>7, <1>8

LEMMA MigratedTables ==
  ASSUME NEW d \in Databases
  PROVE  /\ LET e == Migrated(d, 2)
             IN  e.patents = d.patents /\ e.derived = d.derived /\ e.owners = d.owners /\ e.provenance
         /\ LET e == Migrated(d, 3)
             IN  e.patents = "record" /\ e.derived = "none" /\ e.owners = d.owners /\ e.provenance = d.provenance
         /\ LET e == Migrated(d, 4)
             IN  /\ e.patents = d.patents /\ e.derived = d.derived /\ e.owners = d.owners
                 /\ e.provenance = d.provenance
         /\ LET e == Migrated(d, 5)
             IN  e.patents = d.patents /\ e.derived = d.derived /\ e.owners /\ e.provenance = d.provenance
<1>1. LET e == Migrated(d, 2)
      IN  e.patents = d.patents /\ e.derived = d.derived /\ e.owners = d.owners /\ e.provenance
  <2>1. Migrated(d, 2) = [[d EXCEPT !.provenance = TRUE] EXCEPT !.version = 3] BY MigratedFields
  <2> QED BY <2>1 DEF Databases
<1>2. LET e == Migrated(d, 3)
      IN  e.patents = "record" /\ e.derived = "none" /\ e.owners = d.owners /\ e.provenance = d.provenance
  <2>1. Migrated(d, 3) = [[[[d EXCEPT !.patents = "record"] EXCEPT !.derived = "none"]
                          EXCEPT !.index = "none"] EXCEPT !.version = 4]
    BY MigratedFields
  <2> QED BY <2>1 DEF Databases
<1>3. LET e == Migrated(d, 4)
      IN  e.patents = d.patents /\ e.derived = d.derived /\ e.owners = d.owners /\ e.provenance = d.provenance
  <2>1. PICK b \in BOOLEAN : Migrated(d, 4) = [[d EXCEPT !.kinds = b] EXCEPT !.version = 5]
    BY MigratedFields
  <2> QED BY <2>1 DEF Databases
<1>4. LET e == Migrated(d, 5)
      IN  e.patents = d.patents /\ e.derived = d.derived /\ e.owners /\ e.provenance = d.provenance
  <2>1. Migrated(d, 5) = [[d EXCEPT !.owners = TRUE] EXCEPT !.version = 6] BY MigratedFields
  <2> QED BY <2>1 DEF Databases
<1> QED BY <1>1, <1>2, <1>3, <1>4

LEMMA NumberMigrated ==
  ASSUME TypeOK, NumberExact, NEW p \in Processes, Migrate(p)
  PROVE  NumberExact'
<1> DEFINE v == proc[p].version
<1>1. UNCHANGED origin /\ At(p, "migrate") /\ OnlyMoves(p) /\ v \in 2..5
  BY MigrateMoves DEF SameExceptProc
<1>2. Opening(p) /\ origin # Obsolete BY <1>1, AcceptedOrigin DEF Opening, OpenStages, At
<1>3. (v \in 2..3 => db.version = v) /\ (v \in 4..5 => db.version >= v)
  BY <1>1 DEF NumberExact, MigratingFrom, Migrating, At
<1>4. db \in Databases /\ db.version \in 0..6 BY DEF TypeOK, Databases, Current
<1>5. CASE db' = db /\ proc'[p].pc = "ended"
  <2>1. MigratingFrom(p)' /\ SchemaOver(p)' BY <1>5 DEF MigratingFrom, SchemaOver, Migrating, Filling
  <2> QED BY <1>1, <1>2, <1>5, <2>1, NumberQuiet
<1>6. CASE /\ db' = Migrated(db, v) /\ db'.version = v + 1 /\ proc'[p].version = v + 1
           /\ proc'[p].pc = (IF v = 5 THEN "meta" ELSE "backup")
           /\ v = 3 => db.patents = "patent"
  <2>1. MigratingFrom(p)' BY <1>1, <1>6 DEF MigratingFrom, Migrating
  <2>2. SchemaOver(p)' BY <1>1, <1>6 DEF SchemaOver, Filling
  <2>3. db'.version # NoMeta /\ db'.version # NoVersion BY <1>1, <1>6 DEF NoMeta, NoVersion
  <2>4. \/ db.version \in 2..3
        \/ db.version \in 4..Current /\ db'.version \in 5..Current
    BY <1>1, <1>3, <1>4, <1>6 DEF Current
  <2>5. db.version \notin 2..3 => db'.version \notin 2..3 BY <1>1, <1>3, <1>4, <1>6
  <2>6. NumberTellsTheTables' /\ (db'.patents = "none" => db'.derived = "none")
    <3>0. NumberTellsTheTables /\ (db.patents = "none" => db.derived = "none") BY DEF NumberExact
    <3> USE DEF NumberTellsTheTables, NoVersion, Current
    <3>1. CASE v = 2
      <4>1. /\ db'.patents = db.patents /\ db'.derived = db.derived /\ db'.provenance /\ db'.version = 3
            /\ db.version = 2
        BY <1>3, <1>4, <1>6, <3>1, MigratedTables
      <4> QED BY <3>0, <4>1
    <3>2. CASE v = 3
      <4>1. /\ db'.patents = "record" /\ db'.derived = "none" /\ db'.provenance = db.provenance /\ db'.version = 4
            /\ db.version = 3 /\ db.patents = "patent"
        BY <1>3, <1>4, <1>6, <3>2, MigratedTables
      <4> QED BY <3>0, <4>1
    <3>3. CASE v = 4
      <4>1. /\ db'.patents = db.patents /\ db'.derived = db.derived /\ db'.provenance = db.provenance
            /\ db'.version = 5 /\ db.version \in 4..6
        BY <1>3, <1>4, <1>6, <3>3, MigratedTables
      <4> QED BY <3>0, <4>1
    <3>4. CASE v = 5
      <4>1. /\ db'.patents = db.patents /\ db'.derived = db.derived /\ db'.provenance = db.provenance
            /\ db'.owners /\ db'.version = 6 /\ db.version \in 5..6
        BY <1>3, <1>4, <1>6, <3>4, MigratedTables
      <4> QED BY <3>0, <4>1
    <3> QED BY <1>1, <3>1, <3>2, <3>3, <3>4
  <2> QED BY <1>1, <1>2, <2>1, <2>2, <2>3, <2>4, <2>5, <2>6, NumberChanged
<1> QED BY <1>5, <1>6, MigrateMoves

LEMMA NumberKept ==
  ASSUME TypeOK, NumberExact, Guarded, [Next]_vars
  PROVE  NumberExact'
<1>1. ASSUME NEW p \in Processes, Start(p) PROVE NumberExact' BY <1>1, NumberStart
<1>2. ASSUME NEW p \in Processes, OpenStep(p) PROVE NumberExact'
  BY <1>2, NumberLooks, NumberIndexed, NumberTables, NumberMeta, NumberVersion, NumberMigrated DEF OpenStep
<1>3. ASSUME NEW p \in Processes, ServeStep(p) PROVE NumberExact'
  <2>1. PICK pc \in Holding \union {"drain", "ended"} : Goto(p, pc) BY <1>3, ServeMoves
  <2>2. OnlyMoves(p) /\ proc'[p].pc \in Holding \union {"drain", "ended"}
    BY <2>1, GotoMoves DEF Stages
  <2>3. UNCHANGED <<db, origin>> /\ proc[p].pc \in Holding \union {"engine", "drain"} BY <1>3, ServeMoves
  <2>4. origin # Obsolete BY <2>3, AcceptedOrigin DEF Holding
  <2>5. MigratingFrom(p)' /\ SchemaOver(p)' /\ ~Opening(p)'
    BY <2>2 DEF MigratingFrom, SchemaOver, Opening, Migrating, Filling, OpenStages, Holding
  <2> QED BY <2>2, <2>3, <2>4, <2>5, NumberQuiet
<1>4. CASE StopStep
  <2>1. UNCHANGED <<db, origin>> /\ \A q \in Processes : proc'[q].pc = proc[q].pc /\ proc'[q].version = proc[q].version
    BY <1>4, StopMoves
  <2> QED BY <2>1 DEF NumberExact, OnlyOneOpens, Opening, MigratingFrom, SchemaOver, NumberTellsTheTables
<1>5. CASE UNCHANGED vars
  BY <1>5 DEF vars, NumberExact, OnlyOneOpens, Opening, MigratingFrom, SchemaOver, NumberTellsTheTables
<1> QED BY <1>1, <1>2, <1>3, <1>4, <1>5, StepKinds

-----------------------------------------------------------------------------
(* The copies. *)

LEMMA CopiesOpening ==
  ASSUME CopiesExact, NEW p \in Processes, OnlyMoves(p), Opening(p), UNCHANGED <<origin, alone>>,
         origin.version >= 2 => db'.version >= 2, alone => CopyReady(p)', RestorePointsAreKept'
  PROVE  CopiesExact'
<1>1. CASE alone
  <2>1. \A q \in Processes \ {p} : ~Opening(q) /\ proc'[q] = proc[q]
    BY <1>1 DEF CopiesExact, OnlyOneOpens, OnlyMoves
  <2>2. \A q \in Processes \ {p} : ~Opening(q)' BY <2>1 DEF Opening
  <2>3. \A q \in Processes \ {p} : CopyReady(q)'
    BY <2>1, <2>2 DEF CopyReady, Opening, Migrating, OpenStages
  <2> QED BY <1>1, <2>2, <2>3 DEF CopiesExact, OnlyOneOpens
<1>2. CASE ~alone BY <1>2 DEF CopiesExact
<1> QED BY <1>1, <1>2

\* Steps that leave the copies and the version alone, and after which p does not migrate.
LEMMA CopiesQuiet ==
  ASSUME TypeOK, CopiesExact, NEW p \in Processes,
         \/ OpenFails(p) \/ Inspect(p) \/ RequireVersion(p) \/ Opened(p) \/ CreateTables(p)
         \/ DropNarrowIndex(p) \/ CreateIndex(p) \/ RebuildIndex(p)
  PROVE  CopiesExact'
<1>1. UNCHANGED <<origin, alone, copies>>
  BY DEF OpenFails, Inspect, RequireVersion, Opened, CreateTables, DropNarrowIndex, CreateIndex, RebuildIndex,
     Step, history
<1>2. db'.version = db.version
  <2>1. \/ db' = db \/ \E x : db' = [db EXCEPT !.index = x]
        \/ CreateTables(p)
    BY DEF OpenFails, Inspect, RequireVersion, Opened, DropNarrowIndex, CreateIndex, RebuildIndex
  <2>2. ASSUME NEW x, db' = [db EXCEPT !.index = x] PROVE db'.version = db.version
    BY <2>2 DEF TypeOK, Databases
  <2>3. CASE CreateTables(p) BY <2>3 DEF CreateTables, TypeOK, Databases
  <2> QED BY <2>1, <2>2, <2>3
<1>3. OnlyMoves(p) /\ Opening(p) /\ proc'[p].pc \notin Migrating
  <2>1. CASE Opened(p) BY <2>1, OpenedMoves DEF Opening, OpenStages, At, Migrating
  <2>2. CASE ~Opened(p)
    <3>1. PICK pc \in OpenStages \union {"ended"} : Goto(p, pc) /\ pc \notin Migrating
      BY <2>2, OpeningMoves DEF OpenStages, Migrating
    <3>2. Opening(p) BY <2>2, OpeningMoves DEF Opening, OpenStages, At
    <3> QED BY <3>1, <3>2, GotoMoves DEF Stages
  <2> QED BY <2>1, <2>2
<1>4. CopyReady(p)' BY <1>3 DEF CopyReady, Migrating
<1>5. RestorePointsAreKept' BY <1>1, <1>2 DEF CopiesExact, RestorePointsAreKept
<1> QED BY <1>1, <1>2, <1>3, <1>4, <1>5, CopiesOpening DEF CopiesExact

LEMMA CopiesNumbered ==
  ASSUME TypeOK, CopiesExact, NEW p \in Processes, ReadVersion(p) \/ CreateMeta(p) \/ WriteVersion(p)
  PROVE  CopiesExact'
<1>0. db \in Databases /\ db.version \in 0..6 BY DEF TypeOK, Databases, Current
<1>1. CASE ReadVersion(p)
  <2>1. /\ OnlyMoves(p) /\ UNCHANGED <<db, copies, origin, alone>> /\ Opening(p)
        /\ proc'[p].version = db.version /\ proc'[p].pc \in {"meta", "ended", "migrate", "backup"}
    BY <1>1, ReadVersionMoves DEF SameExceptProc, Opening, OpenStages, At
  <2>2. proc'[p].pc = "migrate" => db.version = 2
    <3>1. \A v \in 3..6 : NextFrom(v) # "migrate" BY DEF NextFrom, Copied, Current
    <3> QED BY <1>0, <1>1, <3>1, ReadVersionMoves DEF NoMeta, NoVersion
  <2>3. CopyReady(p)' BY <2>1, <2>2 DEF CopyReady, Copied
  <2>4. RestorePointsAreKept' BY <2>1 DEF CopiesExact, RestorePointsAreKept
  <2> QED BY <2>1, <2>3, <2>4, CopiesOpening DEF CopiesExact
<1>2. CASE CreateMeta(p) \/ WriteVersion(p)
  <2>1. UNCHANGED <<origin, alone, copies>> BY <1>2 DEF CreateMeta, WriteVersion, Step, history
  <2>2. OnlyMoves(p) /\ Opening(p) /\ proc'[p].pc \in {"number", "tables"}
    <3>1. (Goto(p, "number") \/ Goto(p, "tables")) /\ Opening(p)
      BY <1>2, OpeningMoves DEF Opening, OpenStages, At
    <3> QED BY <3>1, GotoMoves DEF Stages, OpenStages
  <2>3. origin.version >= 2 => db'.version = db.version
    <3> SUFFICES ASSUME origin.version >= 2 PROVE db'.version = db.version OBVIOUS
    <3>1. db.version # NoMeta /\ db.version # NoVersion BY <1>0 DEF CopiesExact, NoMeta, NoVersion
    <3>2. db' = [db EXCEPT !.version = db.version] BY <1>2, <3>1 DEF CreateMeta, WriteVersion
    <3> QED BY <1>0, <3>2 DEF Databases
  <2>4. CopyReady(p)' BY <2>2 DEF CopyReady, Migrating
  <2>5. RestorePointsAreKept' BY <2>1, <2>3 DEF CopiesExact, RestorePointsAreKept
  <2> QED BY <2>1, <2>2, <2>3, <2>4, <2>5, CopiesOpening DEF CopiesExact
<1> QED BY <1>1, <1>2

\* A process that copies touches the copy of the version that the file has.
LEMMA CopiesMade ==
  ASSUME TypeOK, CopiesExact, NEW p \in Processes, RemoveOldCopy(p) \/ StartCopy(p) \/ FinishCopy(p)
  PROVE  CopiesExact'
<1> DEFINE v == proc[p].version
<1>1. UNCHANGED <<db, origin, alone>> BY DEF RemoveOldCopy, StartCopy, FinishCopy, Step, history
<1>2. proc[p].pc \in {"backup", "copy", "copying"} /\ Opening(p)
  BY OpeningMoves DEF Opening, OpenStages, At
<1>3. v \in Copied /\ CopyOf(p) = v BY <1>2 DEF TypeOK, Counting, Migrating, CopyOf
<1>4. /\ OnlyMoves(p) /\ proc'[p].pc \in {"copy", "copying", "migrate", "ended"}
      /\ proc'[p].pc # "ended" => proc'[p].version = v
  <2>1. Goto(p, "copy") \/ Goto(p, "copying") \/ Goto(p, "migrate") \/ Goto(p, "ended")
    BY OpeningMoves
  <2> QED BY <2>1, GotoMoves DEF Stages, OpenStages
<1>5. copies \in [Copied -> [by : Processes \union {Nobody}, of : 0..Current, whole : BOOLEAN]] BY DEF TypeOK
<1>6. \A u \in Copied \ {v} : copies'[u] = copies[u]
  BY <1>3, <1>5 DEF RemoveOldCopy, StartCopy, FinishCopy
<1>7. alone => db.version = v BY <1>2 DEF CopiesExact, CopyReady, Migrating
<1>8. RestorePointsAreKept'
  <2> SUFFICES ASSUME alone, origin.version >= 2, NEW u \in Copied, origin.version <= u, u < db.version
               PROVE  copies'[u].whole /\ copies'[u].of = u
    BY <1>1 DEF RestorePointsAreKept
  <2>1. u # v BY <1>3, <1>7 DEF Copied
  <2> QED BY <1>6, <2>1 DEF CopiesExact, RestorePointsAreKept
<1>9. alone => CopyReady(p)'
  <2> SUFFICES ASSUME alone PROVE CopyReady(p)' OBVIOUS
  <2>1. CASE RemoveOldCopy(p)
    <3>1. proc'[p].pc = "copy" BY <2>1, OpeningMoves, GotoMoves DEF Stages, OpenStages
    <3> QED BY <1>1, <1>4, <1>7, <3>1 DEF CopyReady
  <2>2. CASE StartCopy(p)
    <3>1. CASE proc'[p].pc = "ended" BY <3>1 DEF CopyReady, Migrating
    <3>2. CASE proc'[p].pc # "ended"
      <4>1. proc'[p].pc = "copying" BY <2>2, <3>2, OpeningMoves, GotoMoves DEF Stages, OpenStages
      <4>2. ~Goto(p, "ended") BY <3>2, GotoMoves DEF Stages
      <4>3. copies' = [copies EXCEPT ![v] = [by |-> p, of |-> db.version, whole |-> FALSE]]
        BY <1>3, <2>2, <4>2 DEF StartCopy
      <4>4. copies'[v].by = p /\ copies'[v].of = v BY <1>3, <1>5, <1>7, <4>3
      <4> QED BY <1>1, <1>4, <1>7, <4>1, <4>4 DEF CopyReady
    <3> QED BY <3>1, <3>2
  <2>3. CASE FinishCopy(p)
    <3>1. proc'[p].pc = "migrate" /\ proc[p].pc = "copying"
      BY <2>3, OpeningMoves, GotoMoves DEF Stages, OpenStages, At
    <3>2. copies[v].by = p /\ copies[v].of = v BY <3>1 DEF CopiesExact, CopyReady
    <3>3. copies' = [copies EXCEPT ![v].whole = @ \/ copies[v].by = p] BY <1>3, <2>3 DEF FinishCopy
    <3>4. copies'[v].whole /\ copies'[v].of = v BY <1>3, <1>5, <3>2, <3>3
    <3> QED BY <1>1, <1>4, <1>7, <3>1, <3>4 DEF CopyReady
  <2> QED BY <2>1, <2>2, <2>3
<1> QED BY <1>1, <1>2, <1>4, <1>8, <1>9, CopiesOpening DEF CopiesExact

LEMMA CopiesMigrated ==
  ASSUME TypeOK, CopiesExact, NEW p \in Processes, Migrate(p)
  PROVE  CopiesExact'
<1> DEFINE v == proc[p].version
<1>1. /\ UNCHANGED <<origin, alone, copies>> /\ OnlyMoves(p) /\ At(p, "migrate") /\ Opening(p) /\ v \in 2..5
      /\ \/ db' = db /\ proc'[p].pc = "ended"
         \/ /\ db'.version = v + 1 /\ proc'[p].version = v + 1
            /\ proc'[p].pc = (IF v = 5 THEN "meta" ELSE "backup")
  BY MigrateMoves DEF SameExceptProc, Opening, OpenStages, At
<1>2. CASE db' = db /\ proc'[p].pc = "ended"
  <2>1. CopyReady(p)' BY <1>2 DEF CopyReady, Migrating
  <2>2. RestorePointsAreKept' BY <1>1, <1>2 DEF CopiesExact, RestorePointsAreKept
  <2> QED BY <1>1, <1>2, <2>1, <2>2, CopiesOpening DEF CopiesExact
<1>3. CASE /\ db'.version = v + 1 /\ proc'[p].version = v + 1
           /\ proc'[p].pc = (IF v = 5 THEN "meta" ELSE "backup")
  <2>1. CopyReady(p)' BY <1>3 DEF CopyReady, Migrating
  <2>2. RestorePointsAreKept'
    <3> SUFFICES ASSUME alone, origin.version >= 2, NEW u \in Copied, origin.version <= u, u < v + 1
                 PROVE  copies[u].whole /\ copies[u].of = u
      BY <1>1, <1>3 DEF RestorePointsAreKept
    <3>1. CopyReady(p) /\ RestorePointsAreKept BY DEF CopiesExact
    <3>2. CASE u = v BY <1>1, <3>1, <3>2 DEF CopyReady, At
    <3>3. CASE u # v
      <4>1. u < v BY <1>1, <3>3 DEF Copied
      <4>2. db.version = v BY <1>1, <3>1 DEF CopyReady, Migrating, At
      <4> QED BY <3>1, <4>1, <4>2 DEF RestorePointsAreKept
    <3> QED BY <3>2, <3>3
  <2> QED BY <1>1, <1>3, <2>1, <2>2, CopiesOpening
<1> QED BY <1>1, <1>2, <1>3

LEMMA CopiesKept ==
  ASSUME TypeOK, CopiesExact, [Next]_vars
  PROVE  CopiesExact'
<1>0. ASSUME UNCHANGED <<db, origin, copies>>, alone' => alone,
             \A q \in Processes : Opening(q)' => proc'[q].pc = proc[q].pc /\ proc'[q].version = proc[q].version
      PROVE  CopiesExact'
  <2>1. RestorePointsAreKept' BY <1>0 DEF CopiesExact, RestorePointsAreKept
  <2>2. alone' => OnlyOneOpens' BY <1>0 DEF CopiesExact, OnlyOneOpens, Opening
  <2>3. ASSUME alone', NEW q \in Processes PROVE CopyReady(q)'
    <3>1. CASE Opening(q)' BY <1>0, <2>3, <3>1 DEF CopiesExact, CopyReady
    <3>2. CASE ~Opening(q)' BY <3>2 DEF CopyReady, Opening, Migrating, OpenStages
    <3> QED BY <3>1, <3>2
  <2> QED BY <1>0, <2>1, <2>2, <2>3 DEF CopiesExact
<1>1. ASSUME NEW p \in Processes, Start(p) PROVE CopiesExact'
  <2>1. /\ UNCHANGED <<db, origin, copies>> /\ Goto(p, "inspect")
        /\ alone' => alone /\ \A q \in Processes : ~Opening(q)
    BY <1>1 DEF Start
  <2>2. OnlyMoves(p) /\ proc'[p].pc = "inspect" BY <2>1, GotoMoves DEF Stages, OpenStages
  <2>3. RestorePointsAreKept' BY <2>1 DEF CopiesExact, RestorePointsAreKept
  <2>4. alone' => \A q \in Processes \ {p} : ~Opening(q)' BY <2>1, <2>2 DEF OnlyMoves, Opening
  <2>5. alone' => \A q \in Processes : CopyReady(q)'
    BY <2>2, <2>4 DEF CopyReady, Opening, Migrating, OpenStages
  <2> QED BY <2>1, <2>3, <2>4, <2>5 DEF CopiesExact, OnlyOneOpens
<1>2. ASSUME NEW p \in Processes, OpenStep(p) PROVE CopiesExact'
  BY <1>2, CopiesQuiet, CopiesNumbered, CopiesMade, CopiesMigrated DEF OpenStep
<1>3. ASSUME NEW p \in Processes, ServeStep(p) PROVE CopiesExact'
  <2>1. PICK pc \in Holding \union {"drain", "ended"} : Goto(p, pc) BY <1>3, ServeMoves
  <2>2. OnlyMoves(p) /\ proc'[p].pc \in Holding \union {"drain", "ended"} BY <2>1, GotoMoves DEF Stages
  <2>3. UNCHANGED <<db, origin, alone, copies>> BY <1>3, ServeMoves
  <2>4. ~Opening(p)' BY <2>2 DEF Opening, OpenStages, Holding
  <2> QED BY <1>0, <2>2, <2>3, <2>4 DEF OnlyMoves
<1>4. CASE StopStep BY <1>0, <1>4, StopMoves
<1>5. CASE UNCHANGED vars BY <1>0, <1>5 DEF vars
<1> QED BY <1>1, <1>2, <1>3, <1>4, <1>5, StepKinds

-----------------------------------------------------------------------------
(* The files of the daemons. *)

LEMMA FilesStart ==
  ASSUME TypeOK, FilesExact, Careful, NEW p \in Processes, Start(p)
  PROVE  FilesExact'
<1>1. Goto(p, "inspect") /\ At(p, "idle") /\ MayStart(p) /\ UNCHANGED <<pidfile, socket, stop>>
  BY DEF Start, files
<1>2. OnlyMoves(p) /\ proc'[p].pc = "inspect" BY <1>1, GotoMoves DEF Stages, OpenStages
<1>3. pidfile # Nobody => pidfile # p /\ pidfile \in Serves
  BY <1>1 DEF FilesExact, TypeOK, Holding, At
<1>4. pidfile' # Nobody => proc'[pidfile'].pc \in Holding \union {"ended"}
  BY <1>1, <1>2, <1>3 DEF FilesExact, OnlyMoves, Processes
<1>5. \A q \in Serves : q # p => proc'[q] = proc[q] BY <1>2 DEF OnlyMoves, Processes
<1>6. \A q \in Serves : /\ proc'[q].pc \in Holding => pidfile' = q
                        /\ proc'[q].pc = "serving" => socket' = q
  BY <1>1, <1>2, <1>5 DEF FilesExact, Holding
<1>7. CASE p \in Serves
  <2>1. /\ stop.pc = "idle" /\ (pidfile # Nobody => Ended(pidfile))
        /\ \A q \in Serves : ~Opening(q) /\ proc[q].pc \notin MountStages
    BY <1>1, <1>7 DEF MayStart
  <2>2. \A q \in Serves : q # p => proc[q].pc \notin {"engine"} \union Holding
    <3> SUFFICES ASSUME NEW q \in Serves, proc[q].pc \in Holding PROVE FALSE
      BY <2>1 DEF MountStages
    <3>1. pidfile = q /\ q # Nobody BY StartupAssumption DEF FilesExact, Processes
    <3> QED BY <2>1, <3>1 DEF Ended, At, Holding
  <2>3. \A q \in Daemons' : q = p BY <1>5, <2>1, <2>2 DEF Daemons, Opening
  <2> QED BY <1>1, <1>4, <1>6, <2>1, <2>3 DEF FilesExact
<1>8. CASE p \notin Serves
  <2>1. \A q \in Serves : proc'[q] = proc[q] BY <1>5, <1>8
  <2>2. \A q : q \in Daemons' => q \in Daemons BY <2>1 DEF Daemons, Opening
  <2>3. stop'.pc # "idle" =>
          /\ \A q \in Serves : ~Opening(q)' /\ proc'[q].pc \notin MountStages
          /\ \A q \in Daemons' : q = stop'.of
          /\ stop'.of # Nobody /\ proc'[stop'.of].pc \in Holding \union {"drain", "ended"}
    BY <1>1, <2>1, <2>2 DEF FilesExact, Opening, TypeOK
  <2> QED BY <1>4, <1>6, <2>2, <2>3 DEF FilesExact
<1> QED BY <1>7, <1>8

LEMMA FilesOpening ==
  ASSUME TypeOK, FilesExact, NEW p \in Processes, OpenStep(p)
  PROVE  FilesExact'
<1>1. UNCHANGED <<pidfile, socket, stop>>
  BY DEF OpenStep, OpenFails, Inspect, ReadVersion, RemoveOldCopy, StartCopy, FinishCopy, Migrate, CreateMeta,
     WriteVersion, CreateTables, RequireVersion, DropNarrowIndex, CreateIndex, RebuildIndex, Opened, Step, files
<1>2. OnlyMoves(p) /\ Opening(p) /\ proc'[p].pc \in OpenStages \union {"engine", "ended"}
  <2>1. CASE ReadVersion(p) BY <2>1, ReadVersionMoves DEF Opening, OpenStages, At
  <2>2. CASE Migrate(p)
    <3>1. proc'[p].pc \in {"ended", "meta", "backup"} /\ OnlyMoves(p) /\ At(p, "migrate")
      BY <2>2, MigrateMoves
    <3> QED BY <3>1 DEF Opening, OpenStages, At
  <2>3. CASE Opened(p) BY <2>3, OpenedMoves DEF Opening, OpenStages, At
  <2>4. CASE ~(ReadVersion(p) \/ Migrate(p) \/ Opened(p))
    <3>1. PICK pc \in OpenStages \union {"ended"} : Goto(p, pc)
      BY <2>4, OpeningMoves DEF OpenStep, OpenStages
    <3>2. Opening(p) BY <2>4, OpeningMoves DEF OpenStep, Opening, OpenStages, At
    <3> QED BY <3>1, <3>2, GotoMoves DEF Stages
  <2> QED BY <2>1, <2>2, <2>3, <2>4
<1>3. proc'[p].pc \notin Holding \union {"unlink", "listen"} BY <1>2 DEF OpenStages, Holding
<1>4. \A q \in Serves : q # p => proc'[q] = proc[q] BY <1>2 DEF OnlyMoves, Processes
<1>5. pidfile # Nobody => pidfile # p /\ pidfile \in Serves
  BY <1>2 DEF FilesExact, TypeOK, Holding, Opening, OpenStages
<1>6. pidfile' # Nobody => proc'[pidfile'].pc \in Holding \union {"ended"}
  BY <1>1, <1>4, <1>5 DEF FilesExact
<1>7. \A q \in Serves : /\ proc'[q].pc \in Holding => pidfile' = q
                        /\ proc'[q].pc = "serving" => socket' = q
  BY <1>1, <1>3, <1>4 DEF FilesExact, Holding
<1>8. \A q : q \in Daemons' => q \in Daemons BY <1>2, <1>4 DEF Daemons, Opening
<1>9. stop'.pc # "idle" =>
        /\ \A q \in Serves : ~Opening(q)' /\ proc'[q].pc \notin MountStages
        /\ \A q \in Daemons' : q = stop'.of
        /\ stop'.of # Nobody /\ proc'[stop'.of].pc \in Holding \union {"drain", "ended"}
  <2> SUFFICES ASSUME stop.pc # "idle"
               PROVE  /\ \A q \in Serves : ~Opening(q)' /\ proc'[q].pc \notin MountStages
                      /\ \A q \in Daemons' : q = stop.of
                      /\ stop.of # Nobody /\ proc'[stop.of].pc \in Holding \union {"drain", "ended"}
    BY <1>1
  <2>1. p \notin Serves BY <1>2 DEF FilesExact
  <2>2. \A q \in Serves : proc'[q] = proc[q] BY <1>4, <2>1
  <2> QED BY <1>8, <2>2 DEF FilesExact, Opening, TypeOK
<1> QED BY <1>6, <1>7, <1>8, <1>9 DEF FilesExact

\* A step of the one daemon there is.
LEMMA FilesOfDaemon ==
  ASSUME TypeOK, FilesExact, NEW p \in Serves, OnlyMoves(p), UNCHANGED stop,
         proc[p].pc \in {"engine"} \union Holding, proc'[p].pc \in Holding \union {"drain", "ended"},
         proc'[p].pc \in MountStages => proc[p].pc \in MountStages,
         proc'[p].pc \in Holding => pidfile' = p,
         proc'[p].pc = "serving" => socket' = p,
         \/ pidfile' = Nobody
         \/ pidfile' = p /\ proc'[p].pc \in Holding \union {"ended"}
         \/ pidfile' = pidfile /\ pidfile # p
  PROVE  FilesExact'
<1>1. \A q \in Serves : q # p => proc'[q] = proc[q] BY DEF OnlyMoves, Processes
<1>2. \A q \in Daemons : q = p BY DEF FilesExact, Daemons
<1>3. \A q : q \in Daemons' => q = p BY <1>1, <1>2 DEF Daemons, Opening
<1>4. \A q \in Serves : q # p => proc'[q].pc \notin Holding BY <1>1, <1>2 DEF Daemons
<1>5. \A q \in Serves : /\ proc'[q].pc \in Holding => pidfile' = q
                        /\ proc'[q].pc = "serving" => socket' = q
  BY <1>4 DEF Holding
<1>6. pidfile' # Nobody => proc'[pidfile'].pc \in Holding \union {"ended"}
  BY <1>1 DEF FilesExact, TypeOK
<1>7. stop'.pc # "idle" =>
        /\ \A q \in Serves : ~Opening(q)' /\ proc'[q].pc \notin MountStages
        /\ \A q \in Daemons' : q = stop'.of
        /\ stop'.of # Nobody /\ proc'[stop'.of].pc \in Holding \union {"drain", "ended"}
  <2> SUFFICES ASSUME stop.pc # "idle"
               PROVE  /\ \A q \in Serves : ~Opening(q)' /\ proc'[q].pc \notin MountStages
                      /\ \A q \in Daemons' : q = stop.of
                      /\ stop.of # Nobody /\ proc'[stop.of].pc \in Holding \union {"drain", "ended"}
    OBVIOUS
  <2>1. p \in Daemons /\ stop.of = p BY DEF FilesExact, Daemons
  <2>2. ~Opening(p)' BY DEF Opening, OpenStages, Holding
  <2>3. \A q \in Serves : ~Opening(q)' /\ proc'[q].pc \notin MountStages
    BY <1>1, <2>2 DEF FilesExact, Opening
  <2> QED BY <1>3, <2>1, <2>3 DEF FilesExact
<1> QED BY <1>3, <1>5, <1>6, <1>7 DEF FilesExact

LEMMA FilesServe ==
  ASSUME TypeOK, FilesExact, NEW p \in Processes, ServeStep(p)
  PROVE  FilesExact'
<1>1. p \in Serves /\ UNCHANGED stop BY ServeMoves
<1>2. proc[p].pc \in Holding => pidfile = p BY <1>1 DEF FilesExact
<1>3. p # Nobody BY StartupAssumption
<1>4. \A pc \in Holding \union {"drain", "ended"} : Goto(p, pc) => OnlyMoves(p) /\ proc'[p].pc = pc
  BY GotoMoves DEF Stages
<1>5. CASE WritePID(p)
  <2>1. /\ proc[p].pc = "engine"
        /\ \/ pidfile' = p /\ Goto(p, "unlink")
           \/ pidfile' = pidfile /\ Goto(p, "drain")
    BY <1>5 DEF WritePID, Serve, At
  <2>2. pidfile # p BY <1>3, <2>1 DEF FilesExact, Holding
  <2>3. OnlyMoves(p) /\ (\/ pidfile' = p /\ proc'[p].pc = "unlink"
                         \/ pidfile' = pidfile /\ proc'[p].pc = "drain")
    BY <1>4, <2>1 DEF Holding
  <2> QED BY <1>1, <2>1, <2>2, <2>3, FilesOfDaemon DEF Holding, MountStages
<1>6. CASE ClearSocket(p) \/ Listen(p) \/ CloseListener(p) \/ AcceptFails(p) \/ ShutdownBackup(p)
  <2>1. proc[p].pc \in {"unlink", "listen", "serving", "snapshot"} /\ pidfile' = pidfile
    BY <1>6 DEF ClearSocket, Listen, CloseListener, AcceptFails, ShutdownBackup, Serve, At, files
  <2>2. \/ Goto(p, "listen") /\ proc[p].pc = "unlink"
        \/ Goto(p, "serving") /\ socket' = p
        \/ Goto(p, "unpid") \/ Goto(p, "snapshot") \/ Goto(p, "unsocket")
    BY <1>6 DEF ClearSocket, Listen, CloseListener, AcceptFails, ShutdownBackup, Serve, At
  <2>3. /\ OnlyMoves(p) /\ proc'[p].pc \in {"listen", "serving", "unpid", "snapshot", "unsocket"}
        /\ proc'[p].pc = "listen" => proc[p].pc = "unlink"
        /\ proc'[p].pc = "serving" => socket' = p
    BY <1>4, <2>2 DEF Holding
  <2>4. pidfile' = p BY <1>2, <2>1 DEF Holding
  <2> QED BY <1>1, <2>1, <2>3, <2>4, FilesOfDaemon DEF Holding, MountStages
<1>7. CASE TakeDown(p)
  <2>1. \/ proc[p].pc = "unsocket" /\ Goto(p, "unpid") /\ pidfile' = pidfile
        \/ proc[p].pc = "unpid" /\ Goto(p, "drain") /\ pidfile' = Nobody
    BY <1>7 DEF TakeDown, Serve, At, Removed
  <2>2. \/ proc[p].pc = "unsocket" /\ proc'[p].pc = "unpid" /\ pidfile' = pidfile
        \/ proc[p].pc = "unpid" /\ proc'[p].pc = "drain" /\ pidfile' = Nobody
    BY <1>4, <2>1 DEF Holding
  <2>3. OnlyMoves(p) BY <1>4, <2>1 DEF Holding
  <2> QED BY <1>1, <1>2, <2>2, <2>3, FilesOfDaemon DEF Holding, MountStages
<1>8. CASE Kill(p) /\ proc[p].pc # "drain"
  <2>1. Goto(p, "ended") /\ UNCHANGED <<pidfile, socket>> BY <1>8 DEF Kill, files
  <2>2. OnlyMoves(p) /\ proc'[p].pc = "ended" BY <1>4, <2>1
  <2>3. proc[p].pc \in {"engine"} \union Holding BY <1>8, ServeMoves
  <2> QED BY <1>1, <2>1, <2>2, <2>3, FilesOfDaemon DEF Holding, MountStages
<1>9. CASE proc[p].pc = "drain" /\ (CloseEngine(p) \/ Kill(p))
  <2>1. Goto(p, "ended") /\ UNCHANGED <<pidfile, socket>> BY <1>9 DEF CloseEngine, Kill, files
  <2>2. OnlyMoves(p) /\ proc'[p].pc = "ended" BY <1>4, <2>1
  <2>3. \A q \in Serves : q # p => proc'[q] = proc[q] BY <2>2 DEF OnlyMoves, Processes
  <2>4. \A q : q \in Daemons' => q \in Daemons
    BY <2>2, <2>3 DEF Daemons, Opening, OpenStages, Holding
  <2>5. \A q \in Serves : /\ proc'[q].pc \in Holding => pidfile' = q
                          /\ proc'[q].pc = "serving" => socket' = q
    BY <2>1, <2>2, <2>3 DEF FilesExact, Holding
  <2>6. pidfile' # Nobody => proc'[pidfile'].pc \in Holding \union {"ended"}
    BY <2>1, <2>2, <2>3 DEF FilesExact, TypeOK
  <2>7. \A q \in Serves : (Opening(q)' => Opening(q)) /\ (proc'[q].pc \in MountStages => proc[q].pc \in MountStages)
    BY <2>2, <2>3 DEF Opening, OpenStages, MountStages
  <2>8. stop'.pc # "idle" =>
          stop'.of # Nobody /\ proc'[stop'.of].pc \in Holding \union {"drain", "ended"}
    BY <1>1, <2>2, <2>3 DEF FilesExact, TypeOK
  <2> QED BY <1>1, <2>4, <2>5, <2>6, <2>7, <2>8 DEF FilesExact
<1>10. CloseEngine(p) => proc[p].pc = "drain" BY DEF CloseEngine, Serve, At
<1> QED BY <1>5, <1>6, <1>7, <1>8, <1>9, <1>10 DEF ServeStep

LEMMA FilesStop ==
  ASSUME TypeOK, FilesExact, Careful, StopStep
  PROVE  FilesExact'
<1>0. \A q \in Processes : proc'[q].pc = proc[q].pc BY StopMoves
<1>1. socket' = socket /\ pidfile' \in {pidfile, Nobody} BY StopMoves
<1>2. Serves \subseteq Processes /\ Nobody \notin Serves BY StartupAssumption DEF Processes
<1>3. \A q : q \in Daemons' <=> q \in Daemons BY <1>0, <1>2 DEF Daemons, Opening
<1>4. \A q \in Serves : (Opening(q)' <=> Opening(q)) BY <1>0, <1>2 DEF Opening
<1>5. pidfile' # Nobody => proc'[pidfile'].pc \in Holding \union {"ended"}
  BY <1>0, <1>1, <1>2 DEF FilesExact, TypeOK
<1>6. ASSUME pidfile' = pidfile
      PROVE  \A q \in Serves : /\ proc'[q].pc \in Holding => pidfile' = q
                               /\ proc'[q].pc = "serving" => socket' = q
  BY <1>0, <1>1, <1>2, <1>6 DEF FilesExact
<1>7. CASE UNCHANGED <<pidfile, stop>>
  <2>1. stop'.pc # "idle" =>
          /\ \A q \in Serves : ~Opening(q)' /\ proc'[q].pc \notin MountStages
          /\ \A q \in Daemons' : q = stop'.of
          /\ stop'.of # Nobody /\ proc'[stop'.of].pc \in Holding \union {"drain", "ended"}
    BY <1>0, <1>2, <1>3, <1>4, <1>7 DEF FilesExact, TypeOK
  <2> QED BY <1>3, <1>5, <1>6, <1>7, <2>1 DEF FilesExact
<1>8. CASE ReadPID
  <2>1. /\ \A q \in Serves : ~Opening(q) /\ proc[q].pc \notin MountStages
        /\ pidfile # Nobody /\ stop'.of = pidfile /\ pidfile' = pidfile
    BY <1>8 DEF ReadPID, files
  <2>2. \A q \in Daemons : q = pidfile BY <2>1 DEF Daemons, FilesExact, MountStages
  <2>3. pidfile \in Serves /\ proc[pidfile].pc \in Holding \union {"ended"} BY <2>1 DEF FilesExact, TypeOK
  <2> QED BY <1>0, <1>2, <1>3, <1>4, <1>5, <1>6, <2>1, <2>2, <2>3 DEF FilesExact
<1>9. CASE SignalDaemon /\ Ended(stop.of)
  <2>1. pidfile' = Nobody /\ stop'.pc = "idle" /\ stop.pc = "signal"
    BY <1>9 DEF SignalDaemon, TypeOK
  <2>2. \A q \in Daemons : q = stop.of BY <2>1 DEF FilesExact
  <2>3. \A q \in Serves : proc[q].pc \notin Holding BY <1>9, <2>2 DEF Daemons, Ended, At, Holding
  <2>4. \A q \in Serves : proc'[q].pc \notin Holding BY <1>0, <1>2, <2>3
  <2> QED BY <1>3, <2>1, <2>4 DEF FilesExact, Holding
<1>10. CASE SignalDaemon /\ ~Ended(stop.of)
  <2>1. pidfile' = pidfile /\ stop.pc = "signal" /\ stop'.of = stop.of
    BY <1>10 DEF SignalDaemon, TypeOK
  <2>2. /\ \A q \in Serves : ~Opening(q)' /\ proc'[q].pc \notin MountStages
        /\ \A q \in Daemons' : q = stop.of
    BY <1>0, <1>2, <1>3, <1>4, <2>1 DEF FilesExact
  <2>3. stop.of # Nobody /\ proc'[stop.of].pc \in Holding \union {"drain", "ended"}
    BY <1>0, <1>2, <2>1 DEF FilesExact, TypeOK
  <2> QED BY <1>3, <1>5, <1>6, <2>1, <2>2, <2>3 DEF FilesExact
<1>11. CASE PollPID
  <2>1. pidfile' = pidfile /\ stop'.pc = "idle" BY <1>11 DEF PollPID, files, TypeOK
  <2> QED BY <1>3, <1>5, <1>6, <2>1 DEF FilesExact
<1>12. (\E p \in Processes : Interrupt(p)) => UNCHANGED <<pidfile, stop>> BY DEF Interrupt, files
<1> QED BY <1>7, <1>8, <1>9, <1>10, <1>11, <1>12 DEF StopStep

LEMMA FilesKept ==
  ASSUME TypeOK, FilesExact, Careful, [Next]_vars
  PROVE  FilesExact'
<1>1. ASSUME NEW p \in Processes, Start(p) PROVE FilesExact' BY <1>1, FilesStart
<1>2. ASSUME NEW p \in Processes, OpenStep(p) PROVE FilesExact' BY <1>2, FilesOpening
<1>3. ASSUME NEW p \in Processes, ServeStep(p) PROVE FilesExact' BY <1>3, FilesServe
<1>4. CASE StopStep BY <1>4, FilesStop
<1>5. CASE UNCHANGED vars BY <1>5 DEF vars, FilesExact, Daemons, Opening
<1> QED BY <1>1, <1>2, <1>3, <1>4, <1>5, StepKinds

-----------------------------------------------------------------------------
(* The invariant, and what it gives. *)

LEMMA OriginsAreSupported ==
  ASSUME NEW d \in Origins
  PROVE  /\ d \in Databases /\ d.version # NoVersion
         /\ d.patents = "none" => d.derived = "none"
         /\ d.version \in 2..Current /\ d.patents # "none" =>
                /\ d.patents = (IF d.version < 4 THEN "patent" ELSE "record")
                /\ d.version < 4 <=> d.derived = "old"
                /\ d.version >= 3 => d.provenance
                /\ d.version = Current => d.owners
<1>1. ASSUME NEW v \in {NoMeta} \union 2..Current
      PROVE  LET e == Database(v)
             IN  /\ e.version = v /\ e.patents = (IF v = NoMeta THEN "none" ELSE IF v < 4 THEN "patent" ELSE "record")
                 /\ (v >= 3 => e.provenance) /\ (v >= 6 => e.owners)
                 /\ e.derived = (IF v = NoMeta THEN "none" ELSE IF v < 4 THEN "old" ELSE "new")
  BY DEF Database
<1>2. CASE \E v \in {NoMeta} \union 2..Current : d = Database(v)
  <2>1. PICK v \in {NoMeta} \union 2..Current : d = Database(v) BY <1>2
  <2>2. d \in Databases BY <2>1, DatabasesTyped
  <2>3. /\ d.version = v /\ d.patents = (IF v = NoMeta THEN "none" ELSE IF v < 4 THEN "patent" ELSE "record")
        /\ (v >= 3 => d.provenance) /\ (v >= 6 => d.owners)
        /\ d.derived = (IF v = NoMeta THEN "none" ELSE IF v < 4 THEN "old" ELSE "new")
    BY <1>1, <2>1
  <2>4. v = 0 \/ v \in 2..6 BY DEF NoMeta, Current
  <2> QED BY <2>2, <2>3, <2>4 DEF NoMeta, NoVersion, Current
<1>3. CASE d = Obsolete
  <2>1. d.version = NoMeta /\ d.patents = "patent" BY <1>3 DEF Obsolete, Database, NoMeta
  <2> QED BY <1>3, <2>1, DatabasesTyped DEF NoMeta, NoVersion
<1>4. CASE d = Narrow
  <2>1. /\ d.version = Current /\ d.patents = "record" /\ d.derived = "new"
        /\ d.provenance /\ d.owners
    <3>1. /\ Database(6).version = 6 /\ Database(6).patents = "record" /\ Database(6).derived = "new"
          /\ Database(6).provenance /\ Database(6).owners
      <4>1. 6 \in {NoMeta} \union 2..Current /\ 6 # NoMeta BY DEF NoMeta, Current
      <4> QED BY <1>1, <4>1
    <3>2. d = [Database(6) EXCEPT !.index = "narrow"] BY <1>4 DEF Narrow, Current
    <3>3. Database(6) \in Databases BY DatabasesTyped DEF Current
    <3> HIDE DEF Database
    <3> QED BY <3>1, <3>2, <3>3 DEF Databases, Current
  <2>2. d \in Databases BY <1>4, DatabasesTyped
  <2> QED BY <2>1, <2>2 DEF NoVersion, Current
<1> QED BY <1>2, <1>3, <1>4, StartupAssumption

LEMMA InitHolds ==
  ASSUME Init
  PROVE  IInv
<1>1. db \in Origins /\ origin = db /\ alone = TRUE BY DEF Init
<1>2. /\ db \in Databases /\ db.version # NoVersion
      /\ db.patents = "none" => db.derived = "none"
      /\ db.version \in 2..Current /\ db.patents # "none" =>
             /\ db.patents = (IF db.version < 4 THEN "patent" ELSE "record")
             /\ db.version < 4 <=> db.derived = "old"
             /\ db.version >= 3 => db.provenance
             /\ db.version = Current => db.owners
  BY <1>1, OriginsAreSupported
<1>3. \A p \in Processes : proc[p] = Fresh("idle") BY DEF Init
<1>4. Fresh("idle") \in [pc : Stages, version : 0..Current, signalled : BOOLEAN] /\ Fresh("idle").pc = "idle"
  BY DEF Fresh, Stages, NoMeta, Current
<1>5. \A p \in Processes : proc[p].pc = "idle" BY <1>3, <1>4
<1>6. TypeOK
  <2>1. copies \in [Copied -> [by : Processes \union {Nobody}, of : 0..Current, whole : BOOLEAN]]
    <3>1. NoCopy \in [by : Processes \union {Nobody}, of : 0..Current, whole : BOOLEAN]
      BY DEF NoCopy, NoMeta, Current
    <3> QED BY <3>1 DEF Init
  <2>2. proc \in [Processes -> [pc : Stages, version : 0..Current, signalled : BOOLEAN]]
    BY <1>4 DEF Init
  <2>3. /\ pidfile \in Serves \union {Nobody} /\ socket \in Serves \union {Nobody}
        /\ stop \in [pc : {"idle", "signal", "poll"}, of : Serves \union {Nobody}]
    BY DEF Init
  <2>4. \A p \in Processes : Serving(p) /\ Counting(p)
    BY <1>5 DEF Serving, Counting, Holding, Migrating
  <2> QED BY <1>1, <1>2, <2>1, <2>2, <2>3, <2>4 DEF TypeOK
<1>7. OnlyOneOpens BY <1>5 DEF OnlyOneOpens, Opening, OpenStages
<1>8. NumberExact
  <2>1. \A p \in Processes : MigratingFrom(p) /\ SchemaOver(p)
    BY <1>5 DEF MigratingFrom, SchemaOver, Migrating, Filling
  <2>2. NumberTellsTheTables BY <1>2 DEF NumberTellsTheTables
  <2> QED BY <1>1, <1>2, <1>5, <1>7, <2>1, <2>2 DEF NumberExact
<1>9. CopiesExact
  <2>1. \A p \in Processes : CopyReady(p) BY <1>5 DEF CopyReady, Migrating
  <2>2. RestorePointsAreKept
    <3>1. db.version \in 0..6 BY <1>2 DEF Databases, Current
    <3>2. \A v \in Copied : ~(db.version <= v /\ v < db.version) BY <3>1 DEF Copied
    <3> QED BY <1>1, <3>2 DEF RestorePointsAreKept
  <2> QED BY <1>1, <1>7, <2>1, <2>2 DEF CopiesExact
<1>10. FilesExact
  <2>1. pidfile = Nobody /\ stop.pc = "idle" BY DEF Init
  <2>2. Serves \subseteq Processes BY DEF Processes
  <2> QED BY <1>5, <2>1, <2>2 DEF FilesExact, Daemons, Opening, OpenStages, Holding
<1> QED BY <1>6, <1>8, <1>9, <1>10 DEF IInv

LEMMA NextKeeps ==
  ASSUME IInv, [Next]_vars
  PROVE  IInv'
<1>1. TypeOK' BY TypesKept DEF IInv
<1>2. ASSUME Guarded' PROVE NumberExact'
  <2>1. origin' = origin
    BY DEF vars, Next, Start, OpenFails, Inspect, ReadVersion, RemoveOldCopy, StartCopy, FinishCopy, Migrate,
       CreateMeta, WriteVersion, CreateTables, RequireVersion, DropNarrowIndex, CreateIndex, RebuildIndex,
       Opened, WritePID, ClearSocket, Listen, CloseListener, AcceptFails, ShutdownBackup, TakeDown,
       CloseEngine, Kill, Interrupt, ReadPID, SignalDaemon, PollPID, Step, Serve, history
  <2>2. Guarded BY <1>2, <2>1 DEF Guarded
  <2> QED BY <2>2, NumberKept DEF IInv
<1>3. CopiesExact' BY CopiesKept DEF IInv
<1>4. Careful => FilesExact' BY FilesKept DEF IInv
<1> QED BY <1>1, <1>2, <1>3, <1>4 DEF IInv

\* The invariant is inductive, however the processes' steps mix and wherever they end.
THEOREM StartupInductive == Spec => []IInv
<1>1. Init => IInv BY InitHolds
<1>2. IInv /\ [Next]_vars => IInv' BY NextKeeps
<1> QED BY <1>1, <1>2, PTL DEF Spec

\* Every process is at a stage of its command and, while it migrates, at a version that a
\* migration leads from (sqlite.go OpenWithMetrics, migrate.go; serve.go runServe).
THEOREM StartupTypes == Spec => []TypeOK
<1>1. IInv => TypeOK BY DEF IInv
<1> QED BY <1>1, StartupInductive, PTL

\* If people open a database of version 2 or 3 with one command at a time, then the number
\* in the file tells its tables, whatever number of processes opens it, in whatever order
\* their steps come, and wherever one fails: each migration commits its number with its
\* changes (migrate.go), and schema.sql's first statements number a new file alone.
THEOREM NumbersTellTheTables ==
  ASSUME Careful
  PROVE  Spec => []NumberTellsTheTables
<1>1. IInv => NumberTellsTheTables BY DEF IInv, Guarded, NumberExact
<1> QED BY <1>1, StartupInductive, PTL

\* As long as no two processes open the database at once, a whole copy of each version it
\* has passed lies beside it, careful or not (migrate.go backupBeforeMigration,
\* backup.go Backup).
THEOREM RestorePointsStay == Spec => []RestorePointsAreKept
<1>1. IInv => RestorePointsAreKept BY DEF IInv, CopiesExact
<1> QED BY <1>1, StartupInductive, PTL

\* If daemons are started one at a time, the files of the one that serves are its own: no
\* other takes them down, whichever was killed or stopped before (serve.go runServe).
THEOREM DaemonsAreReachable ==
  ASSUME Careful
  PROVE  Spec => []ServingIsReachable
<1>1. IInv => ServingIsReachable
  BY DEF IInv, FilesExact, ServingIsReachable, At, Holding
<1> QED BY <1>1, StartupInductive, PTL

\* If they are, what stop reports is so: a pid file that has gone is that of the daemon
\* stop signalled, past its listener (serve.go runStop).
THEOREM StopsAreTrue ==
  ASSUME Careful
  PROVE  Spec => StoppedIsDown
<1>1. IInv => (stop.pc = "poll" /\ stop'.pc = "idle" /\ pidfile = Nobody => proc[stop.of].pc \in {"drain", "ended"})
  <2> SUFFICES ASSUME IInv, stop.pc = "poll", pidfile = Nobody
               PROVE  proc[stop.of].pc \in {"drain", "ended"}
    OBVIOUS
  <2>1. FilesExact /\ TypeOK BY DEF IInv
  <2>2. stop.of # Nobody /\ stop.of \in Serves /\ proc[stop.of].pc \in Holding \union {"drain", "ended"}
    BY <2>1 DEF FilesExact, TypeOK
  <2>3. proc[stop.of].pc \notin Holding BY <2>1, <2>2 DEF FilesExact
  <2> QED BY <2>2, <2>3
<1> QED BY <1>1, StartupInductive, PTL DEF StoppedIsDown
=============================================================================
