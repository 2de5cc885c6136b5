------------------------------ MODULE Recorder ------------------------------
(***************************************************************************)
(* Recording as cmakedb-record does it: record() runs CMake, which leaves  *)
(* a trace next to the database and a File API reply in the build          *)
(* directory, removes the old database, creates a new one and ingests      *)
(* trace, sources and reply in one transaction.  Jobs are calls of         *)
(* record(), as made by `record`, by `matrix` for each preset and by       *)
(* `modernize --fix`.  Around them the user edits the sources, a reader    *)
(* (the language server, --also, diff) opens the database at any moment,   *)
(* and a job may be killed at any moment.                                  *)
(*                                                                         *)
(* The sources are a version number.  A trace or a reply is known by the   *)
(* job that had it written and the version CMake read.                     *)
(***************************************************************************)
EXTENDS Naturals, FiniteSets

CONSTANTS
    Jobs,      \* calls of record()
    DbOf,      \* the database a job writes
    TraceOf,   \* the trace.jsonl next to it: one per directory
    BuildOf,   \* the build directory it reads the File API reply from
    Stray,     \* jobs whose raw arguments have CMake configure another one
    Polled,    \* databases a reader opens without asking whether they exist
    Stuck,     \* databases that cannot be removed, as while a reader holds them
    Killed,    \* jobs that may be killed, at any moment
    MaxEdits,  \* bound on the user's edits
    None,      \* no file; nobody
    Blank,     \* a database file without tables
    Schema     \* a database file with the tables of the schema, all empty

\* A File API reply and a trace, by the job CMake ran for and the version of
\* the sources it read; the content of a database file that is a recording.
Origin    == [by : Jobs, ran : Nat]
TraceFile == [by : Jobs, ran : Nat, mixed : BOOLEAN]
Recording == [events : TraceFile, graph : Origin \cup {None}, text : Nat]

ASSUME RecorderAssumption ==
    /\ Stray \subseteq Jobs
    /\ MaxEdits \in Nat
    /\ None # Blank /\ None # Schema /\ Blank # Schema
    /\ {None, Blank, Schema} \cap Recording = {}
    /\ None \notin TraceFile /\ None \notin Origin /\ None \notin Nat

Dbs    == {DbOf[j] : j \in Jobs}
Traces == {TraceOf[j] : j \in Jobs}
Builds == {BuildOf[j] : j \in Jobs}

VARIABLES
    now,    \* version of the sources: the edits so far
    pc,     \* where each job is
    read,   \* the version its CMake read
    text,   \* the version its ingestion parsed
    trace,  \* the trace files
    reply,  \* the File API replies
    db      \* the database files

vars == <<now, pc, read, text, trace, reply, db>>

Holds(d) == db[d] \notin {None, Blank, Schema}

Steps == {"idle", "configuring", "configured", "removed", "created", "parsed",
          "committed", "done", "refused", "uncreated", "failed", "dead"}

Over(j) == pc[j] \in {"idle", "done", "refused", "uncreated", "failed", "dead"}

Init ==
    /\ now = 0
    /\ pc = [j \in Jobs |-> "idle"]
    /\ read = [j \in Jobs |-> 0]
    /\ text = [j \in Jobs |-> 0]
    /\ trace = [t \in Traces |-> None]
    /\ reply = [b \in Builds |-> None]
    /\ db = [d \in Dbs |-> None]

Goto(j, step) == pc' = [pc EXCEPT ![j] = step]

\* Slip: jobs with databases of their own run in parallel.
SlipMayStart(j) == \A k \in Jobs : DbOf[k] = DbOf[j] => Over(k)

\* `matrix` records its presets one after the other, and a fix waits for its
\* recording; nobody starts two recorders by hand in one directory.
MayStart(j) == \A k \in Jobs : Over(k)

(***************************************************************************)
(* CMake opens the trace, emptying it, and reads the sources.  Two CMakes  *)
(* writing to one file leave a mixture.                                    *)
(***************************************************************************)
Launch(j) ==
    /\ pc[j] = "idle"
    /\ MayStart(j)
    /\ Goto(j, "configuring")
    /\ read' = [read EXCEPT ![j] = now]
    /\ trace' = [trace EXCEPT ![TraceOf[j]] =
                   [by |-> j, ran |-> now,
                    mixed |-> \E k \in Jobs : pc[k] = "configuring"
                                                /\ TraceOf[k] = TraceOf[j]]]
    /\ UNCHANGED <<now, text, reply, db>>

ConfigureOk(j) ==
    /\ pc[j] = "configuring"
    /\ Goto(j, "configured")
    /\ reply' = IF j \in Stray THEN reply
                ELSE [reply EXCEPT ![BuildOf[j]] = [by |-> j, ran |-> read[j]]]
    /\ UNCHANGED <<now, read, text, trace, db>>

\* remove_file; what it returns is ignored.
Unlinked(d) == {[db EXCEPT ![d] = None]} \cup IF d \in Stuck THEN {db} ELSE {}

\* Slip: the stale database is removed before the configure, not after.
SlipConfigureFails(j) ==
    /\ pc[j] = "configuring"
    /\ Goto(j, "refused")
    /\ db' \in Unlinked(DbOf[j])
    /\ UNCHANGED <<now, read, text, trace, reply>>

\* A failed configure is reported before anything is written.
ConfigureFails(j) ==
    /\ pc[j] = "configuring"
    /\ Goto(j, "refused")
    /\ UNCHANGED <<now, read, text, trace, reply, db>>

RemoveStale(j) ==
    /\ pc[j] = "configured"
    /\ Goto(j, "removed")
    /\ db' \in Unlinked(DbOf[j])
    /\ UNCHANGED <<now, read, text, trace, reply>>

\* CREATE TABLE IF NOT EXISTS, each statement committed by itself.
CreateDb(j) ==
    /\ pc[j] = "removed"
    /\ Goto(j, "created")
    /\ db' = [db EXCEPT ![DbOf[j]] = IF Holds(DbOf[j]) THEN @ ELSE Schema]
    /\ UNCHANGED <<now, read, text, trace, reply>>

\* Db::create may fail at any of its statements; the file stays.
CreateFails(j) ==
    /\ pc[j] = "removed"
    /\ Goto(j, "uncreated")
    /\ \E file \in IF Holds(DbOf[j]) THEN {db[DbOf[j]]} ELSE {db[DbOf[j]], Blank, Schema} :
          db' = [db EXCEPT ![DbOf[j]] = file]
    /\ UNCHANGED <<now, read, text, trace, reply>>

\* The files the trace names are parsed, from what they hold by now.
Parse(j) ==
    /\ pc[j] = "created"
    /\ Goto(j, "parsed")
    /\ text' = [text EXCEPT ![j] = now]
    /\ UNCHANGED <<now, read, trace, reply, db>>

\* Slip: events are dated by the text they are joined to.
SlipIngested(j) ==
    LET t == trace[TraceOf[j]]
    IN  [events |-> [t EXCEPT !.ran = text[j]], graph |-> reply[BuildOf[j]],
         text |-> text[j]]

\* What the transaction inserts.
Ingested(j) ==
    [events |-> trace[TraceOf[j]], graph |-> reply[BuildOf[j]], text |-> text[j]]

\* files.path is UNIQUE: a second recording of the sources does not go into
\* a database that has one.
Commit(j) ==
    /\ pc[j] = "parsed"
    /\ ~Holds(DbOf[j])
    /\ Goto(j, "committed")
    /\ db' = [db EXCEPT ![DbOf[j]] = Ingested(j)]
    /\ UNCHANGED <<now, read, text, trace, reply>>

Reindex(j) ==
    /\ pc[j] = "committed"
    /\ Goto(j, "done")
    /\ UNCHANGED <<now, read, text, trace, reply, db>>

\* Slip: the file is left to the transaction's rollback.
SlipDiscarded(d) == {db}

Discarded(d) == Unlinked(d)

\* Any error of ingest: the transaction is rolled back and the file removed.
IngestFails(j) ==
    /\ pc[j] \in {"created", "parsed", "committed"}
    /\ Goto(j, "failed")
    /\ db' \in Discarded(DbOf[j])
    /\ UNCHANGED <<now, read, text, trace, reply>>

Crash(j) ==
    /\ j \in Killed
    /\ ~Over(j)
    /\ Goto(j, "dead")
    /\ UNCHANGED <<now, read, text, trace, reply, db>>

\* Db::open: SQLite creates the file it does not find, and the count of an
\* absent table is 0, which passes for a valid database.
Open(d) ==
    /\ db[d] = None
    /\ db' = [db EXCEPT ![d] = Blank]
    /\ UNCHANGED <<now, pc, read, text, trace, reply>>

Edit ==
    /\ now < MaxEdits
    /\ now' = now + 1
    /\ UNCHANGED <<pc, read, text, trace, reply, db>>

Next ==
    \/ \E j \in Jobs :
          \/ Launch(j) \/ ConfigureOk(j) \/ ConfigureFails(j)
          \/ RemoveStale(j) \/ CreateDb(j) \/ CreateFails(j) \/ Parse(j) \/ Commit(j) \/ Reindex(j)
          \/ IngestFails(j) \/ Crash(j)
    \/ \E d \in Polled : Open(d)
    \/ Edit

Spec == Init /\ [][Next]_vars

-----------------------------------------------------------------------------
TypeOK ==
    /\ now \in 0..MaxEdits
    /\ pc \in [Jobs -> Steps]
    /\ read \in [Jobs -> 0..MaxEdits]
    /\ text \in [Jobs -> 0..MaxEdits]
    /\ trace \in [Traces -> TraceFile \cup {None}]
    /\ reply \in [Builds -> Origin \cup {None}]
    /\ db \in [Dbs -> {None, Blank, Schema} \cup Recording]

\* What a running job will ingest is its own: nobody else runs, and the trace
\* and the reply it is going to read are those its CMake left.
Ingesting == {"configured", "removed", "created", "parsed"}

OwnInputs ==
    /\ \A j, k \in Jobs : ~Over(j) /\ ~Over(k) => j = k
    /\ \A j \in Jobs :
        /\ read[j] <= now
        /\ pc[j] \in Ingesting \cup {"configuring"} =>
              trace[TraceOf[j]] = [by |-> j, ran |-> read[j], mixed |-> FALSE]
        /\ pc[j] \in Ingesting /\ Stray = {} =>
              reply[BuildOf[j]] = [by |-> j, ran |-> read[j]]
        /\ pc[j] = "parsed" => text[j] \in read[j]..now

\* A recording joins the trace and the build graph of one and the same
\* configure, run by a job for this very database, whatever failed or was
\* killed before and whoever shares the trace file or the build directory.
OneConfigure ==
    \A d \in Dbs : Holds(d) =>
        LET e == db[d].events
        IN  /\ DbOf[e.by] = d
            /\ ~e.mixed
            /\ db[d].graph # None => db[d].graph = [by |-> e.by, ran |-> e.ran]

\* The invariant the proofs are by induction on.
RecorderInv == TypeOK /\ OwnInputs /\ (Stray = {} => OneConfigure)

\* Once record() has reported success the database has that job's recording,
\* until another job for the database has configured successfully.
SuccessStays ==
    \A j \in Jobs : pc[j] = "done" =>
        \/ Holds(DbOf[j]) /\ db[DbOf[j]].events.by = j
        \/ \E k \in Jobs : /\ k # j /\ DbOf[k] = DbOf[j]
                           /\ pc[k] \notin {"idle", "configuring", "configured", "refused"}

\* Opening the database shows that job j failed, or another job has the file.
Shows(j) ==
    \/ db[DbOf[j]] = None
    \/ \E k \in Jobs : /\ k # j /\ DbOf[k] = DbOf[j]
                       /\ pc[k] \notin {"idle", "configuring", "configured", "refused"}

\* A failed ingestion leaves no file, so that opening the recording reports
\* the failure (lib.rs:180-182), until another job writes the database.  Stated
\* of the databases that no reader opens before it has seen the file, and that
\* can be removed: the others may hold an empty database.
FailureShows ==
    \A j \in Jobs :
        pc[j] = "failed" /\ DbOf[j] \notin Polled \cup Stuck => Shows(j)

\* Jobs, readers and crashes together do no more to the recordings a reader
\* can see than RecordingStore allows.
Store == INSTANCE RecordingStore WITH
    begun <- [j \in Jobs |-> IF Over(j) THEN None ELSE read[j]],
    store <- [d \in Dbs |->
                IF ~Holds(d) THEN None
                ELSE [job |-> db[d].events.by, ran |-> db[d].events.ran,
                      graph |-> IF db[d].graph = None THEN None ELSE db[d].graph.ran,
                      text |-> db[d].text]]

StoreSpec == Store!SSpec

=============================================================================
