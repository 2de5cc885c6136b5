--------------------------- MODULE RecorderProofs ---------------------------
(***************************************************************************)
(* For any number of recordings, databases, shared trace files and build   *)
(* directories: RecorderInv is inductive, and Recorder implements          *)
(* RecordingStore.                                                         *)
(***************************************************************************)
EXTENDS Recorder, TLAPS

\* The directories and databases of the jobs are among those that exist.
LEMMA Places ==
    ASSUME NEW j \in Jobs
    PROVE  DbOf[j] \in Dbs /\ TraceOf[j] \in Traces /\ BuildOf[j] \in Builds
BY DEF Dbs, Traces, Builds

\* Nothing has happened yet.
LEMMA InitInv == Init => RecorderInv
<1> SUFFICES ASSUME Init PROVE RecorderInv
  OBVIOUS
<1> USE RecorderAssumption DEF Init
<1>1. TypeOK
  BY DEF TypeOK, Steps
<1>2. OwnInputs
  BY DEF OwnInputs, Over, Ingesting
<1>3. OneConfigure
  BY DEF OneConfigure, Holds
<1> QED BY <1>1, <1>2, <1>3 DEF RecorderInv

\* Every step keeps the types.
LEMMA TypeStep == TypeOK /\ OwnInputs /\ [Next]_vars => TypeOK'
<1> SUFFICES ASSUME TypeOK, OwnInputs, [Next]_vars PROVE TypeOK'
  OBVIOUS
<1> USE RecorderAssumption, Places DEF TypeOK
<1>1. ASSUME NEW j \in Jobs, Launch(j) PROVE TypeOK'
  BY <1>1 DEF Launch, Goto, Steps, TraceFile
<1>2. ASSUME NEW j \in Jobs, ConfigureOk(j) PROVE TypeOK'
  BY <1>2 DEF ConfigureOk, Goto, Steps, Origin
<1>3. ASSUME NEW j \in Jobs, ConfigureFails(j) PROVE TypeOK'
  BY <1>3 DEF ConfigureFails, Goto, Steps
<1>4. ASSUME NEW j \in Jobs, RemoveStale(j) PROVE TypeOK'
  BY <1>4 DEF RemoveStale, Goto, Steps, Unlinked
<1>5. ASSUME NEW j \in Jobs, CreateDb(j) PROVE TypeOK'
  BY <1>5 DEF CreateDb, Goto, Steps
<1>6. ASSUME NEW j \in Jobs, CreateFails(j) PROVE TypeOK'
  BY <1>6 DEF CreateFails, Goto, Steps
<1>7. ASSUME NEW j \in Jobs, Parse(j) PROVE TypeOK'
  BY <1>7 DEF Parse, Goto, Steps
<1>8. ASSUME NEW j \in Jobs, Commit(j) PROVE TypeOK'
  <2>1. trace[TraceOf[j]] \in TraceFile
    <3>1. trace[TraceOf[j]] = [by |-> j, ran |-> read[j], mixed |-> FALSE]
      BY <1>8 DEF Commit, OwnInputs, Ingesting
    <3>2. read[j] \in Nat
      OBVIOUS
    <3> QED BY <3>1, <3>2 DEF TraceFile
  <2>2. reply[BuildOf[j]] \in Origin \cup {None} /\ text[j] \in Nat
    OBVIOUS
  <2>3. Ingested(j) \in Recording
    BY <2>1, <2>2 DEF Ingested, Recording
  <2> QED BY <1>8, <2>3 DEF Commit, Goto, Steps
<1>9. ASSUME NEW j \in Jobs, Reindex(j) PROVE TypeOK'
  BY <1>9 DEF Reindex, Goto, Steps
<1>10. ASSUME NEW j \in Jobs, IngestFails(j) PROVE TypeOK'
  BY <1>10 DEF IngestFails, Goto, Steps, Discarded, Unlinked
<1>11. ASSUME NEW j \in Jobs, Crash(j) PROVE TypeOK'
  BY <1>11 DEF Crash, Goto, Steps
<1>12. ASSUME NEW d \in Polled, Open(d) PROVE TypeOK'
  BY <1>12 DEF Open
<1>13. CASE Edit
  BY <1>13 DEF Edit
<1>14. CASE UNCHANGED vars
  BY <1>14 DEF vars
<1> QED
  BY <1>1, <1>2, <1>3, <1>4, <1>5, <1>6, <1>7, <1>8, <1>9, <1>10, <1>11, <1>12,
     <1>13, <1>14 DEF Next

\* Only one job runs, so what it left for its ingestion stays as it is.
LEMMA InputsStep == TypeOK /\ OwnInputs /\ [Next]_vars => OwnInputs'
<1> SUFFICES ASSUME TypeOK, OwnInputs, [Next]_vars PROVE OwnInputs'
  OBVIOUS
<1> USE RecorderAssumption, Places DEF TypeOK, OwnInputs, Ingesting, Over
<1>1. ASSUME NEW j \in Jobs, Launch(j) PROVE OwnInputs'
  <2>1. \A k \in Jobs : pc[k] # "configuring" /\ (pc'[k] # pc[k] => k = j) /\ Over(k)
    BY <1>1 DEF Launch, Goto, MayStart
  <2>2. trace'[TraceOf[j]] = [by |-> j, ran |-> now, mixed |-> FALSE]
    BY <1>1, <2>1 DEF Launch
  <2>3. pc'[j] = "configuring" /\ read'[j] = now /\ now' = now
    BY <1>1 DEF Launch, Goto
  <2>4. \A k \in Jobs : k # j => Over(k)' /\ read'[k] = read[k]
    BY <1>1, <2>1 DEF Launch, Goto
  <2>5. ASSUME NEW k \in Jobs, NEW l \in Jobs, ~Over(k)', ~Over(l)' PROVE k = l
    BY <2>4, <2>5
  <2>6. ASSUME NEW k \in Jobs
        PROVE  /\ read'[k] <= now'
               /\ pc'[k] \in Ingesting \cup {"configuring"} =>
                     trace'[TraceOf[k]] = [by |-> k, ran |-> read'[k], mixed |-> FALSE]
               /\ ~(pc'[k] \in Ingesting) /\ pc'[k] # "parsed"
    <3>0. now <= now
      OBVIOUS
    <3>1. CASE k = j
      <4>1. pc'[k] = "configuring" /\ read'[k] = now' /\ now' <= now'
        BY <2>3, <3>0, <3>1
      <4>2. trace'[TraceOf[k]] = [by |-> k, ran |-> read'[k], mixed |-> FALSE]
        BY <2>2, <2>3, <3>1
      <4> QED BY <4>1, <4>2
    <3>2. CASE k # j
      BY <2>1, <2>3, <2>4, <3>2
    <3> QED BY <3>1, <3>2
  <2> QED BY <2>5, <2>6
<1>2. ASSUME NEW j \in Jobs, ConfigureOk(j) PROVE OwnInputs'
  BY <1>2 DEF ConfigureOk, Goto
<1>3. ASSUME NEW j \in Jobs,
             \/ ConfigureFails(j) \/ RemoveStale(j) \/ CreateDb(j) \/ CreateFails(j)
             \/ Commit(j) \/ Reindex(j) \/ IngestFails(j) \/ Crash(j)
      PROVE  OwnInputs'
  BY <1>3 DEF ConfigureFails, RemoveStale, CreateDb, CreateFails, Commit, Reindex,
              IngestFails, Crash, Goto
<1>4. ASSUME NEW j \in Jobs, Parse(j) PROVE OwnInputs'
  BY <1>4 DEF Parse, Goto
<1>5. ASSUME NEW d \in Polled, Open(d) PROVE OwnInputs'
  BY <1>5 DEF Open
<1>6. CASE Edit
  BY <1>6 DEF Edit
<1>7. CASE UNCHANGED vars
  BY <1>7 DEF vars
<1> QED
  BY <1>1, <1>2, <1>3, <1>4, <1>5, <1>6, <1>7 DEF Next

\* A database becomes a recording in Commit only.
LEMMA ConfigureStep ==
    TypeOK /\ OwnInputs /\ OneConfigure /\ Stray = {} /\ [Next]_vars => OneConfigure'
<1> SUFFICES ASSUME TypeOK, OwnInputs, OneConfigure, Stray = {}, [Next]_vars,
                    NEW d \in Dbs, Holds(d)'
             PROVE  LET e == db'[d].events
                    IN  /\ DbOf[e.by] = d
                        /\ ~e.mixed
                        /\ db'[d].graph # None => db'[d].graph = [by |-> e.by, ran |-> e.ran]
  BY DEF OneConfigure
<1> USE RecorderAssumption, Places DEF TypeOK, OneConfigure, Holds
<1>1. CASE db'[d] = db[d]
  BY <1>1
<1>2. ASSUME NEW j \in Jobs, Commit(j), DbOf[j] = d PROVE db'[d] = Ingested(j)
  BY <1>2 DEF Commit
<1>3. ASSUME NEW j \in Jobs, Commit(j), DbOf[j] = d
      PROVE  /\ trace[TraceOf[j]] = [by |-> j, ran |-> read[j], mixed |-> FALSE]
             /\ reply[BuildOf[j]] = [by |-> j, ran |-> read[j]]
  BY <1>3 DEF Commit, OwnInputs, Ingesting
<1>4. ASSUME NEW j \in Jobs, Commit(j), DbOf[j] = d
      PROVE  LET e == db'[d].events
             IN  /\ DbOf[e.by] = d
                 /\ ~e.mixed
                 /\ db'[d].graph # None => db'[d].graph = [by |-> e.by, ran |-> e.ran]
  <2>1. db'[d] = Ingested(j)
    BY <1>2, <1>4
  <2>2. db'[d].events = trace[TraceOf[j]] /\ db'[d].graph = reply[BuildOf[j]]
    BY <2>1 DEF Ingested
  <2>3. /\ db'[d].events = [by |-> j, ran |-> read[j], mixed |-> FALSE]
        /\ db'[d].graph = [by |-> j, ran |-> read[j]]
    BY <1>3, <1>4, <2>2
  <2> QED BY <2>3, <1>4
<1>5. ASSUME NEW j \in Jobs, Commit(j), DbOf[j] # d PROVE db'[d] = db[d]
  BY <1>5 DEF Commit
<1>6. ASSUME NEW j \in Jobs, RemoveStale(j) \/ IngestFails(j) PROVE db'[d] \in {db[d], None}
  BY <1>6 DEF RemoveStale, IngestFails, Discarded, Unlinked
<1>7. ASSUME NEW j \in Jobs, CreateDb(j) \/ CreateFails(j)
      PROVE  db'[d] \in {db[d], Blank, Schema}
  BY <1>7 DEF CreateDb, CreateFails
<1>8. ASSUME NEW c \in Polled, Open(c) PROVE db'[d] \in {db[d], Blank}
  BY <1>8 DEF Open
<1>9. ASSUME \/ UNCHANGED vars \/ Edit
             \/ \E j \in Jobs : \/ Launch(j) \/ ConfigureOk(j) \/ ConfigureFails(j)
                                 \/ Parse(j) \/ Reindex(j) \/ Crash(j)
      PROVE  db' = db
  BY <1>9 DEF vars, Edit, Launch, ConfigureOk, ConfigureFails, Parse, Reindex, Crash
<1> QED
  BY <1>1, <1>4, <1>5, <1>6, <1>7, <1>8, <1>9 DEF Next

-----------------------------------------------------------------------------
\* Whatever fails, is killed, cannot be removed or is read in between: the
\* recorder keeps its types and a running job its inputs.
THEOREM RecorderSafe == Spec => []RecorderInv
<1>1. RecorderInv /\ [Next]_vars => RecorderInv'
  BY TypeStep, InputsStep, ConfigureStep DEF RecorderInv
<1> QED BY InitInv, <1>1, PTL DEF Spec

\* As long as CMake configures the build directory the recorder expects, a
\* recording joins the trace and the graph of one and the same configure.
THEOREM RecordingIsOneConfigure ==
    ASSUME Stray = {} PROVE Spec => []OneConfigure
<1>1. RecorderInv => OneConfigure
  BY DEF RecorderInv
<1> QED BY RecorderSafe, <1>1, PTL

-----------------------------------------------------------------------------
(* Recorder implements RecordingStore.                                     *)

Begun == [j \in Jobs |-> IF Over(j) THEN None ELSE read[j]]

Seen(d) == IF ~Holds(d) THEN None
           ELSE [job |-> db[d].events.by, ran |-> db[d].events.ran,
                 graph |-> IF db[d].graph = None THEN None ELSE db[d].graph.ran,
                 text |-> db[d].text]

\* A step of the recorder that changes no database and ends no job is no step
\* of the store; one that ends a job is a Stop.
LEMMA QuietStep ==
    ASSUME TypeOK, NEW j \in Jobs, db' = db, now' = now, read' = read,
           pc' = [pc EXCEPT ![j] = pc'[j]], ~Over(j)
    PROVE  UNCHANGED Store!svars \/ Store!Stop(j)
<1> USE RecorderAssumption DEF TypeOK
<1>1. \A k \in Jobs : k # j => Over(k)' = Over(k)
  BY DEF Over
<1>2. \A d \in Dbs : Seen(d)' = Seen(d)
  BY DEF Seen, Holds
<1>3. CASE Over(j)'
  <2>1. Begun' = [Begun EXCEPT ![j] = None]
    BY <1>1, <1>3 DEF Begun
  <2>2. Begun[j] # None
    BY DEF Begun
  <2> QED BY <1>2, <2>1, <2>2 DEF Store!Stop, Begun, Seen
<1>4. CASE ~Over(j)'
  <2>1. Begun' = Begun
    BY <1>1, <1>4 DEF Begun
  <2> QED BY <1>2, <2>1 DEF Store!svars, Begun, Seen
<1> QED BY <1>3, <1>4

\* A step of a running job that takes the recording out of its database, or
\* leaves a database without one as it is, is a Withdraw or no more than a
\* quiet step.
LEMMA LosingStep ==
    ASSUME TypeOK, NEW j \in Jobs, now' = now, read' = read, ~Over(j),
           pc' = [pc EXCEPT ![j] = pc'[j]],
           \A d \in Dbs : d # DbOf[j] => db'[d] = db[d],
           ~Holds(DbOf[j])'
    PROVE  Store!Withdraw(j)
<1> USE RecorderAssumption, Places DEF TypeOK
<1>1. \A k \in Jobs : k # j => Over(k)' = Over(k)
  BY DEF Over
<1>2. [d \in Dbs |-> Seen(d)'] = [[d \in Dbs |-> Seen(d)] EXCEPT ![DbOf[j]] = None]
  BY DEF Seen, Holds
<1>3. Begun' \in {Begun, [Begun EXCEPT ![j] = None]}
  <2>1. CASE Over(j)'
    BY <1>1, <2>1 DEF Begun
  <2>2. CASE ~Over(j)'
    BY <1>1, <2>2 DEF Begun
  <2> QED BY <2>1, <2>2
<1>4. Begun[j] # None
  BY DEF Begun
<1> QED BY <1>2, <1>3, <1>4 DEF Store!Withdraw, Store!Dbs, Dbs, Begun, Seen

\* Every step of the recorder is a step of the store or none.
LEMMA StoreStep ==
    RecorderInv /\ Stray = {} /\ [Next]_vars => [Store!SNext]_(Store!svars)
<1> SUFFICES ASSUME RecorderInv, Stray = {}, [Next]_vars
             PROVE  Store!SNext \/ UNCHANGED Store!svars
  OBVIOUS
<1> USE RecorderAssumption, Places DEF RecorderInv
<1>1. ASSUME NEW j \in Jobs, Launch(j) PROVE Store!Begin(j)
  <2>1. Over(j) /\ \A k \in Jobs : Over(k)
    BY <1>1 DEF Launch, MayStart, Over
  <2>2. \A k \in Jobs : k # j => Over(k)' /\ read'[k] = read[k]
    BY <1>1, <2>1 DEF Launch, Goto, Over, TypeOK
  <2>3. ~Over(j)' /\ read'[j] = now /\ now' = now /\ db' = db
    BY <1>1 DEF Launch, Goto, Over, TypeOK
  <2>4. Begun = [k \in Jobs |-> None] /\ Begun' = [Begun EXCEPT ![j] = now]
    BY <2>1, <2>2, <2>3 DEF Begun
  <2>5. \A d \in Dbs : Seen(d)' = Seen(d)
    BY <2>3 DEF Seen, Holds
  <2> QED BY <2>3, <2>4, <2>5 DEF Store!Begin, Begun, Seen
<1>2. ASSUME NEW j \in Jobs,
             ConfigureOk(j) \/ ConfigureFails(j) \/ Parse(j) \/ Reindex(j) \/ Crash(j)
      PROVE  UNCHANGED Store!svars \/ Store!Stop(j)
  <2>1. /\ db' = db /\ now' = now /\ read' = read /\ ~Over(j)
        /\ pc' = [pc EXCEPT ![j] = pc'[j]]
    BY <1>2 DEF ConfigureOk, ConfigureFails, Parse, Reindex, Crash, Goto, Over, TypeOK
  <2> QED BY <2>1, QuietStep
<1>3. ASSUME NEW j \in Jobs,
             RemoveStale(j) \/ IngestFails(j) \/ CreateDb(j) \/ CreateFails(j)
      PROVE  UNCHANGED Store!svars \/ Store!Stop(j) \/ Store!Withdraw(j)
  <2>1. /\ now' = now /\ read' = read /\ ~Over(j)
        /\ pc' = [pc EXCEPT ![j] = pc'[j]]
    BY <1>3 DEF RemoveStale, IngestFails, CreateDb, CreateFails, Goto, Over, TypeOK
  <2>2. \A d \in Dbs : d # DbOf[j] => db'[d] = db[d]
    BY <1>3 DEF RemoveStale, IngestFails, CreateDb, CreateFails, Discarded, Unlinked, TypeOK
  <2>3. db' = db \/ ~Holds(DbOf[j])'
    BY <1>3 DEF RemoveStale, IngestFails, CreateDb, CreateFails, Discarded, Unlinked,
                Holds, TypeOK
  <2> QED BY <2>1, <2>2, <2>3, QuietStep, LosingStep
<1>4. ASSUME NEW j \in Jobs, Commit(j) PROVE Store!Publish(j)
  <2>1. /\ trace[TraceOf[j]] = [by |-> j, ran |-> read[j], mixed |-> FALSE]
        /\ reply[BuildOf[j]] = [by |-> j, ran |-> read[j]]
        /\ text[j] \in read[j]..now
    BY <1>4 DEF Commit, OwnInputs, Ingesting
  <2>2. db' = [db EXCEPT ![DbOf[j]] = Ingested(j)] /\ now' = now /\ read' = read
    BY <1>4 DEF Commit
  <2>3. Begun' = Begun /\ Begun[j] = read[j]
    BY <1>4 DEF Commit, Goto, Begun, Over, TypeOK
  <2>4. Ingested(j) = [events |-> [by |-> j, ran |-> read[j], mixed |-> FALSE],
                       graph |-> [by |-> j, ran |-> read[j]], text |-> text[j]]
    BY <2>1 DEF Ingested
  <2>5. Ingested(j) \notin {None, Blank, Schema}
    <3>1. Ingested(j) \in Recording
      BY <2>4 DEF Recording, TraceFile, Origin, TypeOK
    <3> QED BY <3>1
  <2>6. [by |-> j, ran |-> read[j]] # None
    BY DEF Origin, TypeOK
  <2>7. Seen(DbOf[j])' = [job |-> j, ran |-> read[j], graph |-> read[j], text |-> text[j]]
    BY <2>2, <2>4, <2>5, <2>6 DEF Seen, Holds, TypeOK
  <2>8. \A d \in Dbs : d # DbOf[j] => Seen(d)' = Seen(d)
    BY <2>2 DEF Seen, Holds, TypeOK
  <2>9. [d \in Dbs |-> Seen(d)'] =
          [[d \in Dbs |-> Seen(d)] EXCEPT
              ![DbOf[j]] = [job |-> j, ran |-> read[j], graph |-> read[j], text |-> text[j]]]
    BY <2>7, <2>8
  <2>10. Begun[j] # None
    BY <2>3 DEF TypeOK
  <2> QED BY <2>1, <2>2, <2>3, <2>9, <2>10 DEF Store!Publish, Begun, Seen
<1>5. ASSUME NEW d \in Polled, Open(d) PROVE UNCHANGED Store!svars
  <2>1. /\ now' = now /\ read' = read /\ pc' = pc
        /\ db[d] = None /\ db' = [db EXCEPT ![d] = Blank]
    BY <1>5 DEF Open
  <2>2. Begun' = Begun
    BY <2>1 DEF Begun, Over
  <2>3. \A c \in Dbs : Seen(c)' = Seen(c)
    BY <2>1 DEF Seen, Holds, TypeOK
  <2> QED BY <2>1, <2>2, <2>3 DEF Store!svars, Begun, Seen
<1>6. CASE Edit
  <2>1. Begun' = Begun /\ now' = now + 1 /\ \A c \in Dbs : Seen(c)' = Seen(c)
    BY <1>6 DEF Edit, Begun, Over, Seen, Holds
  <2> QED BY <2>1 DEF Store!SNext, Store!Edit, Begun, Seen
<1>7. CASE UNCHANGED vars
  BY <1>7 DEF vars, Store!svars, Over, Holds
<1> QED
  BY <1>1, <1>2, <1>3, <1>4, <1>5, <1>6, <1>7 DEF Next, Store!SNext

\* No recorder running and no file: the abstract store is empty.
LEMMA StoreInit == Init => Store!SInit
BY RecorderAssumption DEF Init, Store!SInit, Store!Dbs, Dbs, Over, Holds

\* For any jobs, failures, crashes and readers the recordings are what
\* RecordingStore promises.
THEOREM RecorderImplementsStore ==
    ASSUME Stray = {} PROVE Spec => StoreSpec
<1> QED BY StoreInit, StoreStep, RecorderSafe, PTL DEF Spec, StoreSpec, Store!SSpec

-----------------------------------------------------------------------------
(* What the user is told is true of the database.                          *)

\* The steps that change databases, and how: each job writes its own.
LEMMA Writes ==
    ASSUME TypeOK, [Next]_vars, NEW d \in Dbs, db'[d] # db[d]
    PROVE  \/ \E j \in Jobs : /\ DbOf[j] = d
                              /\ RemoveStale(j) \/ CreateDb(j) \/ CreateFails(j)
                                    \/ Commit(j) \/ IngestFails(j)
           \/ d \in Polled /\ db[d] = None
<1> USE Places DEF TypeOK
<1>1. ASSUME NEW j \in Jobs,
             RemoveStale(j) \/ CreateDb(j) \/ CreateFails(j) \/ Commit(j) \/ IngestFails(j)
      PROVE  DbOf[j] = d
  BY <1>1 DEF RemoveStale, CreateDb, CreateFails, Commit, IngestFails, Discarded, Unlinked
<1>2. ASSUME NEW c \in Polled, Open(c) PROVE c = d /\ db[d] = None
  BY <1>2 DEF Open
<1>3. ASSUME \/ UNCHANGED vars \/ Edit
             \/ \E j \in Jobs : \/ Launch(j) \/ ConfigureOk(j) \/ ConfigureFails(j)
                                 \/ Parse(j) \/ Reindex(j) \/ Crash(j)
      PROVE  FALSE
  BY <1>3 DEF vars, Edit, Launch, ConfigureOk, ConfigureFails, Parse, Reindex, Crash
<1> QED BY <1>1, <1>2, <1>3 DEF Next

\* A job moves on through its steps, one job at a time.
LEMMA Moves ==
    ASSUME TypeOK, [Next]_vars, NEW j \in Jobs, pc'[j] # pc[j]
    PROVE  /\ ~(pc[j] \in {"done", "refused", "uncreated", "failed", "dead"})
           /\ pc'[j] \in {"idle", "configuring"} => pc[j] = "idle"
           /\ pc'[j] \in {"configured", "refused"} => pc[j] = "configuring"
           /\ pc'[j] = "committed" => Commit(j)
           /\ pc'[j] = "done" => pc[j] = "committed"
           /\ pc'[j] = "failed" => IngestFails(j)
<1> USE DEF TypeOK
<1>1. PICK k \in Jobs :
         \/ Launch(k) \/ ConfigureOk(k) \/ ConfigureFails(k)
         \/ RemoveStale(k) \/ CreateDb(k) \/ CreateFails(k) \/ Parse(k) \/ Commit(k)
         \/ Reindex(k) \/ IngestFails(k) \/ Crash(k)
  BY DEF Next, vars, Open, Edit
<1>2. k = j
  BY <1>1 DEF Launch, ConfigureOk, ConfigureFails, RemoveStale, CreateDb, CreateFails, Parse,
              Commit, Reindex, IngestFails, Crash, Goto
<1>3. CASE Launch(j) \/ ConfigureOk(j) \/ ConfigureFails(j)
  BY <1>3 DEF Launch, ConfigureOk, ConfigureFails, Goto
<1>4. CASE RemoveStale(j) \/ CreateDb(j) \/ CreateFails(j) \/ Parse(j)
  BY <1>4 DEF RemoveStale, CreateDb, CreateFails, Parse, Goto
<1>5. CASE Commit(j) \/ Reindex(j) \/ IngestFails(j)
  BY <1>5 DEF Commit, Reindex, IngestFails, Goto
<1>6. CASE Crash(j)
  BY <1>6 DEF Crash, Over, Goto
<1> QED BY <1>1, <1>2, <1>3, <1>4, <1>5, <1>6

\* Another job for the database of j has reached its own removal of it, or ended.
Passed(j) ==
    \E k \in Jobs : /\ k # j /\ DbOf[k] = DbOf[j]
                    /\ pc[k] \notin {"idle", "configuring", "configured", "refused"}

\* From its commit on a job's recording is there until then.
RecordingKept ==
    \A j \in Jobs : pc[j] \in {"committed", "done"} =>
        (Holds(DbOf[j]) /\ db[DbOf[j]].events.by = j) \/ Passed(j)

\* A job that failed at its ingestion has left no file.
FailureKept ==
    \A j \in Jobs : pc[j] = "failed" /\ DbOf[j] \notin Polled \cup Stuck =>
        db[DbOf[j]] = None \/ Passed(j)

\* No job goes back.
LEMMA PassedStays ==
    ASSUME TypeOK, [Next]_vars, NEW j \in Jobs, Passed(j)
    PROVE  Passed(j)'
<1>1. PICK k \in Jobs : /\ k # j /\ DbOf[k] = DbOf[j]
                        /\ pc[k] \notin {"idle", "configuring", "configured", "refused"}
  BY DEF Passed
<1>2. pc'[k] \notin {"idle", "configuring", "configured", "refused"}
  BY <1>1, Moves
<1> QED BY <1>1, <1>2 DEF Passed

\* Another job that writes the database has passed.
LEMMA OthersPass ==
    ASSUME TypeOK, NEW j \in Jobs, NEW k \in Jobs, k # j, DbOf[k] = DbOf[j],
           RemoveStale(k) \/ CreateDb(k) \/ CreateFails(k) \/ Commit(k) \/ IngestFails(k)
    PROVE  Passed(j)'
<1>1. pc'[k] \in {"removed", "created", "uncreated", "committed", "failed"}
  BY DEF RemoveStale, CreateDb, CreateFails, Commit, IngestFails, Goto, TypeOK
<1> QED BY <1>1 DEF Passed

\* The transaction puts the job's own trace into its database.
LEMMA CommitHolds ==
    ASSUME TypeOK, OwnInputs, NEW j \in Jobs, Commit(j)
    PROVE  Holds(DbOf[j])' /\ db'[DbOf[j]].events.by = j
<1> USE RecorderAssumption, Places
<1>1. trace[TraceOf[j]] = [by |-> j, ran |-> read[j], mixed |-> FALSE]
  BY DEF Commit, OwnInputs, Ingesting
<1>2. db'[DbOf[j]] = Ingested(j) /\ Ingested(j).events.by = j
  BY <1>1 DEF Commit, Ingested, TypeOK
<1>3. Ingested(j) \in Recording
  BY <1>1 DEF Ingested, Recording, TraceFile, TypeOK
<1> QED BY <1>2, <1>3 DEF Holds

LEMMA RecordingKeptStep ==
    RecorderInv /\ RecordingKept /\ [Next]_vars => RecordingKept'
<1> SUFFICES ASSUME RecorderInv, RecordingKept, [Next]_vars, NEW j \in Jobs,
                    pc'[j] \in {"committed", "done"}, ~Passed(j)'
             PROVE  Holds(DbOf[j])' /\ db'[DbOf[j]].events.by = j
  BY DEF RecordingKept
<1> USE Places DEF RecorderInv
<1>1. CASE Commit(j)
  BY <1>1, CommitHolds
<1>2. CASE ~Commit(j)
  <2>1. pc[j] \in {"committed", "done"} /\ ~Passed(j)
    BY <1>2, Moves, PassedStays
  <2>2. Holds(DbOf[j]) /\ db[DbOf[j]].events.by = j
    BY <2>1 DEF RecordingKept
  <2>3. db'[DbOf[j]] = db[DbOf[j]]
    <3>1. \A k \in Jobs : DbOf[k] = DbOf[j] =>
             ~(RemoveStale(k) \/ CreateDb(k) \/ CreateFails(k) \/ Commit(k) \/ IngestFails(k))
      <4> SUFFICES ASSUME NEW k \in Jobs, DbOf[k] = DbOf[j],
                          \/ RemoveStale(k) \/ CreateDb(k) \/ CreateFails(k)
                          \/ Commit(k) \/ IngestFails(k)
                   PROVE  FALSE
        OBVIOUS
      <4>1. k = j
        BY OthersPass
      <4> QED BY <2>1, <4>1, <1>2 DEF RemoveStale, CreateDb, CreateFails, IngestFails, Goto,
                                      TypeOK
    <3>2. db[DbOf[j]] # None
      BY <2>2 DEF Holds
    <3> QED BY <3>1, <3>2, Writes
  <2> QED BY <2>2, <2>3 DEF Holds
<1> QED BY <1>1, <1>2

\* A job that reported success has its recording in the database, whatever
\* failed, crashed, was edited or read in between, until another job for the
\* same database is past its configure (lib.rs:156-189).
THEOREM SuccessIsKept == Spec => []SuccessStays
<1>1. Init => RecordingKept
  BY DEF Init, RecordingKept
<1>2. RecordingKept => SuccessStays
  BY DEF RecordingKept, SuccessStays, Passed
<1> QED BY <1>1, <1>2, RecordingKeptStep, RecorderSafe, PTL DEF Spec

LEMMA FailureKeptStep ==
    RecorderInv /\ FailureKept /\ [Next]_vars => FailureKept'
<1> SUFFICES ASSUME RecorderInv, FailureKept, [Next]_vars, NEW j \in Jobs,
                    pc'[j] = "failed", DbOf[j] \notin Polled \cup Stuck, ~Passed(j)'
             PROVE  db'[DbOf[j]] = None
  BY DEF FailureKept
<1> USE Places DEF RecorderInv
<1>1. CASE IngestFails(j)
  BY <1>1 DEF IngestFails, Discarded, Unlinked, TypeOK
<1>2. CASE ~IngestFails(j)
  <2>1. pc[j] = "failed" /\ db[DbOf[j]] = None
    BY <1>2, Moves, PassedStays DEF FailureKept
  <2>2. \A k \in Jobs : DbOf[k] = DbOf[j] =>
           ~(RemoveStale(k) \/ CreateDb(k) \/ CreateFails(k) \/ Commit(k) \/ IngestFails(k))
    <3> SUFFICES ASSUME NEW k \in Jobs, DbOf[k] = DbOf[j],
                        \/ RemoveStale(k) \/ CreateDb(k) \/ CreateFails(k)
                        \/ Commit(k) \/ IngestFails(k)
                 PROVE  FALSE
      OBVIOUS
    <3>1. k = j
      BY OthersPass
    <3> QED BY <2>1, <3>1 DEF RemoveStale, CreateDb, CreateFails, Commit, IngestFails
  <2> QED BY <2>1, <2>2, Writes
<1> QED BY <1>1, <1>2

\* A failed ingestion has left no database to be taken for a recording
\* (lib.rs:180-182), until another job for the same database is past its
\* configure: for databases that can be removed and are not opened unseen.
THEOREM FailureIsSeen == Spec => []FailureShows
<1>1. Init => FailureKept
  BY DEF Init, FailureKept
<1>2. FailureKept => FailureShows
  BY DEF FailureKept, FailureShows, Shows, Passed
<1> QED BY <1>1, <1>2, FailureKeptStep, RecorderSafe, PTL DEF Spec

=============================================================================
