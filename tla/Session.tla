------------------------------ MODULE Session ------------------------------
(***************************************************************************)
(* A session of the language server: an editor with open buffers, the      *)
(* server behind its two message streams, the files on disk and a recorder *)
(* that replaces the recording at any time.                                *)
(*                                                                         *)
(* The server handles its messages in the order they come, one at a time:  *)
(* its handlers hold no lock and wait for nothing between the receipt of a *)
(* message and the answer.  Every handler opens the database anew, and its *)
(* queries see what is committed when each of them runs.  Answers reach the *)
(* editor at once: it may be late only in what it sends.                   *)
(*                                                                         *)
(* Two texts are the same when their content hashes are.                   *)
(***************************************************************************)
EXTENDS Sequences, FiniteSets, Naturals

CONSTANTS
    Files,     \* the listfiles of the project
    FixFiles,  \* those a modernize fix edits: deletion and insertions
    Primary,   \* the one its finding is in
    Plain,     \* texts that have the legacy command
    First,     \* the one all files have at the start
    Fixed,     \* the text a fix makes of the text it was planned for
    Garbled,   \* what it makes of any other
    Outside,   \* files that also change without the editor, as in a checkout
    Discards,  \* may a buffer with unsaved changes be closed?
    MaxInbox,  \* the editor sends no more when so many messages are under way
    MaxEdits,  \* bound on changes of a text, by the user or a checkout
    MaxRuns,   \* bound on recordings
    None,      \* no buffer, no file, nothing to show
    Empty      \* a database without a recording in it

Texts == Plain \cup {Fixed, Garbled}

Recordings == [Files -> Texts]
Message    == [kind : {"text"}, file : Files, text : Texts] \cup [kind : {"action"}]
Shown      == [text : Texts, seen : SUBSET (Recordings \cup {Empty}), marked : BOOLEAN]
Action     == [files : SUBSET FixFiles, base : Recordings]

ASSUME SessionAssumption ==
    /\ Primary \in FixFiles /\ FixFiles \subseteq Files
    /\ IsFiniteSet(Files)
    /\ First \in Plain /\ Garbled \notin Plain \cup {Fixed}
    /\ Outside \subseteq Files
    /\ Discards \in BOOLEAN
    /\ {MaxInbox, MaxEdits, MaxRuns} \subseteq Nat
    /\ None # Empty /\ {None, Empty} \cap Recordings = {}
    /\ None \notin Texts \cup Message \cup Shown \cup Action

VARIABLES
    disk,    \* the text of each file on disk
    db,      \* what is at the path of the database: None, Empty or a recording
    found,   \* has the server found a database in initialize?
    docs,    \* open_docs of the server
    inbox,   \* messages to the server
    job,     \* the message the server is handling, None when it waits
    conn,    \* its connection: is it to the file now at the path, and else
             \* what the file it is to held when it was removed
    seen,    \* what the lint passes run so far have found the recording to be
    buffer,  \* the editor's buffers, None for files that are not open
    shown,   \* the diagnostics it has got since the buffer changed last
    asked,   \* "yes": it waits for code actions; "void": it has changed a text
             \* since and will drop them
    menu,    \* the code action it offers to the user
    edits,   \* changes so far
    runs     \* recorder runs so far

editor == <<buffer, shown, asked, menu>>
server == <<found, docs, job, conn, seen>>
counts == <<edits, runs>>
vars   == <<disk, db, inbox, server, editor, counts>>

NoConn == [live |-> FALSE, holds |-> Empty]

\* The database is looked for in `initialize`, before any other message.
Init ==
    /\ disk = [f \in Files |-> First]
    /\ db \in {None, disk}
    /\ found = (db # None)
    /\ docs = [f \in Files |-> None]
    /\ inbox = <<>>
    /\ job = None /\ conn = NoConn /\ seen = {}
    /\ buffer = [f \in Files |-> None]
    /\ shown = [f \in Files |-> None]
    /\ asked = "no" /\ menu = None
    /\ edits = 0 /\ runs = 0

-----------------------------------------------------------------------------
\* The recorder, as far as a reader of the database sees it: the old file is
\* removed, a new one has tables and then, all at once, a recording of what is
\* on disk.  A failure leaves no file.  A connection keeps a removed file.
Replaced(new) ==
    /\ db' = new
    /\ conn' = IF new = None /\ conn.live THEN [live |-> FALSE, holds |-> db] ELSE conn
    /\ UNCHANGED <<disk, inbox, found, docs, job, seen, editor, edits>>

RemoveDb == db # None /\ Replaced(None) /\ UNCHANGED runs
CreateDb == db = None /\ Replaced(Empty) /\ UNCHANGED runs
CommitDb == db = Empty /\ runs < MaxRuns /\ Replaced(disk) /\ runs' = runs + 1

-----------------------------------------------------------------------------
\* Slip: every query opens the database.
SlipSeen == IF db = None THEN Empty ELSE db

\* What a query of the running handler sees.
Seen ==
    IF conn.live THEN db ELSE conn.holds

\* Slip: a file that is not there is opened all the same.
SlipOpens == conn' = [live |-> TRUE, holds |-> Empty] /\ UNCHANGED db

\* Db::open, which creates the file it does not find.
Opens ==
    /\ conn' = [live |-> TRUE, holds |-> Empty]
    /\ db' = IF db = None THEN Empty ELSE db

\* Slip: a text is kept from the first time it is seen.
SlipStored(msg) ==
    IF msg.kind = "text" /\ docs[msg.file] = None
    THEN [docs EXCEPT ![msg.file] = msg.text] ELSE docs

\* The next message: a text is stored, then the database opened.  With no
\* database found at the start there is no state, and nothing to say.
Stored(msg) ==
    IF msg.kind = "text" THEN [docs EXCEPT ![msg.file] = msg.text] ELSE docs

Receive ==
    /\ found
    /\ job = None
    /\ inbox # <<>>
    /\ inbox' = Tail(inbox)
    /\ job' = Head(inbox)
    /\ docs' = Stored(Head(inbox))
    /\ Opens
    /\ UNCHANGED <<disk, found, seen, editor, counts>>

\* Code actions that come too late are dropped.
Offered(action) ==
    /\ menu' = IF asked = "yes" /\ action.files # {} THEN action ELSE None
    /\ asked' = "no"
    /\ UNCHANGED shown

NoAction == [files |-> {}, base |-> None]

Decline ==
    /\ ~found
    /\ inbox # <<>>
    /\ inbox' = Tail(inbox)
    /\ IF Head(inbox).kind = "text" THEN UNCHANGED <<shown, asked, menu>>
       ELSE Offered(NoAction)
    /\ UNCHANGED <<disk, db, server, buffer, counts>>

\* diagnostics(): one pass after the other runs its queries.  As many as there
\* are, those that see the same count once.
RunPass ==
    /\ job # None /\ job.kind = "text"
    /\ Seen \notin seen
    /\ seen' = seen \cup {Seen}
    /\ UNCHANGED <<disk, db, inbox, found, docs, job, conn, editor, counts>>

\* is_stale: nothing recorded, nothing to be stale against.
IsStale(rec, f, text) == rec # Empty /\ rec[f] # text

Answered ==
    /\ job' = None /\ conn' = NoConn /\ seen' = {}
    /\ UNCHANGED <<disk, db, inbox, found, docs, buffer, counts>>

\* What is published of f: the findings and whether they are marked.  The text
\* is not in the message; it is there for the properties.
Diagnostics(f) ==
    [text |-> docs[f], seen |-> seen, marked |-> IsStale(Seen, f, docs[f])]

\* Slip: the text is stored and nothing published.
SlipPublish ==
    /\ job # None /\ job.kind = "text"
    /\ seen # {}
    /\ Answered
    /\ UNCHANGED <<shown, asked, menu>>

Publish ==
    /\ job # None /\ job.kind = "text"
    /\ seen # {}
    /\ shown' = [shown EXCEPT ![job.file] = Diagnostics(job.file)]
    /\ Answered
    /\ UNCHANGED <<asked, menu>>

\* modernize::plan finds the legacy command in what was recorded.
HasFix(rec) == rec # Empty /\ \A g \in FixFiles : rec[g] \in Plain

\* Slip: only the file the fix is asked for is compared.
SlipMatches(rec, g) == g # Primary \/ docs[g] = rec[g]

\* Slip: a fix is for open files only.
SlipMatchesOpen(rec, g) == docs[g] = rec[g]

\* A buffer the server knows of must have the text that was recorded.
Matches(rec, g) ==
    docs[g] = None \/ docs[g] = rec[g]

\* Slip: an edit of a file that does not match is left out, and no more.
SlipOffer(rec) ==
    LET kept == {g \in FixFiles : Matches(rec, g)}
    IN  IF HasFix(rec) /\ kept # {}
        THEN [files |-> kept, base |-> rec]
        ELSE NoAction

\* The edits are in positions of the recorded texts.  All or none.
Offer(rec) ==
    IF HasFix(rec) /\ \A g \in FixFiles : Matches(rec, g)
    THEN [files |-> FixFiles, base |-> rec]
    ELSE NoAction

CodeAction ==
    /\ job # None /\ job.kind = "action"
    /\ Offered(Offer(Seen))
    /\ Answered

-----------------------------------------------------------------------------
Text(f, t) == [kind |-> "text", file |-> f, text |-> t]

\* The menu goes when the user does something else.
Dismissed ==
    /\ asked' = IF asked = "yes" THEN "void" ELSE asked
    /\ menu' = None

\* The server is told of a new text.
Tell(fs) ==
    /\ Len(inbox) < MaxInbox
    /\ inbox' = inbox \o [i \in DOMAIN fs |-> Text(fs[i], buffer'[fs[i]])]
    /\ Dismissed
    /\ shown' = [f \in Files |-> IF \E i \in DOMAIN fs : fs[i] = f THEN None ELSE shown[f]]
    /\ UNCHANGED <<db, server, runs>>

OpenDoc(f) ==
    /\ buffer[f] = None
    /\ buffer' = [buffer EXCEPT ![f] = disk[f]]
    /\ Tell(<<f>>)
    /\ UNCHANGED <<disk, edits>>

Edited == edits < MaxEdits /\ edits' = edits + 1

Change(f, t) ==
    /\ buffer[f] \notin {None, t}
    /\ buffer' = [buffer EXCEPT ![f] = t]
    /\ Tell(<<f>>)
    /\ Edited
    /\ UNCHANGED disk

\* The server is told of neither: it has no did_save and no did_close.
Save(f) ==
    /\ buffer[f] # None
    /\ disk' = [disk EXCEPT ![f] = buffer[f]]
    /\ UNCHANGED <<db, inbox, server, editor, counts>>

Close(f) ==
    /\ buffer[f] # None
    /\ Discards \/ buffer[f] = disk[f]
    /\ buffer' = [buffer EXCEPT ![f] = None]
    /\ Dismissed
    /\ UNCHANGED <<disk, db, inbox, server, shown, counts>>

\* A checkout or another editor, while the file is not open here.
Checkout(f, t) ==
    /\ buffer[f] = None
    /\ disk[f] # t
    /\ disk' = [disk EXCEPT ![f] = t]
    /\ Edited
    /\ UNCHANGED <<db, inbox, server, editor, runs>>

Ask ==
    /\ buffer[Primary] # None
    /\ asked = "no" /\ menu = None
    /\ Len(inbox) < MaxInbox
    /\ inbox' = Append(inbox, [kind |-> "action"])
    /\ asked' = "yes"
    /\ UNCHANGED <<disk, db, server, buffer, shown, menu, counts>>

\* The orders in which the editor may tell of several files.
Orders(fs) ==
    {order \in [1..Cardinality(fs) -> fs] :
        \A i, k \in DOMAIN order : order[i] = order[k] => i = k}

\* What an edit of f is applied to: the text the editor has, or else the file.
Now(f) == IF buffer[f] = None THEN disk[f] ELSE buffer[f]

Apply ==
    /\ menu # None
    /\ buffer' = [f \in Files |->
          IF f \notin menu.files THEN buffer[f]
          ELSE IF Now(f) = menu.base[f] THEN Fixed ELSE Garbled]
    /\ \E fs \in Orders(menu.files) : Tell(fs)
    /\ Edited
    /\ UNCHANGED disk

Next ==
    \/ RemoveDb \/ CreateDb \/ CommitDb
    \/ Receive \/ Decline \/ RunPass \/ Publish \/ CodeAction
    \/ \E f \in Files : OpenDoc(f) \/ Save(f) \/ Close(f)
    \/ \E f \in Files, t \in Plain : Change(f, t)
    \/ \E f \in Outside, t \in Plain : Checkout(f, t)
    \/ Ask \/ Apply

\* The server goes on; users and recorders need not.
Fairness ==
    /\ WF_vars(Receive) /\ WF_vars(Decline)
    /\ WF_vars(RunPass) /\ WF_vars(Publish) /\ WF_vars(CodeAction)

Spec == Init /\ [][Next]_vars /\ Fairness

-----------------------------------------------------------------------------
TypeOK ==
    /\ disk \in Recordings
    /\ db \in Recordings \cup {None, Empty}
    /\ found \in BOOLEAN
    /\ docs \in [Files -> Texts \cup {None}]
    /\ inbox \in Seq(Message)
    /\ job \in Message \cup {None}
    /\ conn \in [live : BOOLEAN, holds : Recordings \cup {Empty}]
    /\ seen \subseteq Recordings \cup {Empty}
    /\ buffer \in [Files -> Texts \cup {None}]
    /\ \A f \in Files : shown[f] \in Shown \cup {None}
    /\ asked \in {"no", "yes", "void"}
    /\ menu \in Action \cup {None}
    /\ edits \in 0..MaxEdits /\ runs \in 0..MaxRuns

\* The findings shown of a file come from one recording, though every pass
\* queries for itself while a recorder removes and rewrites the database.
FromOneRecording(recs) == \A r, s \in recs \ {Empty} : r = s

OneRecording == \A f \in Files : shown[f] # None => FromOneRecording(shown[f].seen)

\* No news of f is under way.
Settled(f) ==
    /\ buffer[f] # None
    /\ \A i \in DOMAIN inbox : inbox[i].kind = "text" => inbox[i].file # f
    /\ job # None /\ job.kind = "text" => job.file # f

\* Once the server has answered, the diagnostics of an open buffer are marked
\* stale exactly when the buffer differs from the recording they come from.
MarksHonest ==
    found => \A f \in Files : Settled(f) =>
        /\ shown[f] # None /\ shown[f].text = buffer[f]
        /\ \A rec \in shown[f].seen \ {Empty} :
              shown[f].marked <=> rec[f] # buffer[f]

\* A fix is never applied to a text it was not planned for: "stale offsets can
\* never be applied" (docs/user-guide.md:1657).
NothingGarbled == \A f \in Files : Garbled \notin {disk[f], buffer[f]}

\* A request the editor still wants the answer of is answered by the fix of the
\* recording the server is to, in all its files, exactly when every one of them has
\* the recorded text where the edit would be applied.  The server compares what it
\* was told (server.rs:180, lib.rs:405), which must be that: of files open, closed
\* again or never opened, after changes and earlier fixes.
OffersExact ==
    [][job # None /\ job.kind = "action" /\ job' = None /\ asked = "yes" =>
        LET fits == HasFix(Seen) /\ \A g \in FixFiles : Now(g) = Seen[g]
        IN  menu' = IF fits THEN [files |-> FixFiles, base |-> Seen] ELSE None]_vars

\* Every text the editor sends is answered by diagnostics of that text, unless
\* it changes again.
ChangesAnswered ==
    \A f \in Files, t \in Plain :
        (found /\ buffer[f] = t) ~> (buffer[f] # t \/ (shown[f] # None /\ shown[f].text = t))

=============================================================================
