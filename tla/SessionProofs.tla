--------------------------- MODULE SessionProofs ---------------------------
(***************************************************************************)
(* What the editor is shown and offered, whatever the files, the texts and *)
(* the number of messages, edits and recordings.                           *)
(***************************************************************************)
EXTENDS Session, FiniteSetTheorems, SequenceTheorems, TLAPS

\* Files and buffers hold texts: what is recorded is a recording.
HaveTexts ==
    /\ disk \in Recordings
    /\ buffer \in [Files -> Texts \cup {None}]

\* What the passes of the running handler have seen is what its connection
\* still shows: the file it is to, once it has a recording, does not change.
Pinned ==
    /\ conn.live => db # None
    /\ \A rec \in seen : rec = Empty \/ rec = Seen

\* Nothing is left of a handler that has answered.
Fresh == job = None => seen = {}

Answers ==
    /\ shown = [f \in Files |-> shown[f]]
    /\ OneRecording

ReaderInv == HaveTexts /\ Pinned /\ Fresh /\ Answers

\* None is no text and no recording.
LEMMA Markers ==
    /\ None # Empty /\ None \notin Texts /\ First \in Texts
    /\ None \notin Recordings /\ Empty \notin Recordings
  BY SessionAssumption DEF Texts, Recordings

LEMMA ReaderInit == Init => ReaderInv
  BY Markers DEF Init, NoConn, ReaderInv, HaveTexts, Recordings, Pinned, Fresh, Answers, OneRecording

\* The recorder takes no recording away from a connection: a removed file stays
\* what it was, and one gets its recording only while it is empty.
LEMMA RecorderKeeps ==
    ReaderInv /\ (RemoveDb \/ CreateDb \/ CommitDb) => ReaderInv'
<1> SUFFICES ASSUME ReaderInv, RemoveDb \/ CreateDb \/ CommitDb PROVE ReaderInv'
  OBVIOUS
<1>1. UNCHANGED <<disk, buffer, job, seen, shown>>
  BY DEF RemoveDb, CreateDb, CommitDb, Replaced, editor
<1>2. Pinned'
  <2>1. CASE RemoveDb
    BY <1>1, <2>1 DEF RemoveDb, Replaced, ReaderInv, Pinned, Seen
  <2>2. CASE CreateDb
    BY <1>1, <2>2, Markers DEF CreateDb, Replaced, ReaderInv, Pinned, Seen
  <2>3. CASE CommitDb
    BY <1>1, <2>3, Markers DEF CommitDb, Replaced, ReaderInv, HaveTexts, Pinned, Seen
  <2> QED BY <2>1, <2>2, <2>3
<1>3. Fresh' /\ Answers' /\ HaveTexts'
  BY <1>1 DEF ReaderInv, HaveTexts, Fresh, Answers, OneRecording
<1> QED BY <1>2, <1>3 DEF ReaderInv

\* The server: a handler starts with a connection to a file that is there, and
\* every pass sees what is in it.
LEMMA ServerKeeps ==
    ReaderInv /\ (Receive \/ Decline \/ RunPass \/ Publish \/ CodeAction) => ReaderInv'
<1> SUFFICES ASSUME ReaderInv, Receive \/ Decline \/ RunPass \/ Publish \/ CodeAction
             PROVE  ReaderInv'
  OBVIOUS
<1>1. HaveTexts'
  BY DEF Receive, Decline, RunPass, Publish, CodeAction, Answered, editor, ReaderInv, HaveTexts
<1>2. CASE Receive
  <2>1. Pinned' /\ Fresh'
    BY <1>2, Markers DEF Receive, Opens, ReaderInv, Pinned, Fresh
  <2>2. Answers'
    BY <1>2 DEF Receive, editor, ReaderInv, Answers, OneRecording
  <2> QED BY <1>1, <2>1, <2>2 DEF ReaderInv
<1>3. CASE Decline
  <2>1. UNCHANGED <<db, conn, seen, job, shown>>
    BY <1>3 DEF Decline, Offered, server
  <2> QED BY <1>1, <2>1 DEF ReaderInv, Pinned, Seen, Fresh, Answers, OneRecording
<1>4. CASE RunPass
  <2>1. Pinned'
    BY <1>4 DEF RunPass, ReaderInv, Pinned, Seen
  <2>2. Fresh' /\ Answers'
    BY <1>4 DEF RunPass, editor, ReaderInv, Fresh, Answers, OneRecording
  <2> QED BY <1>1, <2>1, <2>2 DEF ReaderInv
<1>5. CASE Publish
  <2>1. Pinned' /\ Fresh'
    BY <1>5 DEF Publish, Answered, NoConn, ReaderInv, Pinned, Fresh
  <2>2. FromOneRecording(Diagnostics(job.file).seen)
    BY DEF Diagnostics, FromOneRecording, ReaderInv, Pinned
  <2>3. shown' = [shown EXCEPT ![job.file] = Diagnostics(job.file)]
    BY <1>5 DEF Publish
  <2>4. Answers'
    BY <2>2, <2>3 DEF ReaderInv, Answers, OneRecording
  <2> QED BY <1>1, <2>1, <2>4 DEF ReaderInv
<1>6. CASE CodeAction
  <2>1. Pinned' /\ Fresh'
    BY <1>6 DEF CodeAction, Answered, NoConn, ReaderInv, Pinned, Fresh
  <2>2. Answers'
    BY <1>6 DEF CodeAction, Offered, ReaderInv, Answers, OneRecording
  <2> QED BY <1>1, <2>1, <2>2 DEF ReaderInv
<1> QED BY <1>2, <1>3, <1>4, <1>5, <1>6

\* The editor puts texts into buffers and files and forgets diagnostics.
LEMMA EditorKeeps ==
    ASSUME ReaderInv,
           \/ \E f \in Files : OpenDoc(f) \/ Save(f) \/ Close(f)
           \/ \E f \in Files, t \in Plain : Change(f, t)
           \/ \E f \in Outside, t \in Plain : Checkout(f, t)
           \/ Ask \/ Apply
    PROVE  ReaderInv'
<1>1. UNCHANGED <<db, server>>
  BY DEF OpenDoc, Save, Close, Change, Checkout, Ask, Apply, Tell
<1>2. Pinned' /\ Fresh'
  BY <1>1 DEF server, ReaderInv, Pinned, Seen, Fresh
<1>3. \/ shown' = shown
      \/ \E fs : shown' = [f \in Files |-> IF \E i \in DOMAIN fs : fs[i] = f
                                           THEN None ELSE shown[f]]
  BY DEF OpenDoc, Save, Close, Change, Checkout, Ask, Apply, Tell, editor
<1>4. Answers'
  BY <1>3 DEF ReaderInv, Answers, OneRecording
<1>5. HaveTexts'
  <2>1. ASSUME NEW f \in Files, OpenDoc(f) PROVE HaveTexts'
    BY <2>1 DEF OpenDoc, ReaderInv, HaveTexts, Recordings
  <2>2. ASSUME NEW f \in Files, Save(f) PROVE HaveTexts'
    BY <2>2 DEF Save, editor, ReaderInv, HaveTexts, Recordings
  <2>3. ASSUME NEW f \in Files, Close(f) PROVE HaveTexts'
    BY <2>3 DEF Close, ReaderInv, HaveTexts
  <2>4. ASSUME NEW f \in Files, NEW t \in Plain, Change(f, t) PROVE HaveTexts'
    BY <2>4 DEF Change, ReaderInv, HaveTexts, Texts
  <2>5. ASSUME NEW f \in Outside, NEW t \in Plain, Checkout(f, t) PROVE HaveTexts'
    BY <2>5 DEF Checkout, editor, ReaderInv, HaveTexts, Recordings, Texts
  <2>6. CASE Ask
    BY <2>6 DEF Ask, ReaderInv, HaveTexts
  <2>7. CASE Apply
    BY <2>7 DEF Apply, ReaderInv, HaveTexts, Texts
  <2> QED BY <2>1, <2>2, <2>3, <2>4, <2>5, <2>6, <2>7
<1> QED BY <1>2, <1>4, <1>5 DEF ReaderInv

\* Every step keeps it.
LEMMA ReaderStep == ReaderInv /\ [Next]_vars => ReaderInv'
<1> SUFFICES ASSUME ReaderInv, [Next]_vars PROVE ReaderInv'
  OBVIOUS
<1>1. CASE UNCHANGED vars
  BY <1>1 DEF vars, server, editor, ReaderInv, HaveTexts, Pinned, Seen, Fresh, Answers,
              OneRecording
<1>2. CASE Next
  BY <1>2, RecorderKeeps, ServerKeeps, EditorKeeps DEF Next
<1> QED BY <1>1, <1>2

\* The diagnostics of every file come from one recording (server.rs:44-70),
\* though each pass queries for itself while a recorder replaces the database.
THEOREM DiagnosticsFromOneRecording == Spec => []OneRecording
<1>1. ReaderInv => OneRecording
  BY DEF ReaderInv, Answers
<1> QED BY ReaderInit, ReaderStep, <1>1, PTL DEF Spec

-----------------------------------------------------------------------------
(* Types.                                                                  *)

\* A query sees a recording or an empty database: an open one is there.
LEMMA SeenType ==
    ASSUME TypeOK, ReaderInv
    PROVE  Seen \in Recordings \cup {Empty}
  BY DEF TypeOK, ReaderInv, Pinned, Seen

\* A message about a text, and the file and text in it.
LEMMA TextMessage ==
    ASSUME NEW f \in Files, NEW t \in Texts
    PROVE  /\ Text(f, t) \in Message
           /\ Text(f, t).kind = "text" /\ Text(f, t).file = f /\ Text(f, t).text = t
  BY DEF Text, Message

\* A message with a text has a file; None is no message.
LEMMA MessageFields ==
    ASSUME NEW m \in Message
    PROVE  /\ m.kind \in {"text", "action"}
           /\ m.kind = "text" => m.file \in Files /\ m.text \in Texts
  BY DEF Message

\* What telling of some files does: a message for each of them at the end.
LEMMA TellEffect ==
    ASSUME TypeOK, NEW n \in Nat, NEW fs \in [1..n -> Files],
           \A i \in 1..n : buffer'[fs[i]] \in Texts, Tell(fs)
    PROVE  /\ inbox' \in Seq(Message) /\ Len(inbox') = Len(inbox) + n
           /\ \A i \in 1..Len(inbox) : inbox'[i] = inbox[i]
           /\ \A i \in 1..n : inbox'[Len(inbox) + i] = Text(fs[i], buffer'[fs[i]])
           /\ \A f \in Files : shown'[f] \in {None, shown[f]}
           /\ \A f \in Files : (\A i \in 1..n : fs[i] # f) => shown'[f] = shown[f]
           /\ asked' = (IF asked = "yes" THEN "void" ELSE asked) /\ menu' = None
           /\ UNCHANGED <<db, server, runs>>
<1> DEFINE told == [i \in 1..n |-> Text(fs[i], buffer'[fs[i]])]
<1>1. told \in Seq(Message) /\ Len(told) = n
  <2>1. \A i \in 1..n : Text(fs[i], buffer'[fs[i]]) \in Message
    BY TextMessage
  <2> QED BY <2>1
<1>2. inbox' = inbox \o told /\ inbox \in Seq(Message)
  BY DEF Tell, TypeOK
<1>3. /\ \A i \in 1..n : told[i] = Text(fs[i], buffer'[fs[i]])
      /\ Len(inbox) \in Nat
  BY <1>2
<1>4. /\ inbox' \in Seq(Message) /\ Len(inbox') = Len(inbox) + n
      /\ \A i \in 1..Len(inbox) : inbox'[i] = inbox[i]
      /\ \A i \in 1..n : inbox'[Len(inbox) + i] = told[i]
  <2>1. /\ inbox \o told \in Seq(Message) /\ Len(inbox \o told) = Len(inbox) + Len(told)
        /\ \A i \in 1..(Len(inbox) + Len(told)) :
              (inbox \o told)[i] = IF i <= Len(inbox) THEN inbox[i] ELSE told[i - Len(inbox)]
    <3> HIDE DEF told
    <3> QED BY <1>1, <1>2, ConcatProperties
  <2>2. \A i \in 1..n : ~(Len(inbox) + i <= Len(inbox)) /\ (Len(inbox) + i) - Len(inbox) = i
                       /\ Len(inbox) + i \in 1..(Len(inbox) + Len(told))
    <3> HIDE DEF told
    <3> QED BY <1>1, <1>3
  <2>3. \A i \in 1..Len(inbox) : i <= Len(inbox) /\ i \in 1..(Len(inbox) + Len(told))
    <3> HIDE DEF told
    <3> QED BY <1>1, <1>3
  <2> HIDE DEF told
  <2> QED BY <1>1, <1>2, <2>1, <2>2, <2>3
<1>5. /\ shown' = [f \in Files |-> IF \E i \in 1..n : fs[i] = f THEN None ELSE shown[f]]
      /\ asked' = (IF asked = "yes" THEN "void" ELSE asked) /\ menu' = None
      /\ UNCHANGED <<db, server, runs>>
  BY DEF Tell, Dismissed
<1> QED BY <1>3, <1>4, <1>5

\* Applying a fix makes a buffer of every file in it.
LEMMA ApplyEffect ==
    ASSUME TypeOK, Apply
    PROVE  /\ menu \in Action
           /\ buffer' \in [Files -> Texts \cup {None}]
           /\ \A f \in Files : buffer'[f] =
                 IF f \notin menu.files THEN buffer[f]
                 ELSE IF Now(f) = menu.base[f] THEN Fixed ELSE Garbled
           /\ \A f \in menu.files : buffer'[f] \in Texts
           /\ \E n \in Nat : \E fs \in [1..n -> Files] :
                 /\ Tell(fs) /\ \A i \in 1..n : fs[i] \in menu.files
                 /\ \A f \in menu.files : \E i \in 1..n : fs[i] = f
<1>1. menu \in Action /\ menu.files \subseteq FixFiles /\ menu.files \subseteq Files
  BY SessionAssumption DEF TypeOK, Apply, Action
<1>2. IsFiniteSet(menu.files) /\ Cardinality(menu.files) \in Nat
  BY <1>1, SessionAssumption, FS_Subset, FS_CardinalityType
<1>3. PICK fs \in Orders(menu.files) : Tell(fs)
  BY DEF Apply
<1>4. /\ fs \in [1..Cardinality(menu.files) -> menu.files]
      /\ fs \in Injection(1..Cardinality(menu.files), menu.files)
  <2>1. /\ fs \in [1..Cardinality(menu.files) -> menu.files]
        /\ \A i, k \in DOMAIN fs : fs[i] = fs[k] => i = k
    BY <1>3 DEF Orders
  <2> QED BY <2>1 DEF Injection, IsInjective
<1>5. Cardinality(1..Cardinality(menu.files)) = Cardinality(menu.files)
  <2> DEFINE n == Cardinality(menu.files)
  <2>1. Cardinality(1..n) = IF 1 > n THEN 0 ELSE n - 1 + 1
    <3> HIDE DEF n
    <3> QED BY <1>2, FS_Interval DEF n
  <2> QED BY <1>2, <2>1
<1>6. fs \in Surjection(1..Cardinality(menu.files), menu.files)
  BY <1>2, <1>4, <1>5, FS_Injection
<1>7. \A f \in menu.files : \E i \in 1..Cardinality(menu.files) : fs[i] = f
  BY <1>6 DEF Surjection
<1>8. fs \in [1..Cardinality(menu.files) -> Files]
  BY <1>1, <1>4
<1>9. buffer' = [f \in Files |->
          IF f \notin menu.files THEN buffer[f]
          ELSE IF Now(f) = menu.base[f] THEN Fixed ELSE Garbled]
  BY DEF Apply
<1>10. buffer \in [Files -> Texts \cup {None}] /\ {Fixed, Garbled} \subseteq Texts
  BY DEF TypeOK, Texts
<1>11. /\ buffer' \in [Files -> Texts \cup {None}]
       /\ \A f \in menu.files : buffer'[f] \in Texts
  BY <1>1, <1>9, <1>10
<1> QED BY <1>1, <1>2, <1>3, <1>4, <1>7, <1>8, <1>9, <1>11

\* The text the server handles has been stored.
Heard == job # None /\ job.kind = "text" => docs[job.file] \in Texts

TypeInv == TypeOK /\ Heard /\ ReaderInv

LEMMA TypeInit == Init => TypeInv
<1> SUFFICES ASSUME Init PROVE TypeInv
  OBVIOUS
<1>1. Heard /\ ReaderInv
  BY ReaderInit DEF Init, Heard
<1>2. TypeOK
  BY Markers, SessionAssumption DEF Init, NoConn, TypeOK, Recordings
<1> QED BY <1>1, <1>2 DEF TypeInv

LEMMA RecorderTypes ==
    ASSUME TypeInv, RemoveDb \/ CreateDb \/ CommitDb
    PROVE  TypeOK' /\ Heard'
<1> USE DEF TypeInv, TypeOK
<1>1. UNCHANGED <<disk, inbox, found, docs, job, seen, buffer, shown, asked, menu, edits>>
  BY DEF RemoveDb, CreateDb, CommitDb, Replaced, editor
<1>2. db' \in Recordings \cup {None, Empty}
  BY DEF RemoveDb, CreateDb, CommitDb, Replaced
<1>3. conn' \in [live : BOOLEAN, holds : Recordings \cup {Empty}]
  <2>1. CASE conn' = conn
    BY <2>1
  <2>2. CASE conn' # conn
    <3>1. db # None /\ conn' = [live |-> FALSE, holds |-> db]
      BY <2>2, Markers DEF RemoveDb, CreateDb, CommitDb, Replaced, ReaderInv, HaveTexts
    <3> QED BY <3>1
  <2> QED BY <2>1, <2>2
<1>4. runs' \in 0..MaxRuns
  BY SessionAssumption DEF RemoveDb, CreateDb, CommitDb
<1> QED BY <1>1, <1>2, <1>3, <1>4 DEF Heard

LEMMA ServerTypes ==
    ASSUME TypeInv, Receive \/ Decline \/ RunPass \/ Publish \/ CodeAction
    PROVE  TypeOK' /\ Heard'
<1> USE DEF TypeInv
<1>1. UNCHANGED <<disk, found, buffer, edits, runs>>
  BY DEF Receive, Decline, RunPass, Publish, CodeAction, Answered, editor, server, counts
<1>2. CASE Receive
  <2>1. /\ inbox \in Seq(Message) /\ inbox # <<>>
    BY <1>2 DEF Receive, TypeOK
  <2>2. Head(inbox) \in Message /\ Tail(inbox) \in Seq(Message)
    BY <2>1
  <2>3. PICK m \in Message : m = Head(inbox)
    BY <2>2
  <2>4. /\ inbox' \in Seq(Message) /\ job' = m /\ docs' = Stored(m)
        /\ UNCHANGED <<seen, shown, asked, menu>>
    BY <1>2, <2>2, <2>3 DEF Receive, editor
  <2>5. docs' \in [Files -> Texts \cup {None}] /\ (m.kind = "text" => docs'[m.file] \in Texts)
    BY <2>4, MessageFields DEF Stored, TypeOK
  <2>6. /\ conn' \in [live : BOOLEAN, holds : Recordings \cup {Empty}]
        /\ db' \in Recordings \cup {None, Empty}
    BY <1>2 DEF Receive, Opens, TypeOK
  <2> QED BY <1>1, <2>4, <2>5, <2>6 DEF TypeOK, Heard
<1>3. CASE Decline
  <2>1. inbox \in Seq(Message) /\ inbox # <<>>
    BY <1>3 DEF Decline, TypeOK
  <2>2. Tail(inbox) \in Seq(Message)
    BY <2>1
  <2>3. menu' \in Action \cup {None} /\ asked' \in {"no", "yes", "void"} /\ shown' = shown
    BY <1>3 DEF Decline, Offered, NoAction, TypeOK
  <2>4. inbox' = Tail(inbox) /\ UNCHANGED <<db, docs, job, conn, seen>>
    BY <1>3 DEF Decline, server
  <2> QED BY <1>1, <2>2, <2>3, <2>4 DEF TypeOK, Heard
<1>4. CASE RunPass
  BY <1>1, <1>4, SeenType DEF RunPass, editor, TypeOK, Heard
<1>5. CASE Publish
  <2>1. job \in Message /\ job.file \in Files /\ docs[job.file] \in Texts
    BY <1>5, MessageFields DEF Publish, TypeOK, Heard
  <2>2. Diagnostics(job.file) \in Shown
    BY <2>1 DEF Diagnostics, IsStale, Shown, TypeOK
  <2>3. \A f \in Files : shown'[f] \in Shown \cup {None}
    <3>1. shown = [f \in Files |-> shown[f]] /\ shown' = [shown EXCEPT ![job.file] = Diagnostics(job.file)]
      BY <1>5 DEF Publish, ReaderInv, Answers
    <3> HIDE DEF Diagnostics
    <3> QED BY <2>2, <3>1 DEF TypeOK
  <2>4. /\ UNCHANGED <<db, inbox, docs, asked, menu>>
        /\ job' = None /\ conn' = NoConn /\ seen' = {}
    BY <1>5 DEF Publish, Answered
  <2> QED BY <1>1, <2>3, <2>4 DEF NoConn, TypeOK, Heard
<1>6. CASE CodeAction
  <2>1. Offer(Seen) = NoAction \/ (Seen \in Recordings /\ Offer(Seen) = [files |-> FixFiles, base |-> Seen])
    BY SeenType DEF Offer, HasFix
  <2>2. menu' \in Action \cup {None} /\ asked' \in {"no", "yes", "void"} /\ shown' = shown
    BY <1>6, <2>1 DEF CodeAction, Offered, NoAction, Action, TypeOK
  <2>3. /\ UNCHANGED <<db, inbox, docs>>
        /\ job' = None /\ conn' = NoConn /\ seen' = {}
    BY <1>6 DEF CodeAction, Answered
  <2> QED BY <1>1, <2>2, <2>3 DEF NoConn, TypeOK, Heard
<1> QED BY <1>2, <1>3, <1>4, <1>5, <1>6

EditorStep ==
    \/ \E f \in Files : OpenDoc(f) \/ Save(f) \/ Close(f)
    \/ \E f \in Files, t \in Plain : Change(f, t)
    \/ \E f \in Outside, t \in Plain : Checkout(f, t)
    \/ Ask \/ Apply

\* The steps in which the editor tells the server of files: those it opens,
\* changes or applies a fix to, and no buffer of another one changes.
Tells(n, fs) ==
    /\ n \in Nat /\ fs \in [1..n -> Files]
    /\ Tell(fs)
    /\ \A i \in 1..n : buffer'[fs[i]] \in Texts
    /\ \A f \in Files : (\A i \in 1..n : fs[i] # f) => buffer'[f] = buffer[f]

LEMMA TellsEffect ==
    ASSUME TypeOK, NEW n, NEW fs, Tells(n, fs)
    PROVE  /\ n \in Nat /\ Len(inbox) \in Nat
           /\ DOMAIN inbox = 1..Len(inbox) /\ DOMAIN inbox' = 1..(Len(inbox) + n)
           /\ \A i \in 1..Len(inbox) : inbox'[i] = inbox[i]
           /\ \A i \in 1..n : inbox'[Len(inbox) + i] = Text(fs[i], buffer'[fs[i]])
           /\ \A f \in Files : shown'[f] \in {None, shown[f]}
           /\ \A f \in Files : (\A i \in 1..n : fs[i] # f) => shown'[f] = shown[f]
           /\ asked' = (IF asked = "yes" THEN "void" ELSE asked) /\ menu' = None
           /\ UNCHANGED <<db, found, docs, job, conn, seen, runs>>
<1>1. /\ inbox' \in Seq(Message) /\ Len(inbox') = Len(inbox) + n
      /\ \A i \in 1..Len(inbox) : inbox'[i] = inbox[i]
      /\ \A i \in 1..n : inbox'[Len(inbox) + i] = Text(fs[i], buffer'[fs[i]])
      /\ \A f \in Files : shown'[f] \in {None, shown[f]}
      /\ \A f \in Files : (\A i \in 1..n : fs[i] # f) => shown'[f] = shown[f]
      /\ asked' = (IF asked = "yes" THEN "void" ELSE asked) /\ menu' = None
      /\ UNCHANGED <<db, server, runs>>
  <2>1. /\ n \in Nat /\ fs \in [1..n -> Files] /\ Tell(fs)
        /\ \A i \in 1..n : buffer'[fs[i]] \in Texts
    BY DEF Tells
  <2> QED BY <2>1, TellEffect
<1>2. /\ n \in Nat /\ Len(inbox) \in Nat
      /\ DOMAIN inbox = 1..Len(inbox) /\ DOMAIN inbox' = 1..(Len(inbox) + n)
  BY <1>1 DEF Tells, TypeOK
<1> QED BY <1>1, <1>2 DEF server

LEMMA TellingSteps ==
    ASSUME TypeOK,
           \/ \E f \in Files : OpenDoc(f)
           \/ \E f \in Files, t \in Plain : Change(f, t)
           \/ Apply
    PROVE  /\ \E n, fs : Tells(n, fs)
           /\ buffer' \in [Files -> Texts \cup {None}]
           /\ edits' \in 0..MaxEdits /\ UNCHANGED disk
<1>1. ASSUME NEW f \in Files, NEW t \in Texts, buffer' = [buffer EXCEPT ![f] = t], Tell(<<f>>)
      PROVE  (\E n, fs : Tells(n, fs)) /\ buffer' \in [Files -> Texts \cup {None}]
  <2>1. <<f>> \in [1..1 -> Files] /\ <<f>>[1] = f
    OBVIOUS
  <2>2. buffer' \in [Files -> Texts \cup {None}] /\ buffer'[f] = t
        /\ \A g \in Files : g # f => buffer'[g] = buffer[g]
    BY <1>1 DEF TypeOK
  <2>3. Tells(1, <<f>>)
    <3>1. \A i \in 1..1 : <<f>>[i] = f
      BY <2>1
    <3> QED BY <1>1, <2>1, <2>2, <3>1 DEF Tells
  <2> QED BY <2>2, <2>3
<1>2. ASSUME NEW f \in Files, OpenDoc(f)
      PROVE  /\ \E n, fs : Tells(n, fs)
             /\ buffer' \in [Files -> Texts \cup {None}]
             /\ edits' \in 0..MaxEdits /\ UNCHANGED disk
  <2>1. PICK t \in Texts : t = disk[f]
    BY DEF TypeOK, Recordings
  <2> QED BY <1>1, <1>2, <2>1 DEF OpenDoc, TypeOK
<1>3. ASSUME NEW f \in Files, NEW t \in Plain, Change(f, t)
      PROVE  /\ \E n, fs : Tells(n, fs)
             /\ buffer' \in [Files -> Texts \cup {None}]
             /\ edits' \in 0..MaxEdits /\ UNCHANGED disk
  <2>1. t \in Texts
    BY DEF Texts
  <2>2. edits' \in 0..MaxEdits
    BY <1>3, SessionAssumption DEF Change, Edited, TypeOK
  <2> QED BY <1>1, <1>3, <2>1, <2>2 DEF Change
<1>4. CASE Apply
  <2>1. edits' \in 0..MaxEdits /\ UNCHANGED disk
    BY <1>4, SessionAssumption DEF Apply, Edited, TypeOK
  <2>2. PICK n \in Nat : \E fs \in [1..n -> Files] :
           /\ Tell(fs) /\ \A i \in 1..n : fs[i] \in menu.files
           /\ \A f \in menu.files : \E i \in 1..n : fs[i] = f
    BY <1>4, ApplyEffect
  <2>3. PICK fs \in [1..n -> Files] :
           /\ Tell(fs) /\ \A i \in 1..n : fs[i] \in menu.files
           /\ \A f \in menu.files : \E i \in 1..n : fs[i] = f
    BY <2>2
  <2>4. /\ \A f \in menu.files : buffer'[f] \in Texts
        /\ \A f \in Files : f \notin menu.files => buffer'[f] = buffer[f]
        /\ buffer' \in [Files -> Texts \cup {None}]
    BY <1>4, ApplyEffect
  <2>5. Tells(n, fs)
    BY <2>3, <2>4 DEF Tells
  <2> QED BY <2>1, <2>4, <2>5
<1> QED BY <1>2, <1>3, <1>4

LEMMA EditorTypes ==
    ASSUME TypeInv, EditorStep
    PROVE  TypeOK' /\ Heard'
<1> USE DEF TypeInv
<1>1. UNCHANGED <<db, server, runs>>
  BY DEF EditorStep, OpenDoc, Save, Close, Change, Checkout, Ask, Apply, Tell, counts
<1>2. Heard'
  BY <1>1 DEF server, Heard
<1>3. CASE \/ \E f \in Files : OpenDoc(f)
           \/ \E f \in Files, t \in Plain : Change(f, t)
           \/ Apply
  <2>1. PICK n, fs : Tells(n, fs)
    BY <1>3, TellingSteps
  <2>2. /\ inbox' \in Seq(Message) /\ asked' \in {"no", "yes", "void"} /\ menu' = None
        /\ \A f \in Files : shown'[f] \in Shown \cup {None}
    BY <2>1, TellEffect DEF Tells, TypeOK
  <2>3. buffer' \in [Files -> Texts \cup {None}] /\ edits' \in 0..MaxEdits /\ UNCHANGED disk
    BY <1>3, TellingSteps
  <2>4. UNCHANGED <<db, found, docs, job, conn, seen, runs>>
    BY <1>1 DEF server
  <2>5. None \in Action \cup {None}
    OBVIOUS
  <2>6. TypeOK'
    BY <2>2, <2>3, <2>4, <2>5 DEF TypeOK
  <2> QED BY <1>2, <2>6
<1>4. ASSUME NEW f \in Files, Save(f) PROVE TypeOK'
  <2>1. disk' \in Recordings
    BY <1>4 DEF Save, TypeOK, Recordings
  <2> QED BY <1>1, <1>4, <2>1 DEF Save, editor, counts, server, TypeOK
<1>5. ASSUME NEW f \in Files, Close(f) PROVE TypeOK'
  BY <1>1, <1>5 DEF Close, Dismissed, counts, server, TypeOK
<1>6. ASSUME NEW f \in Outside, NEW t \in Plain, Checkout(f, t) PROVE TypeOK'
  <2>1. disk' \in Recordings
    BY <1>6 DEF Checkout, TypeOK, Recordings, Texts
  <2>2. edits' \in 0..MaxEdits
    BY <1>6, SessionAssumption DEF Checkout, Edited, TypeOK
  <2> QED BY <1>1, <1>6, <2>1, <2>2 DEF Checkout, editor, server, TypeOK
<1>7. CASE Ask
  <2>1. inbox' \in Seq(Message) /\ asked' \in {"no", "yes", "void"}
    BY <1>7 DEF Ask, Message, TypeOK
  <2> QED BY <1>1, <1>2, <1>7, <2>1 DEF Ask, counts, server, TypeOK
<1> QED BY <1>2, <1>3, <1>4, <1>5, <1>6, <1>7 DEF EditorStep

LEMMA TypeInvariant == Spec => []TypeInv
<1>1. TypeInv /\ [Next]_vars => TypeInv'
  <2> SUFFICES ASSUME TypeInv, [Next]_vars PROVE TypeInv'
    OBVIOUS
  <2>1. ReaderInv'
    BY ReaderStep DEF TypeInv
  <2>2. CASE UNCHANGED vars
    BY <2>1, <2>2 DEF vars, server, editor, counts, TypeInv, TypeOK, Heard
  <2>3. CASE Next
    BY <2>1, <2>3, RecorderTypes, ServerTypes, EditorTypes DEF Next, EditorStep, TypeInv
  <2> QED BY <2>2, <2>3
<1> QED BY <1>1, TypeInit, PTL DEF Spec

\* Every state of a session is of its types.
THEOREM SessionTypeOK == Spec => []TypeOK
<1>1. TypeInv => TypeOK
  BY DEF TypeInv
<1> QED BY <1>1, TypeInvariant, PTL

-----------------------------------------------------------------------------
(* Diagnostics of the text in the buffer.                                  *)

TextOf(m, f) == m.kind = "text" /\ m.file = f

Pending(f) == \E i \in DOMAIN inbox : TextOf(inbox[i], f)

\* The last text the server has been told of f, or is about to be, is t.
Told(f, t) ==
    /\ \A i \in DOMAIN inbox :
          TextOf(inbox[i], f) /\ (\A k \in DOMAIN inbox : k > i => ~TextOf(inbox[k], f))
             => inbox[i].text = t
    /\ ~Pending(f) => docs[f] = t

InStep == found => \A f \in Files : buffer[f] # None => Told(f, buffer[f])

\* Nothing under way: the answer is there and is about the text in the buffer.
Current ==
    found => \A f \in Files : Settled(f) => shown[f] # None /\ shown[f].text = buffer[f]

\* The mark compares with the recording the findings are from.
Marked ==
    \A f \in Files : shown[f] # None =>
        \A rec \in shown[f].seen \ {Empty} : shown[f].marked <=> rec[f] # shown[f].text

SyncInv == InStep /\ Current /\ Marked

LEMMA SyncInit == Init => SyncInv
  BY DEF Init, SyncInv, InStep, Current, Settled, Marked

\* The server takes the first message out of the inbox.
LEMMA Received ==
    ASSUME TypeOK, inbox # <<>>, inbox' = Tail(inbox)
    PROVE  /\ Head(inbox) \in Message /\ Head(inbox) = inbox[1]
           /\ Len(inbox) \in Nat \ {0}
           /\ DOMAIN inbox = 1..Len(inbox) /\ DOMAIN inbox' = 1..(Len(inbox) - 1)
           /\ \A i \in DOMAIN inbox' : i + 1 \in DOMAIN inbox /\ inbox'[i] = inbox[i + 1]
           /\ \A i \in DOMAIN inbox : i # 1 => i - 1 \in DOMAIN inbox' /\ inbox[i] = inbox'[i - 1]
<1>1. inbox \in Seq(Message) /\ Len(inbox) \in Nat
  BY DEF TypeOK
<1>2. Len(inbox) # 0 /\ Len(inbox') = Len(inbox) - 1 /\ inbox' \in Seq(Message)
  BY <1>1
<1>3. \A i \in 1..(Len(inbox) - 1) : inbox'[i] = inbox[i + 1]
  BY <1>1
<1> QED BY <1>1, <1>2, <1>3

\* What was told last stays so when the server stores the first message.
LEMMA ToldReceive ==
    ASSUME TypeOK, Receive, NEW f \in Files, NEW t, Told(f, t)
    PROVE  Told(f, t)'
<1>1. /\ inbox # <<>> /\ inbox' = Tail(inbox) /\ docs' = Stored(Head(inbox))
      /\ docs \in [Files -> Texts \cup {None}]
  BY DEF Receive, TypeOK
<1>2. PICK m \in Message : m = Head(inbox)
  BY <1>1, Received
<1>3. docs' = Stored(m) /\ m = inbox[1] /\ 1 \in DOMAIN inbox
  BY <1>1, <1>2, Received
<1>4. ASSUME NEW i \in DOMAIN inbox', TextOf(inbox'[i], f),
             \A k \in DOMAIN inbox' : k > i => ~TextOf(inbox'[k], f)
      PROVE  inbox'[i].text = t
  <2>1. i + 1 \in DOMAIN inbox /\ inbox[i + 1] = inbox'[i] /\ i \in Nat
    BY <1>1, Received
  <2>2. ASSUME NEW k \in DOMAIN inbox, k > i + 1 PROVE ~TextOf(inbox[k], f)
    <3>1. k \in Nat /\ k # 1 /\ k - 1 > i
      BY <1>1, <2>1, <2>2, Received
    <3>2. k - 1 \in DOMAIN inbox' /\ inbox[k] = inbox'[k - 1]
      BY <1>1, <3>1, Received
    <3> QED BY <1>4, <3>1, <3>2
  <2> QED BY <1>4, <2>1, <2>2 DEF Told
<1>5. ASSUME ~Pending(f)' PROVE docs'[f] = t
  <2>1. \A k \in DOMAIN inbox : k # 1 => ~TextOf(inbox[k], f)
    BY <1>1, <1>5, Received DEF Pending
  <2>2. CASE TextOf(m, f)
    <3>1. \A k \in DOMAIN inbox : k > 1 => ~TextOf(inbox[k], f)
      BY <1>1, <2>1, Received
    <3>2. inbox[1].text = t
      BY <1>3, <2>2, <3>1 DEF Told
    <3> QED BY <1>1, <1>3, <2>2, <3>2 DEF Stored, TextOf
  <2>3. CASE ~TextOf(m, f)
    <3>1. ~Pending(f)
      BY <1>3, <2>1, <2>3 DEF Pending
    <3>2. docs'[f] = docs[f]
      BY <1>1, <1>2, <1>3, <2>3, MessageFields DEF Stored, TextOf
    <3> QED BY <3>1, <3>2 DEF Told
  <2> QED BY <2>2, <2>3
<1> QED BY <1>4, <1>5 DEF Told, Pending

LEMMA TellsInbox ==
    ASSUME TypeOK, NEW n, NEW fs, Tells(n, fs)
    PROVE  /\ n \in Nat /\ Len(inbox) \in Nat /\ docs' = docs
           /\ DOMAIN inbox = 1..Len(inbox) /\ DOMAIN inbox' = 1..(Len(inbox) + n)
           /\ \A i \in 1..Len(inbox) : inbox'[i] = inbox[i]
           /\ \A i \in 1..n : inbox'[Len(inbox) + i] = Text(fs[i], buffer'[fs[i]])
<1>1. UNCHANGED <<db, found, docs, job, conn, seen, runs>>
  BY TellsEffect, Zenon
<1>2. docs' = docs
  BY <1>1
<1> QED BY <1>2, TellsEffect

\* Telling of a file makes its new text the last.
LEMMA ToldTells ==
    ASSUME TypeOK, NEW n, NEW fs, Tells(n, fs), NEW f \in Files, NEW t,
           \/ (\E i \in 1..n : fs[i] = f) /\ t = buffer'[f]
           \/ (\A i \in 1..n : fs[i] # f) /\ Told(f, t)
    PROVE  Told(f, t)'
<1> DEFINE l == Len(inbox)
<1>1. /\ n \in Nat /\ l \in Nat /\ docs' = docs
      /\ DOMAIN inbox = 1..l /\ DOMAIN inbox' = 1..(l + n)
      /\ \A i \in 1..l : inbox'[i] = inbox[i]
      /\ \A i \in 1..n : inbox'[l + i] = Text(fs[i], buffer'[fs[i]])
      /\ \A i \in 1..n : TextOf(inbox'[l + i], fs[i]) /\ inbox'[l + i].text = buffer'[fs[i]]
  <2>1. \A i \in 1..n : fs[i] \in Files /\ buffer'[fs[i]] \in Texts
    BY DEF Tells
  <2>2. \A i \in 1..n : TextOf(Text(fs[i], buffer'[fs[i]]), fs[i])
                     /\ Text(fs[i], buffer'[fs[i]]).text = buffer'[fs[i]]
    BY <2>1, TextMessage DEF TextOf
  <2>3. /\ n \in Nat /\ l \in Nat /\ docs' = docs
        /\ DOMAIN inbox = 1..l /\ DOMAIN inbox' = 1..(l + n)
        /\ \A i \in 1..l : inbox'[i] = inbox[i]
        /\ \A i \in 1..n : inbox'[l + i] = Text(fs[i], buffer'[fs[i]])
    BY TellsInbox
  <2> HIDE DEF l
  <2> QED BY <2>2, <2>3
<1>2. \A i \in 1..(l + n) : i \in 1..l \/ \E k \in 1..n : i = l + k
  <2> SUFFICES ASSUME NEW i \in 1..(l + n), i \notin 1..l PROVE \E k \in 1..n : i = l + k
    OBVIOUS
  <2>1. i - l \in 1..n /\ i = l + (i - l)
    BY <1>1
  <2> QED BY <2>1
<1> HIDE DEF l
<1>3. CASE (\E i \in 1..n : fs[i] = f) /\ t = buffer'[f]
  <2>1. PICK i \in 1..n : fs[i] = f
    BY <1>3
  <2>2. l + i \in DOMAIN inbox' /\ TextOf(inbox'[l + i], f)
    BY <1>1, <2>1
  <2>3. Pending(f)'
    BY <2>2 DEF Pending
  <2>4. ASSUME NEW j \in DOMAIN inbox', TextOf(inbox'[j], f),
               \A k \in DOMAIN inbox' : k > j => ~TextOf(inbox'[k], f)
        PROVE  inbox'[j].text = t
    <3>1. ~(l + i > j)
      BY <2>2, <2>4
    <3>2. PICK k \in 1..n : j = l + k
      <4>1. j \in 1..(l + n) /\ j \in Nat /\ j \notin 1..l
        BY <1>1, <2>1, <2>4, <3>1
      <4> QED BY <1>2, <4>1
    <3>3. fs[k] = f
      BY <1>1, <2>4, <3>2 DEF TextOf
    <3> QED BY <1>1, <1>3, <3>2, <3>3
  <2> QED BY <2>3, <2>4 DEF Told
<1>4. CASE (\A i \in 1..n : fs[i] # f) /\ Told(f, t)
  <2>1. \A i \in 1..n : ~TextOf(inbox'[l + i], f)
    BY <1>1, <1>4 DEF TextOf
  <2>2. \A i \in DOMAIN inbox' : TextOf(inbox'[i], f) => i \in DOMAIN inbox /\ TextOf(inbox[i], f)
    BY <1>1, <1>2, <2>1
  <2>3. \A i \in DOMAIN inbox : TextOf(inbox[i], f) => i \in DOMAIN inbox' /\ TextOf(inbox'[i], f)
    BY <1>1
  <2>4. Pending(f)' <=> Pending(f)
    BY <2>2, <2>3 DEF Pending
  <2> QED BY <1>1, <1>4, <2>2, <2>3, <2>4 DEF Told
<1> QED BY <1>3, <1>4

\* A request for code actions is no text.
LEMMA ToldAsk ==
    ASSUME TypeOK, Ask
    PROVE  /\ DOMAIN inbox' = 1..(Len(inbox) + 1) /\ Len(inbox) \in Nat
           /\ DOMAIN inbox = 1..Len(inbox) /\ Len(inbox') = Len(inbox) + 1
           /\ \A i \in 1..Len(inbox) : inbox'[i] = inbox[i]
           /\ inbox'[Len(inbox) + 1] = [kind |-> "action"]
           /\ \A f : Pending(f)' <=> Pending(f)
           /\ \A f, t : Told(f, t) => Told(f, t)'
<1>1. /\ inbox \in Seq(Message) /\ [kind |-> "action"] \in Message
      /\ inbox' = Append(inbox, [kind |-> "action"]) /\ docs' = docs
  BY DEF TypeOK, Ask, Message, server
<1>2. /\ DOMAIN inbox' = 1..(Len(inbox) + 1) /\ Len(inbox) \in Nat
      /\ DOMAIN inbox = 1..Len(inbox) /\ Len(inbox') = Len(inbox) + 1
      /\ \A i \in 1..Len(inbox) : inbox'[i] = inbox[i]
      /\ inbox'[Len(inbox) + 1] = [kind |-> "action"]
  BY <1>1
<1>3. \A i \in DOMAIN inbox' : i \in DOMAIN inbox \/ i = Len(inbox) + 1
  BY <1>2
<1>4. \A f : ~TextOf(inbox'[Len(inbox) + 1], f)
  BY <1>2 DEF TextOf
<1>5. \A i \in DOMAIN inbox : i \in DOMAIN inbox' /\ inbox'[i] = inbox[i]
  BY <1>2
<1>6. \A f : Pending(f)' <=> Pending(f)
  BY <1>3, <1>4, <1>5 DEF Pending
<1>7. ASSUME NEW f, NEW t, Told(f, t) PROVE Told(f, t)'
  BY <1>1, <1>3, <1>4, <1>5, <1>6, <1>7 DEF Told
<1> QED BY <1>2, <1>6, <1>7

\* A step that neither tells nor answers anything.
LEMMA SyncUnchanged ==
    ASSUME SyncInv, UNCHANGED <<found, inbox, docs, job, buffer, shown>>
    PROVE  SyncInv'
  BY DEF SyncInv, InStep, Told, Pending, Current, Settled, Marked

LEMMA SyncServer ==
    ASSUME TypeInv, SyncInv, Receive \/ Decline \/ RunPass \/ Publish \/ CodeAction
    PROVE  SyncInv'
<1> USE DEF TypeInv, SyncInv
<1>1. CASE Receive
  <2>1. /\ found /\ job = None /\ inbox # <<>> /\ inbox' = Tail(inbox) /\ job' = Head(inbox)
        /\ UNCHANGED <<found, buffer, shown>>
    BY <1>1 DEF Receive, editor
  <2>2. InStep'
    <3> SUFFICES ASSUME NEW f \in Files, buffer[f] # None PROVE Told(f, buffer[f])'
      BY <2>1 DEF InStep
    <3>1. PICK t : t = buffer[f]
      OBVIOUS
    <3>2. Told(f, t)'
      BY <1>1, <2>1, <3>1, ToldReceive DEF InStep
    <3> QED BY <2>1, <3>1, <3>2 DEF Told
  <2>3. Current'
    <3> SUFFICES ASSUME NEW f \in Files, Settled(f)' PROVE Settled(f)
      BY <2>1 DEF Current
    <3>1. PICK m \in Message : m = Head(inbox) /\ m = inbox[1]
      BY <2>1, Received
    <3>2. m.kind = "text" => m.file # f
      <4>1. m # None
        BY SessionAssumption
      <4> QED BY <2>1, <3>1, <4>1 DEF Settled
    <3>3. \A i \in DOMAIN inbox : i # 1 => (inbox[i].kind = "text" => inbox[i].file # f)
      BY <2>1, Received DEF Settled
    <3> QED BY <2>1, <3>1, <3>2, <3>3 DEF Settled
  <2> QED BY <2>1, <2>2, <2>3 DEF Marked
<1>2. CASE Decline
  BY <1>2 DEF Decline, Offered, server, InStep, Current, Marked
<1>3. CASE RunPass
  BY <1>3, SyncUnchanged DEF RunPass, editor
<1>4. CASE Publish
  <2>1. PICK f \in Files : f = job.file
    BY <1>4, MessageFields DEF Publish, TypeOK
  <2>2. /\ shown' = [shown EXCEPT ![f] = Diagnostics(f)] /\ shown = [g \in Files |-> shown[g]]
        /\ job # None /\ job.kind = "text" /\ job' = None
        /\ UNCHANGED <<found, inbox, docs, buffer>>
    BY <1>4, <2>1 DEF Publish, Answered, ReaderInv, Answers
  <2>3. /\ shown'[f] = Diagnostics(f)
        /\ \A g \in Files \ {f} : shown'[g] = shown[g]
    <3> HIDE DEF Diagnostics
    <3> QED BY <2>2
  <2>4. Diagnostics(f) # None /\ Diagnostics(f).text = docs[f]
    <3>1. docs[f] \in Texts
      BY <2>1, <2>2 DEF Heard
    <3>2. Diagnostics(f) \in Shown
      BY <3>1 DEF Diagnostics, IsStale, Shown, TypeOK
    <3> QED BY <3>2, SessionAssumption DEF Diagnostics
  <2>5. InStep'
    BY <2>2 DEF InStep, Told, Pending
  <2>6. Current'
    <3> SUFFICES ASSUME found, NEW g \in Files, Settled(g)'
                 PROVE  shown'[g] # None /\ shown'[g].text = buffer[g]
      BY <2>2 DEF Current
    <3>1. buffer[g] # None /\ \A i \in DOMAIN inbox : inbox[i].kind = "text" => inbox[i].file # g
      BY <2>2 DEF Settled
    <3>2. CASE g = f
      <4>1. ~Pending(f)
        BY <3>1, <3>2 DEF Pending, TextOf
      <4>2. docs[f] = buffer[f]
        BY <3>1, <3>2, <4>1 DEF InStep, Told
      <4> QED BY <2>3, <2>4, <3>2, <4>2
    <3>3. CASE g # f
      <4>1. Settled(g)
        BY <2>1, <3>1, <3>3 DEF Settled
      <4> QED BY <2>3, <3>3, <4>1 DEF Current
    <3> QED BY <3>2, <3>3
  <2>7. Marked'
    <3>1. ASSUME NEW rec \in seen \ {Empty}
          PROVE  Diagnostics(f).marked <=> rec[f] # docs[f]
      BY <3>1 DEF Diagnostics, IsStale, ReaderInv, Pinned
    <3>2. Diagnostics(f).seen = seen
      BY DEF Diagnostics
    <3> HIDE DEF Diagnostics
    <3> QED BY <2>3, <2>4, <3>1, <3>2 DEF Marked
  <2> QED BY <2>5, <2>6, <2>7
<1>5. CASE CodeAction
  <2>1. /\ job # None /\ job.kind = "action" /\ job' = None
        /\ UNCHANGED <<found, inbox, docs, buffer, shown>>
    BY <1>5 DEF CodeAction, Offered, Answered
  <2> QED BY <2>1 DEF InStep, Told, Pending, Current, Settled, Marked
<1> QED BY <1>1, <1>2, <1>3, <1>4, <1>5

LEMMA SyncEditor ==
    ASSUME TypeInv, SyncInv, EditorStep
    PROVE  SyncInv'
<1> USE DEF TypeInv, SyncInv
<1>1. ASSUME NEW n, NEW fs, Tells(n, fs) PROVE SyncInv'
  <2>1. /\ UNCHANGED <<found, docs, job>>
        /\ \A f \in Files : shown'[f] \in {None, shown[f]}
      /\ \A f \in Files : (\A i \in 1..n : fs[i] # f) => shown'[f] = shown[f]
    BY <1>1, TellsEffect
  <2>2. InStep'
    <3> SUFFICES ASSUME found, NEW f \in Files, buffer'[f] # None PROVE Told(f, buffer[f])'
      BY <2>1 DEF InStep
    <3>1. PICK t : t = buffer'[f]
      OBVIOUS
    <3>2. Told(f, t)'
      <4>1. CASE \E i \in 1..n : fs[i] = f
        BY <1>1, <3>1, <4>1, ToldTells
      <4>2. CASE \A i \in 1..n : fs[i] # f
        <5>1. Told(f, t)
          BY <1>1, <3>1, <4>2 DEF Tells, InStep
        <5> QED BY <1>1, <4>2, <5>1, ToldTells
      <4> QED BY <4>1, <4>2
    <3> QED BY <3>1, <3>2 DEF Told
  <2>3. n \in Nat /\ Len(inbox) \in Nat /\ DOMAIN inbox = 1..Len(inbox)
    BY <1>1, TellsEffect
  <2>4. DOMAIN inbox' = 1..(Len(inbox) + n) /\ \A i \in 1..Len(inbox) : inbox'[i] = inbox[i]
    BY <1>1, TellsEffect
  <2>5. \A i \in 1..n : inbox'[Len(inbox) + i] = Text(fs[i], buffer'[fs[i]])
    BY <1>1, TellsEffect
  <2>6. Current'
    <3> SUFFICES ASSUME found, NEW f \in Files, Settled(f)'
                 PROVE  shown'[f] # None /\ shown'[f].text = buffer'[f]
      BY <2>1 DEF Current
    <3>2. \A i \in 1..n : fs[i] # f
      <4> SUFFICES ASSUME NEW i \in 1..n, fs[i] = f PROVE FALSE
        OBVIOUS
      <4>1. Len(inbox) + i \in DOMAIN inbox'
        BY <2>3, <2>4
      <4>2. inbox'[Len(inbox) + i].kind = "text" /\ inbox'[Len(inbox) + i].file = f
        BY <1>1, <2>5, TextMessage DEF Tells
      <4> QED BY <4>1, <4>2 DEF Settled
    <3>3. buffer'[f] = buffer[f] /\ shown'[f] = shown[f]
      BY <1>1, <2>1, <3>2 DEF Tells
    <3>4. \A i \in DOMAIN inbox : i \in DOMAIN inbox' /\ inbox'[i] = inbox[i]
      BY <2>3, <2>4
    <3>5. Settled(f)
      BY <2>1, <3>3, <3>4 DEF Settled
    <3> QED BY <3>3, <3>5 DEF Current
  <2>7. Marked'
    BY <2>1 DEF Marked
  <2> QED BY <2>2, <2>6, <2>7
<1>2. CASE \/ \E f \in Files : OpenDoc(f)
           \/ \E f \in Files, t \in Plain : Change(f, t)
           \/ Apply
  BY <1>1, <1>2, TellingSteps
<1>3. ASSUME NEW f \in Files, Save(f) PROVE SyncInv'
  BY <1>3, SyncUnchanged DEF Save, server, editor
<1>4. ASSUME NEW f \in Files, Close(f) PROVE SyncInv'
  <2>1. /\ UNCHANGED <<found, inbox, docs, job, shown>>
        /\ \A g \in Files : buffer'[g] # None => buffer'[g] = buffer[g]
    BY <1>4 DEF Close, server, TypeOK
  <2> QED BY <2>1 DEF InStep, Told, Pending, Current, Settled, Marked
<1>5. ASSUME NEW f \in Outside, NEW t \in Plain, Checkout(f, t) PROVE SyncInv'
  BY <1>5, SyncUnchanged DEF Checkout, server, editor
<1>6. CASE Ask
  <2>1. UNCHANGED <<found, docs, job, buffer, shown>>
    BY <1>6 DEF Ask, server
  <2>2. InStep'
    <3> SUFFICES ASSUME found, NEW f \in Files, buffer[f] # None PROVE Told(f, buffer[f])'
      BY <2>1 DEF InStep
    <3>1. PICK t : t = buffer[f]
      OBVIOUS
    <3>2. Told(f, t)'
      BY <1>6, <3>1, ToldAsk DEF InStep
    <3> QED BY <2>1, <3>1, <3>2 DEF Told
  <2>3. \A i \in DOMAIN inbox : i \in DOMAIN inbox' /\ inbox'[i] = inbox[i]
    BY <1>6, ToldAsk
  <2>4. Current' /\ Marked'
    BY <2>1, <2>3 DEF Current, Settled, Marked
  <2> QED BY <2>2, <2>4
<1> QED BY <1>2, <1>3, <1>4, <1>5, <1>6 DEF EditorStep

LEMMA SyncInvariant == Spec => [](TypeInv /\ SyncInv)
<1>1. TypeInv /\ SyncInv /\ [Next]_vars => SyncInv'
  <2> SUFFICES ASSUME TypeInv, SyncInv, [Next]_vars PROVE SyncInv'
    OBVIOUS
  <2>1. CASE RemoveDb \/ CreateDb \/ CommitDb
    BY <2>1, SyncUnchanged DEF RemoveDb, CreateDb, CommitDb, Replaced, editor
  <2>2. CASE UNCHANGED vars
    BY <2>2, SyncUnchanged DEF vars, server, editor
  <2> QED BY <2>1, <2>2, SyncServer, SyncEditor DEF Next, EditorStep
<1> QED BY <1>1, SyncInit, TypeInvariant, PTL DEF Spec

\* Once the server has answered, the diagnostics of an open buffer are of its
\* text, and marked stale exactly when it differs from the recording they are
\* from (server.rs:72), whatever was typed, closed and recorded meanwhile.
THEOREM StaleMarksHonest == Spec => []MarksHonest
<1>1. SyncInv => MarksHonest
  BY DEF SyncInv, Current, Marked, MarksHonest
<1> QED BY <1>1, SyncInvariant, PTL

-----------------------------------------------------------------------------
(* Fixes that fit: nobody changes files behind the editor, and it closes no *)
(* buffer it has not saved.                                                *)

\* The server has never heard of f.
Unknown(f) == docs[f] = None /\ ~Pending(f)

\* A file the server has never heard of is as it was at the start, on disk and
\* in every recording; of any other it knows what an edit would find.
Known ==
    found => \A f \in Files :
        /\ Unknown(f) =>
              /\ buffer[f] = None /\ disk[f] = First
              /\ \A rec \in {db, conn.holds} : rec \in Recordings => rec[f] = First
        /\ ~Unknown(f) => Told(f, Now(f))

IsAction(m) == m.kind = "action"

\* At most one request is under way, and an editor that still wants its answer
\* has sent nothing since.
OneRequest ==
    /\ \A i, k \in DOMAIN inbox : IsAction(inbox[i]) /\ IsAction(inbox[k]) => i = k
    /\ job # None /\ IsAction(job) => \A i \in DOMAIN inbox : ~IsAction(inbox[i])
    /\ asked = "no" => /\ \A i \in DOMAIN inbox : ~IsAction(inbox[i])
                       /\ job # None => ~IsAction(job)
    /\ asked = "yes" => /\ \A i \in DOMAIN inbox : IsAction(inbox[i]) => i = Len(inbox)
                        /\ job # None /\ IsAction(job) => inbox = <<>>

\* What is on the menu fits what the edits would be applied to.
MenuFits ==
    /\ menu # None => /\ found /\ asked = "no" /\ menu.files = FixFiles
                      /\ \A g \in FixFiles : menu.base[g] = Now(g)
    /\ ~found => job = None

FixInv == Known /\ OneRequest /\ MenuFits /\ NothingGarbled

LEMMA FixInit == Init => FixInv
<1> SUFFICES ASSUME Init PROVE FixInv
  OBVIOUS
<1>1. Known
  BY Markers DEF Init, NoConn, Known, Unknown, Pending
<1>2. OneRequest /\ MenuFits
  BY DEF Init, OneRequest, MenuFits
<1>3. NothingGarbled
  BY Markers, SessionAssumption DEF Init, NothingGarbled, Texts
<1> QED BY <1>1, <1>2, <1>3 DEF FixInv

LEMMA FixRecorder ==
    ASSUME TypeInv, FixInv, RemoveDb \/ CreateDb \/ CommitDb
    PROVE  FixInv'
<1> USE DEF FixInv
<1>1. UNCHANGED <<disk, inbox, found, docs, job, seen, buffer, shown, asked, menu>>
  BY DEF RemoveDb, CreateDb, CommitDb, Replaced, editor
<1>2. \A rec \in {db', conn'.holds} : rec \in {db, conn.holds, None, Empty, disk}
  <2>1. CASE RemoveDb
    BY <2>1 DEF RemoveDb, Replaced
  <2>2. CASE CreateDb
    BY <2>2 DEF CreateDb, Replaced
  <2>3. CASE CommitDb
    BY <2>3 DEF CommitDb, Replaced
  <2> QED BY <2>1, <2>2, <2>3
<1>3. Known'
  <2>1. \A f \in Files : Unknown(f)' <=> Unknown(f)
    BY <1>1 DEF Unknown, Pending
  <2>2. \A f \in Files : Now(f)' = Now(f)
    BY <1>1 DEF Now
  <2>3. \A f \in Files : ~Unknown(f) /\ found => Told(f, Now(f))'
    BY <1>1, <2>2 DEF Known, Told, Pending
  <2>4. \A f \in Files : Unknown(f) /\ found =>
           \A rec \in {db', conn'.holds} : rec \in Recordings => rec[f] = First
    BY <1>2, Markers DEF Known
  <2> QED BY <1>1, <2>1, <2>3, <2>4 DEF Known
<1>4. OneRequest' /\ NothingGarbled'
  BY <1>1 DEF OneRequest, NothingGarbled
<1>5. MenuFits'
  BY <1>1 DEF MenuFits, Now
<1> QED BY <1>3, <1>4, <1>5

\* Receiving a text of f takes the news out of the inbox into the store.
LEMMA UnknownReceive ==
    ASSUME TypeOK, Receive, NEW f \in Files
    PROVE  Unknown(f)' <=> Unknown(f)
<1>1. /\ inbox # <<>> /\ inbox' = Tail(inbox) /\ docs' = Stored(Head(inbox))
      /\ docs \in [Files -> Texts \cup {None}]
  BY DEF Receive, TypeOK
<1>2. PICK m \in Message : m = Head(inbox)
  BY <1>1, Received
<1>3. docs' = Stored(m) /\ m = inbox[1] /\ 1 \in DOMAIN inbox
  BY <1>1, <1>2, Received
<1>4. Pending(f) <=> TextOf(m, f) \/ Pending(f)'
  <2>1. ASSUME Pending(f), ~TextOf(m, f) PROVE Pending(f)'
    BY <1>1, <1>3, <2>1, Received DEF Pending
  <2>2. ASSUME Pending(f)' PROVE Pending(f)
    BY <1>1, <2>2, Received DEF Pending
  <2> QED BY <1>3, <2>1, <2>2 DEF Pending
<1>5. CASE TextOf(m, f)
  <2>1. docs'[f] = m.text /\ m.text # None
    BY <1>1, <1>3, <1>5, MessageFields, Markers DEF Stored, TextOf
  <2> QED BY <1>4, <1>5, <2>1 DEF Unknown
<1>6. CASE ~TextOf(m, f)
  <2>1. docs'[f] = docs[f]
    BY <1>1, <1>3, <1>6, MessageFields DEF Stored, TextOf
  <2> QED BY <1>4, <1>6, <2>1 DEF Unknown
<1> QED BY <1>5, <1>6

\* Telling of a file is news of it, and of no other.
LEMMA PendingTells ==
    ASSUME TypeOK, NEW n, NEW fs, Tells(n, fs), NEW f \in Files
    PROVE  Pending(f)' <=> Pending(f) \/ \E i \in 1..n : fs[i] = f
<1> DEFINE l == Len(inbox)
<1>1. /\ n \in Nat /\ l \in Nat
      /\ DOMAIN inbox = 1..l /\ DOMAIN inbox' = 1..(l + n)
      /\ \A i \in 1..l : inbox'[i] = inbox[i]
      /\ \A i \in 1..n : TextOf(inbox'[l + i], f) <=> fs[i] = f
  <2>1. \A i \in 1..n : fs[i] \in Files /\ buffer'[fs[i]] \in Texts
    BY DEF Tells
  <2>2. \A i \in 1..n : TextOf(Text(fs[i], buffer'[fs[i]]), f) <=> fs[i] = f
    BY <2>1, TextMessage DEF TextOf
  <2>3. /\ n \in Nat /\ l \in Nat
        /\ DOMAIN inbox = 1..l /\ DOMAIN inbox' = 1..(l + n)
        /\ \A i \in 1..l : inbox'[i] = inbox[i]
        /\ \A i \in 1..n : inbox'[l + i] = Text(fs[i], buffer'[fs[i]])
    BY TellsEffect
  <2> HIDE DEF l
  <2> QED BY <2>2, <2>3
<1>2. \A i \in 1..(l + n) : i \in 1..l \/ \E k \in 1..n : i = l + k
  <2> SUFFICES ASSUME NEW i \in 1..(l + n), i \notin 1..l PROVE \E k \in 1..n : i = l + k
    OBVIOUS
  <2>1. i - l \in 1..n /\ i = l + (i - l)
    BY <1>1
  <2> QED BY <2>1
<1> HIDE DEF l
<1>3. \A i \in 1..l : i \in DOMAIN inbox'
  BY <1>1
<1>4. \A i \in 1..n : l + i \in DOMAIN inbox'
  BY <1>1
<1>5. Pending(f)' => Pending(f) \/ \E i \in 1..n : fs[i] = f
  BY <1>1, <1>2 DEF Pending
<1>6. Pending(f) \/ (\E i \in 1..n : fs[i] = f) => Pending(f)'
  BY <1>1, <1>3, <1>4 DEF Pending
<1> QED BY <1>5, <1>6

\* When the first message is taken, the requests behind it stay in their order.
LEMMA RequestsShift ==
    ASSUME TypeOK, OneRequest, inbox # <<>>, inbox' = Tail(inbox)
    PROVE  /\ \A i, k \in DOMAIN inbox' : IsAction(inbox'[i]) /\ IsAction(inbox'[k]) => i = k
           /\ IsAction(Head(inbox)) => \A i \in DOMAIN inbox' : ~IsAction(inbox'[i])
           /\ asked = "no" => /\ \A i \in DOMAIN inbox' : ~IsAction(inbox'[i])
                              /\ ~IsAction(Head(inbox))
           /\ asked = "yes" => /\ \A i \in DOMAIN inbox' :
                                     IsAction(inbox'[i]) => i = Len(inbox')
                               /\ IsAction(Head(inbox)) => inbox' = <<>>
<1>1. /\ Head(inbox) = inbox[1] /\ Len(inbox) \in Nat \ {0}
      /\ DOMAIN inbox = 1..Len(inbox) /\ DOMAIN inbox' = 1..(Len(inbox) - 1)
      /\ \A i \in DOMAIN inbox' : i + 1 \in DOMAIN inbox /\ inbox'[i] = inbox[i + 1]
  BY Received
<1>2. inbox' \in Seq(Message) /\ Len(inbox') = Len(inbox) - 1
  BY DEF TypeOK
<1>3. Len(inbox) = 1 => inbox' = <<>>
  BY <1>2
<1>4. 1 \in DOMAIN inbox /\ \A i \in DOMAIN inbox' : i \in Nat /\ i + 1 # 1
  BY <1>1
<1>5. \A i, k \in DOMAIN inbox' : IsAction(inbox'[i]) /\ IsAction(inbox'[k]) => i = k
  <2> SUFFICES ASSUME NEW i \in DOMAIN inbox', NEW k \in DOMAIN inbox',
                      IsAction(inbox'[i]), IsAction(inbox'[k])
               PROVE  i = k
    OBVIOUS
  <2>1. i + 1 = k + 1
    BY <1>1 DEF OneRequest
  <2> QED BY <1>4, <2>1
<1>6. IsAction(Head(inbox)) => \A i \in DOMAIN inbox' : ~IsAction(inbox'[i])
  BY <1>1, <1>4 DEF OneRequest
<1>7. asked = "no" => /\ \A i \in DOMAIN inbox' : ~IsAction(inbox'[i])
                      /\ ~IsAction(Head(inbox))
  BY <1>1, <1>4 DEF OneRequest
<1>8. ASSUME asked = "yes", NEW i \in DOMAIN inbox', IsAction(inbox'[i]) PROVE i = Len(inbox')
  <2>1. i + 1 = Len(inbox)
    BY <1>1, <1>8 DEF OneRequest
  <2> QED BY <1>1, <1>2, <1>4, <2>1
<1>9. asked = "yes" /\ IsAction(Head(inbox)) => inbox' = <<>>
  BY <1>1, <1>3, <1>4 DEF OneRequest
<1> QED BY <1>5, <1>6, <1>7, <1>8, <1>9

\* A step after which the editor and the news are as they were, the server has
\* nothing new to compare with, and no request is answered.
LEMMA KnownStays ==
    ASSUME Known, UNCHANGED <<disk, inbox, found, docs, buffer>>, db' \in {db, Empty},
           conn'.holds \in {conn.holds, Empty}
    PROVE  Known'
<1>1. \A f \in Files : (Unknown(f)' <=> Unknown(f)) /\ Now(f)' = Now(f)
  BY DEF Unknown, Pending, Now
<1>2. \A f \in Files : found /\ ~Unknown(f) => Told(f, Now(f))'
  <2> SUFFICES ASSUME NEW f \in Files, found, ~Unknown(f) PROVE Told(f, Now(f))'
    OBVIOUS
  <2>1. PICK t : t = Now(f)
    OBVIOUS
  <2>2. Told(f, t)
    BY <2>1 DEF Known
  <2>3. Told(f, t)'
    BY <2>2 DEF Told, Pending
  <2>4. Now(f)' = t
    BY <1>1, <2>1
  <2> QED BY <2>3, <2>4 DEF Told
<1> QED BY <1>1, <1>2, Markers DEF Known

\* When it handles a request the editor has changed nothing since, the server
\* finds the recorded text in the buffers it knows exactly where an edit would.
LEMMA MatchesNow ==
    ASSUME TypeInv, FixInv, job # None, IsAction(job), asked = "yes",
           Seen # Empty, NEW g \in FixFiles
    PROVE  Matches(Seen, g) <=> Now(g) = Seen[g]
<1> USE DEF FixInv, TypeInv
<1>1. Seen \in Recordings /\ Seen \in {db, conn.holds}
  BY SeenType DEF Seen
<1>2. found /\ inbox = <<>>
  BY DEF OneRequest, MenuFits
<1>3. g \in Files /\ ~Pending(g)
  BY <1>2, SessionAssumption DEF Pending
<1>4. CASE docs[g] = None
  BY <1>1, <1>2, <1>3, <1>4 DEF Known, Unknown, Now, Matches
<1>5. CASE docs[g] # None
  BY <1>2, <1>3, <1>5 DEF Known, Unknown, Told, Matches
<1> QED BY <1>4, <1>5

LEMMA FixServer ==
    ASSUME TypeInv, FixInv, Receive \/ Decline \/ RunPass \/ Publish \/ CodeAction
    PROVE  FixInv'
<1> USE DEF FixInv, TypeInv
<1>1. UNCHANGED <<disk, found, buffer>>
  BY DEF Receive, Decline, RunPass, Publish, CodeAction, Answered, editor, server
<1>2. NothingGarbled' /\ \A f : Now(f)' = Now(f)
  BY <1>1 DEF NothingGarbled, Now
<1>3. CASE Receive
  <2>1. /\ found /\ inbox # <<>> /\ inbox' = Tail(inbox) /\ job' = Head(inbox)
        /\ db' \in {db, Empty} /\ conn'.holds = Empty
        /\ UNCHANGED <<asked, menu>>
    BY <1>3 DEF Receive, Opens, editor
  <2>2. Known'
    <3>1. ASSUME NEW f \in Files, Unknown(f)'
          PROVE  /\ buffer[f] = None /\ disk[f] = First
                 /\ \A rec \in {db', conn'.holds} : rec \in Recordings => rec[f] = First
      <4>1. Unknown(f)
        BY <1>3, <3>1, UnknownReceive
      <4> QED BY <2>1, <4>1, Markers DEF Known
    <3>2. ASSUME NEW f \in Files, ~Unknown(f)' PROVE Told(f, Now(f))'
      <4>1. PICK t : t = Now(f)
        OBVIOUS
      <4>2. Told(f, t)
        BY <1>3, <2>1, <3>2, <4>1, UnknownReceive DEF Known
      <4>3. Told(f, t)'
        BY <1>3, <4>2, ToldReceive
      <4>4. Now(f)' = t
        BY <1>2, <4>1
      <4> QED BY <4>3, <4>4 DEF Told
    <3> QED BY <1>1, <3>1, <3>2 DEF Known
  <2>3. OneRequest'
    BY <2>1, RequestsShift DEF OneRequest
  <2>4. MenuFits'
    BY <1>1, <1>2, <2>1 DEF MenuFits
  <2> QED BY <1>2, <2>2, <2>3, <2>4
<1>4. CASE Decline
  <2>1. /\ ~found /\ inbox # <<>> /\ inbox' = Tail(inbox) /\ UNCHANGED job
        /\ \/ UNCHANGED <<asked, menu>>
           \/ IsAction(Head(inbox)) /\ asked' = "no" /\ menu' = None
    <3>1. Head(inbox) \in Message
      BY <1>4, Received DEF Decline
    <3>2. Head(inbox).kind = "text" \/ IsAction(Head(inbox))
      BY <3>1, MessageFields DEF IsAction
    <3> QED BY <1>4, <3>2 DEF Decline, Offered, NoAction, server
  <2>2. job = None /\ menu = None
    BY <2>1 DEF MenuFits
  <2>3. OneRequest'
    BY <2>1, <2>2, RequestsShift DEF OneRequest
  <2> QED BY <1>1, <1>2, <2>1, <2>2, <2>3 DEF Known, MenuFits
<1>5. CASE RunPass
  <2>1. UNCHANGED <<disk, db, inbox, found, docs, job, conn, buffer, asked, menu>>
    BY <1>5 DEF RunPass, editor
  <2>2. OneRequest' /\ MenuFits'
    BY <1>2, <2>1 DEF OneRequest, MenuFits
  <2> QED BY <1>2, <2>1, <2>2, KnownStays
<1>6. CASE Publish
  <2>1. /\ UNCHANGED <<disk, db, inbox, found, docs, buffer, asked, menu>>
        /\ job' = None /\ conn'.holds = Empty
    BY <1>6 DEF Publish, Answered, NoConn
  <2>2. OneRequest' /\ MenuFits'
    BY <1>2, <2>1 DEF OneRequest, MenuFits
  <2> QED BY <1>2, <2>1, <2>2, KnownStays
<1>7. CASE CodeAction
  <2>1. /\ UNCHANGED <<disk, db, inbox, found, docs, buffer>>
        /\ job # None /\ IsAction(job) /\ job' = None /\ conn'.holds = Empty
        /\ asked' = "no"
        /\ menu' = IF asked = "yes" /\ Offer(Seen).files # {} THEN Offer(Seen) ELSE None
    BY <1>7 DEF CodeAction, Offered, Answered, NoConn, IsAction
  <2>2. Known'
    BY <2>1, KnownStays
  <2>3. OneRequest'
    BY <2>1 DEF OneRequest
  <2>4. ASSUME menu' # None
        PROVE  menu'.files = FixFiles /\ \A g \in FixFiles : menu'.base[g] = Now(g)
    <3>1. asked = "yes" /\ Offer(Seen).files # {} /\ menu' = Offer(Seen)
      BY <2>1, <2>4
    <3>2. /\ Seen # Empty /\ \A g \in FixFiles : Matches(Seen, g)
          /\ menu' = [files |-> FixFiles, base |-> Seen]
      BY <3>1 DEF Offer, NoAction, HasFix
    <3>3. \A g \in FixFiles : Seen[g] = Now(g)
      BY <2>1, <3>1, <3>2, MatchesNow
    <3> QED BY <3>2, <3>3
  <2>5. MenuFits'
    <3>1. found
      BY <2>1 DEF MenuFits
    <3> QED BY <1>2, <2>1, <2>4, <3>1, SessionAssumption DEF MenuFits
  <2> QED BY <1>2, <2>2, <2>3, <2>5
<1> QED BY <1>3, <1>4, <1>5, <1>6, <1>7

\* What is applied from the menu fits, so that no text is garbled.
LEMMA EditorGarblesNothing ==
    ASSUME TypeInv, FixInv, EditorStep
    PROVE  NothingGarbled'
<1> USE DEF FixInv, TypeInv, NothingGarbled
<1>1. /\ \A f \in Files : disk[f] # Garbled /\ buffer[f] # Garbled
      /\ disk \in [Files -> Texts] /\ buffer \in [Files -> Texts \cup {None}]
      /\ None # Garbled /\ Garbled \notin Plain \cup {Fixed}
  BY SessionAssumption DEF TypeOK, Recordings, Texts
<1>2. ASSUME NEW f \in Files, OpenDoc(f) \/ Save(f) \/ Close(f) PROVE NothingGarbled'
  BY <1>1, <1>2 DEF OpenDoc, Save, Close, editor
<1>3. ASSUME NEW f \in Files, NEW t \in Plain, Change(f, t) PROVE NothingGarbled'
  BY <1>1, <1>3 DEF Change
<1>4. ASSUME NEW f \in Outside, NEW t \in Plain, Checkout(f, t) PROVE NothingGarbled'
  BY <1>1, <1>4 DEF Checkout, editor
<1>5. CASE Ask
  BY <1>1, <1>5 DEF Ask
<1>6. CASE Apply
  <2>1. /\ UNCHANGED disk
        /\ \A f \in Files : buffer'[f] =
              IF f \notin menu.files THEN buffer[f]
              ELSE IF Now(f) = menu.base[f] THEN Fixed ELSE Garbled
    BY <1>6, ApplyEffect DEF Apply
  <2>2. \A f \in menu.files : menu.base[f] = Now(f)
    BY <1>6 DEF Apply, MenuFits
  <2> QED BY <1>1, <2>1, <2>2 DEF Now
<1> QED BY <1>2, <1>3, <1>4, <1>5, <1>6 DEF EditorStep

\* The editor: the server is told of what it changes, and what it does not tell
\* of leaves what an edit would find as it is.
LEMMA FixEditor ==
    ASSUME Outside = {}, Discards = FALSE, TypeInv, FixInv, EditorStep
    PROVE  FixInv'
<1> USE DEF FixInv, TypeInv
<1>1. NothingGarbled'
  BY EditorGarblesNothing
<1>2. ASSUME NEW n, NEW fs, Tells(n, fs), UNCHANGED disk PROVE FixInv'
  <2>1. /\ n \in Nat /\ Len(inbox) \in Nat
        /\ DOMAIN inbox = 1..Len(inbox) /\ DOMAIN inbox' = 1..(Len(inbox) + n)
        /\ \A i \in 1..Len(inbox) : inbox'[i] = inbox[i]
        /\ \A i \in 1..n : inbox'[Len(inbox) + i] = Text(fs[i], buffer'[fs[i]])
        /\ asked' = (IF asked = "yes" THEN "void" ELSE asked) /\ menu' = None
        /\ UNCHANGED <<db, found, docs, job, conn>>
    BY <1>2, TellsEffect
  <2>2. /\ \A i \in 1..n : fs[i] \in Files /\ buffer'[fs[i]] \in Texts
        /\ \A f \in Files : (\A i \in 1..n : fs[i] # f) => buffer'[f] = buffer[f]
    BY <1>2 DEF Tells
  <2>3. Known'
    <3> SUFFICES ASSUME found, NEW f \in Files
                 PROVE  /\ Unknown(f)' =>
                              /\ buffer'[f] = None /\ disk'[f] = First
                              /\ \A rec \in {db', conn'.holds} :
                                    rec \in Recordings => rec[f] = First
                        /\ ~Unknown(f)' => Told(f, Now(f))'
      BY <2>1 DEF Known
    <3>1. PICK t : t = Now(f)'
      OBVIOUS
    <3>2. CASE \E i \in 1..n : fs[i] = f
      <4>1. ~Unknown(f)'
        BY <1>2, <3>2, PendingTells DEF Unknown
      <4>2. t = buffer'[f]
        BY <2>2, <3>1, <3>2, Markers DEF Now
      <4>3. Told(f, t)'
        BY <1>2, <3>2, <4>2, ToldTells
      <4> QED BY <3>1, <4>1, <4>3 DEF Told
    <3>3. CASE \A i \in 1..n : fs[i] # f
      <4>1. Unknown(f)' <=> Unknown(f)
        BY <1>2, <2>1, <3>3, PendingTells DEF Unknown
      <4>2. buffer'[f] = buffer[f] /\ t = Now(f)
        BY <1>2, <2>2, <3>1, <3>3 DEF Now
      <4>3. ASSUME ~Unknown(f) PROVE Told(f, t)'
        <5>1. Told(f, t)
          BY <4>2, <4>3 DEF Known
        <5> QED BY <1>2, <3>3, <5>1, ToldTells
      <4>4. Unknown(f) => /\ buffer'[f] = None /\ disk'[f] = First
                          /\ \A rec \in {db', conn'.holds} :
                                rec \in Recordings => rec[f] = First
        BY <1>2, <2>1, <4>2 DEF Known
      <4> QED BY <3>1, <4>1, <4>3, <4>4 DEF Told
    <3> QED BY <3>2, <3>3
  <2>4. OneRequest'
    <3>1. \A i \in DOMAIN inbox' : IsAction(inbox'[i]) =>
             i \in DOMAIN inbox /\ IsAction(inbox[i])
      <4> SUFFICES ASSUME NEW i \in DOMAIN inbox', IsAction(inbox'[i]), i \notin DOMAIN inbox
                   PROVE  FALSE
        BY <2>1
      <4>1. PICK k \in 1..n : i = Len(inbox) + k
        <5>1. i - Len(inbox) \in 1..n /\ i = Len(inbox) + (i - Len(inbox))
          BY <2>1
        <5> QED BY <5>1
      <4>2. Text(fs[k], buffer'[fs[k]]).kind = "text"
        BY <2>2, TextMessage
      <4>3. inbox'[i] = Text(fs[k], buffer'[fs[k]])
        BY <2>1, <4>1
      <4> QED BY <4>2, <4>3 DEF IsAction
    <3>2. \A i \in DOMAIN inbox : inbox'[i] = inbox[i]
      BY <2>1
    <3>3. asked' # "yes" /\ (asked' = "no" => asked = "no") /\ UNCHANGED job
      BY <2>1
    <3> QED BY <3>1, <3>2, <3>3 DEF OneRequest
  <2>5. MenuFits'
    BY <2>1 DEF MenuFits
  <2> QED BY <1>1, <2>3, <2>4, <2>5
<1>3. CASE \/ \E f \in Files : OpenDoc(f)
           \/ \E f \in Files, t \in Plain : Change(f, t)
           \/ Apply
  BY <1>2, <1>3, TellingSteps
<1>4. ASSUME NEW f \in Files, UNCHANGED <<db, inbox, found, docs, job, conn>>,
             \A g \in Files : Now(g)' = Now(g),
             (buffer'[f] = None /\ disk'[f] = disk[f]) \/ (buffer'[f] = buffer[f] /\ buffer[f] # None),
             \A g \in Files \ {f} : disk'[g] = disk[g] /\ buffer'[g] = buffer[g]
      PROVE  Known'
  <2> SUFFICES ASSUME found, NEW g \in Files
               PROVE  /\ Unknown(g)' =>
                            /\ buffer'[g] = None /\ disk'[g] = First
                            /\ \A rec \in {db', conn'.holds} :
                                  rec \in Recordings => rec[g] = First
                      /\ ~Unknown(g)' => Told(g, Now(g))'
    BY <1>4 DEF Known
  <2>1. Unknown(g)' <=> Unknown(g)
    BY <1>4 DEF Unknown, Pending
  <2>2. PICK t : t = Now(g)
    OBVIOUS
  <2>3. ~Unknown(g) => Told(g, t)'
    BY <1>4, <2>2 DEF Known, Told, Pending
  <2>4. Unknown(g) => buffer'[g] = None /\ disk'[g] = disk[g]
    BY <1>4 DEF Known
  <2>5. Now(g)' = t
    BY <1>4, <2>2
  <2> QED BY <1>4, <2>1, <2>3, <2>4, <2>5 DEF Known, Told
<1>5. ASSUME NEW f \in Files, Save(f) PROVE FixInv'
  <2>1. /\ UNCHANGED <<db, inbox, found, docs, job, conn, buffer, asked, menu>>
        /\ buffer[f] # None /\ \A g \in Files \ {f} : disk'[g] = disk[g]
    BY <1>5 DEF Save, server, editor, TypeOK, Recordings
  <2>2. \A g \in Files : Now(g)' = Now(g)
    BY <2>1 DEF Now
  <2>3. Known'
    BY <1>4, <2>1, <2>2
  <2>4. OneRequest' /\ MenuFits'
    BY <2>1, <2>2, SessionAssumption DEF OneRequest, MenuFits
  <2> QED BY <1>1, <2>3, <2>4
<1>6. ASSUME NEW f \in Files, Close(f) PROVE FixInv'
  <2>1. /\ UNCHANGED <<disk, db, inbox, found, docs, job, conn>>
        /\ asked' = (IF asked = "yes" THEN "void" ELSE asked) /\ menu' = None
        /\ buffer[f] = disk[f] /\ buffer[f] # None /\ buffer'[f] = None
        /\ \A g \in Files \ {f} : buffer'[g] = buffer[g]
    BY <1>6 DEF Close, Dismissed, server, TypeOK
  <2>2. \A g \in Files : Now(g)' = Now(g)
    BY <2>1 DEF Now
  <2>3. Known'
    BY <1>4, <2>1, <2>2
  <2>4. OneRequest' /\ MenuFits'
    BY <2>1 DEF OneRequest, MenuFits
  <2> QED BY <1>1, <2>3, <2>4
<1>7. CASE Ask
  <2>1. /\ UNCHANGED <<disk, db, found, docs, job, conn, buffer, menu>>
        /\ asked = "no" /\ menu = None /\ asked' = "yes"
    BY <1>7 DEF Ask, server
  <2>2. /\ DOMAIN inbox' = 1..(Len(inbox) + 1) /\ Len(inbox) \in Nat
        /\ DOMAIN inbox = 1..Len(inbox) /\ Len(inbox') = Len(inbox) + 1
        /\ \A i \in 1..Len(inbox) : inbox'[i] = inbox[i]
        /\ \A f : Pending(f)' <=> Pending(f)
        /\ \A f, t : Told(f, t) => Told(f, t)'
    BY <1>7, ToldAsk
  <2>3. Known'
    <3> SUFFICES ASSUME found, NEW g \in Files
                 PROVE  /\ Unknown(g)' =>
                              /\ buffer'[g] = None /\ disk'[g] = First
                              /\ \A rec \in {db', conn'.holds} :
                                    rec \in Recordings => rec[g] = First
                        /\ ~Unknown(g)' => Told(g, Now(g))'
      BY <2>1 DEF Known
    <3>1. Unknown(g)' <=> Unknown(g)
      BY <2>1, <2>2 DEF Unknown
    <3>2. PICK t : t = Now(g)
      OBVIOUS
    <3>3. ~Unknown(g) => Told(g, t)'
      BY <2>2, <3>2 DEF Known
    <3>4. Now(g)' = t
      BY <2>1, <3>2 DEF Now
    <3> QED BY <2>1, <3>1, <3>3, <3>4 DEF Known, Told
  <2>4. OneRequest'
    <3>1. \A i \in DOMAIN inbox : ~IsAction(inbox'[i])
      BY <2>1, <2>2 DEF OneRequest
    <3>2. \A i \in DOMAIN inbox' : IsAction(inbox'[i]) => i = Len(inbox')
      BY <2>2, <3>1
    <3> QED BY <2>1, <3>2 DEF OneRequest
  <2>5. MenuFits'
    BY <2>1 DEF MenuFits
  <2> QED BY <1>1, <2>3, <2>4, <2>5
<1> QED BY <1>3, <1>5, <1>6, <1>7 DEF EditorStep

LEMMA FixInvariant ==
    ASSUME Outside = {}, Discards = FALSE
    PROVE  Spec => [](TypeInv /\ FixInv)
<1>1. TypeInv /\ FixInv /\ [Next]_vars => FixInv'
  <2> SUFFICES ASSUME TypeInv, FixInv, [Next]_vars PROVE FixInv'
    OBVIOUS
  <2>1. CASE UNCHANGED vars
    <3>1. UNCHANGED <<disk, db, inbox, found, docs, job, conn, buffer, asked, menu>>
      BY <2>1 DEF vars, server, editor
    <3>2. OneRequest' /\ MenuFits' /\ NothingGarbled'
      BY <3>1 DEF FixInv, OneRequest, MenuFits, NothingGarbled, Now
    <3> QED BY <3>1, <3>2, KnownStays DEF FixInv
  <2>2. CASE Next
    BY <2>2, FixRecorder, FixServer, FixEditor DEF Next, EditorStep
  <2> QED BY <2>1, <2>2
<1> QED BY <1>1, FixInit, TypeInvariant, PTL DEF Spec

\* An edit is never applied to a text it was not planned for, as long as all
\* changes of the files pass through the editor: then what the server compares
\* with the recording (server.rs:166-187) is what the edit will be applied to,
\* and the answer it sends is the last the editor waits for.
THEOREM FixesFit ==
    ASSUME Outside = {}, Discards = FALSE
    PROVE  Spec => []NothingGarbled
<1>1. FixInv => NothingGarbled
  BY DEF FixInv
<1> QED BY <1>1, FixInvariant, PTL

\* A request is answered by the whole fix exactly when it fits, under the same
\* assumptions: what the server has been told of open, closed and unknown files
\* (server.rs:133-156) is what the editor has when it waits for the answer.
THEOREM OffersAreExact ==
    ASSUME Outside = {}, Discards = FALSE
    PROVE  Spec => OffersExact
<1> DEFINE fits == HasFix(Seen) /\ \A g \in FixFiles : Now(g) = Seen[g]
           whole == [files |-> FixFiles, base |-> Seen]
           A == job # None /\ job.kind = "action" /\ job' = None /\ asked = "yes" =>
                   menu' = IF fits THEN whole ELSE None
<1>1. ASSUME TypeInv, FixInv, [Next]_vars PROVE [A]_vars
  <2> SUFFICES ASSUME job # None, job.kind = "action", job' = None, asked = "yes"
               PROVE  menu' = IF fits THEN whole ELSE None
    OBVIOUS
  <2>1. CodeAction
    BY <1>1 DEF Next, vars, server, editor, counts, RemoveDb, CreateDb, CommitDb, Replaced, Receive, Decline,
           RunPass, Publish, OpenDoc, Save, Close, Change, Checkout, Ask, Apply, Tell
  <2>2. menu' = IF Offer(Seen).files # {} THEN Offer(Seen) ELSE None
    BY <2>1 DEF CodeAction, Offered
  <2>3. fits <=> HasFix(Seen) /\ \A g \in FixFiles : Matches(Seen, g)
    BY <1>1, MatchesNow DEF HasFix, IsAction
  <2>4. FixFiles # {}
    BY SessionAssumption
  <2> QED BY <2>2, <2>3, <2>4 DEF Offer, NoAction
<1>2. [][A]_vars => OffersExact
  BY DEF OffersExact
<1> QED BY <1>1, <1>2, FixInvariant, PTL DEF Spec

=============================================================================
