---------------------------- MODULE FixLoopProofs -----------------------------
(***************************************************************************)
(* That a fix promotes only a recording of the same graph, that it keeps   *)
(* its invariant, and that without edits during it and with no failing     *)
(* write it is one step or none.                                           *)
(***************************************************************************)
EXTENDS FixLoop, TLAPS

\* Two build graphs have no problems exactly when targets and resolved
\* requirements agree: diff.rs compares the requirements of common targets only,
\* but then the targets are all common.
LEMMA NoProblemsIsIso ==
    ASSUME NEW a \in BuildGraph, NEW b \in BuildGraph
    PROVE  NoProblems(a, b) <=> Isomorphic(a, b)
<1>1. PICK ta \in SUBSET Target : a \in GraphOfTargets(ta)
    BY DEF BuildGraph
<1>2. PICK tb \in SUBSET Target : b \in GraphOfTargets(tb)
    BY DEF BuildGraph
<1>3. a.targets = ta /\ a.reqs \in [ta -> SUBSET Req]
    BY <1>1 DEF GraphOfTargets
<1>4. b.targets = tb /\ b.reqs \in [tb -> SUBSET Req]
    BY <1>2 DEF GraphOfTargets
<1>5. ASSUME NoProblems(a, b) PROVE Isomorphic(a, b)
    <2>1. ta = tb
        BY <1>3, <1>4, <1>5 DEF NoProblems, Problems
    <2>2. ASSUME NEW t \in ta PROVE a.reqs[t] = b.reqs[t]
        <3>1. a.reqs[t] \subseteq Req /\ b.reqs[t] \subseteq Req
            BY <1>3, <1>4, <2>1
        <3>2. ASSUME NEW r \in a.reqs[t], r \notin b.reqs[t] PROVE FALSE
            <4>1. <<t, r>> \in Missing(a, b)
                BY <3>1, <3>2, <1>3, <1>4, <2>1 DEF Missing
            <4>. QED BY <4>1, <1>5 DEF NoProblems, Problems
        <3>3. ASSUME NEW r \in b.reqs[t], r \notin a.reqs[t] PROVE FALSE
            <4>1. <<t, r>> \in Missing(b, a)
                BY <3>1, <3>3, <1>3, <1>4, <2>1 DEF Missing
            <4>. QED BY <4>1, <1>5 DEF NoProblems, Problems
        <3>. QED BY <3>1, <3>2, <3>3
    <2>3. a.reqs = b.reqs
        BY <2>1, <2>2, <1>3, <1>4
    <2>. QED BY <2>1, <2>3, <1>3, <1>4 DEF Isomorphic
<1>6. ASSUME Isomorphic(a, b) PROVE NoProblems(a, b)
    BY <1>6 DEF Isomorphic, NoProblems, Problems, Missing
<1>. QED BY <1>5, <1>6

\* The report of `cmakedb diff` is empty exactly when the recordings agree.
THEOREM DiffIsFaithful ==
    ASSUME NEW a \in BuildGraph, NEW b \in BuildGraph
    PROVE  IsEmpty(Diff(a, b)) <=> a = b
<1>1. PICK ta \in SUBSET Target : a \in GraphOfTargets(ta)
    BY DEF BuildGraph
<1>2. PICK tb \in SUBSET Target : b \in GraphOfTargets(tb)
    BY DEF BuildGraph
<1>3. /\ a = [targets |-> a.targets, edges |-> a.edges, reqs |-> a.reqs]
      /\ a.targets = ta /\ a.reqs \in [ta -> SUBSET Req]
    BY <1>1 DEF GraphOfTargets
<1>4. /\ b = [targets |-> b.targets, edges |-> b.edges, reqs |-> b.reqs]
      /\ b.targets = tb /\ b.reqs \in [tb -> SUBSET Req]
    BY <1>2 DEF GraphOfTargets
<1>5. ASSUME IsEmpty(Diff(a, b)) PROVE a = b
    <2>1. a.targets = b.targets /\ a.edges = b.edges
        BY <1>5 DEF IsEmpty, Diff
    <2>2. Changed(a, b) = {}
        BY <1>5 DEF IsEmpty, Diff
    <2>3. \A t \in ta : a.reqs[t] = b.reqs[t]
        BY <2>1, <2>2, <1>3, <1>4, SMTT(30) DEF Changed
    <2>4. a.reqs = b.reqs
        BY <2>1, <2>3, <1>3, <1>4
    <2>. QED BY <2>1, <2>4, <1>3, <1>4
<1>6. ASSUME a = b PROVE IsEmpty(Diff(a, b))
    <2>1. Changed(a, b) = {}
        BY <1>6 DEF Changed
    <2>. QED BY <1>6, <2>1 DEF IsEmpty, Diff
<1>. QED BY <1>5, <1>6


-----------------------------------------------------------------------------
\* Before the first fix every file is as it was recorded.
LEMMA InitInv == Init => FixInv
<1>. SUFFICES ASSUME Init PROVE FixInv
    OBVIOUS
<1>1. disk \in Tree
    <2>1. [edits |-> 0, fixed |-> FALSE] \in Text
        BY FixAssumption DEF Text
    <2>. QED BY <2>1 DEF Init, Tree
<1>2. TypeOK
    BY <1>1 DEF Init, TypeOK, Recording, Recorded
<1>3. HasRead
    BY DEF Init, HasRead, Over, Written
<1>4. OnTrack
    BY DEF Init, OnTrack, Written
<1>. QED BY <1>2, <1>3, <1>4 DEF FixInv

\* The recorded text of a planned file is a text, and so is its rewriting.
LEMMA PlannedText ==
    ASSUME TypeOK, NEW f \in Planned
    PROVE  /\ db.text[f] \in Text
           /\ [db.text[f] EXCEPT !.fixed = TRUE] \in Text
<1>1. db.text[f] \in Text
    BY DEF TypeOK, Planned, Recording, Tree
<1>2. ASSUME NEW t \in Text PROVE [t EXCEPT !.fixed = TRUE] \in Text
    BY DEF Text
<1>. QED BY <1>1, <1>2

\* What a user saves is a text.
LEMMA EditedText ==
    ASSUME NEW t \in Text, t.edits < MaxEdits, NEW b \in {t.fixed, FALSE}
    PROVE  [edits |-> t.edits + 1, fixed |-> b] \in Text
<1>1. MaxEdits \in Nat
    BY FixAssumption
<1>2. t.edits + 1 \in 0..MaxEdits
    BY <1>1 DEF Text
<1>3. b \in BOOLEAN
    BY DEF Text
<1>. QED BY <1>2, <1>3 DEF Text

\* So is what a user restores.
LEMMA RewrittenText == [edits |-> MaxEdits, fixed |-> FALSE] \in Text
<1>1. MaxEdits \in Nat
    BY FixAssumption
<1>2. MaxEdits \in 0..MaxEdits
    BY <1>1
<1>. QED BY <1>2 DEF Text

\* Every step of a fix, an edit or a recording keeps the types.
LEMMA TypeStep ==
    ASSUME TypeOK, HasRead, [Next]_vars
    PROVE  TypeOK'
<1>. USE DEF TypeOK
<1>1. ASSUME NEW f \in Planned, pc \in {"writing", "rolling back"}
      PROVE  originals[f] \in Text /\ Updated(f) \in Text
    <2>1. originals[f] = db.text[f]
        BY <1>1 DEF HasRead, Planned
    <2>. QED BY <2>1, PlannedText DEF Updated
<1>2. CASE UNCHANGED vars
    BY <1>2 DEF vars
<1>3. CASE Begin \/ StartWriting \/ ConfigureFails \/ Accept \/ Reject \/ OpenFails
           \/ PromoteFails \/ Revert \/ IngestFails
    BY <1>3 DEF Begin, StartWriting, ConfigureFails, Accept, Reject, OpenFails,
        PromoteFails, Revert, IngestFails, Planned
<1>4. CASE Configure
    BY <1>4 DEF Configure
<1>5. CASE Ingest
    BY <1>5 DEF Ingest, Recording, HasRead
<1>6. CASE Promote
    BY <1>6 DEF Promote, HasRead
<1>7. CASE Crash
    BY <1>7 DEF Crash, Tree
<1>8. CASE Record
    BY <1>8 DEF Record, Recording, Recorded
<1>9. ASSUME NEW f \in Files,
             Read(f) \/ Refuse(f) \/ Write(f) \/ WriteFails(f)
               \/ RollBack(f) \/ RollBackFails(f) \/ Edit(f)
      PROVE  TypeOK'
    <2>1. CASE Read(f)
        BY <2>1 DEF Read, Tree
    <2>2. CASE Refuse(f)
        BY <2>2 DEF Refuse
    <2>3. CASE Write(f)
        BY <2>3, <1>1 DEF Write, Tree, HasRead, Over
    <2>4. CASE WriteFails(f)
        BY <2>4 DEF WriteFails, Tree
    <2>5. CASE RollBack(f)
        BY <2>5, <1>1 DEF RollBack, Tree, HasRead, Over
    <2>6. CASE RollBackFails(f)
        BY <2>6 DEF RollBackFails, Tree
    <2>7. CASE Edit(f)
        <3>1. PICK text \in IF disk[f] = Torn THEN {[edits |-> MaxEdits, fixed |-> FALSE]}
                            ELSE {[edits |-> disk[f].edits + 1, fixed |-> b] :
                                     b \in {disk[f].fixed, FALSE}} :
                 disk' = [disk EXCEPT ![f] = text]
            BY <2>7 DEF Edit
        <3>2. text \in Text
            <4>1. CASE disk[f] = Torn
                <5>1. text = [edits |-> MaxEdits, fixed |-> FALSE]
                    BY <3>1, <4>1
                <5>. QED BY <5>1, RewrittenText
            <4>2. CASE disk[f] # Torn
                <5>1. disk[f] \in Text /\ disk[f].edits < MaxEdits
                    BY <4>2, <2>7 DEF Edit, Tree
                <5>2. PICK b \in {disk[f].fixed, FALSE} :
                          text = [edits |-> disk[f].edits + 1, fixed |-> b]
                    BY <3>1, <4>2
                <5>. QED BY <5>1, <5>2, EditedText
            <4>. QED BY <4>1, <4>2
        <3>. QED BY <2>7, <3>1, <3>2 DEF Edit, Tree
    <2>. QED BY <1>9, <2>1, <2>2, <2>3, <2>4, <2>5, <2>6, <2>7
<1>. QED BY <1>2, <1>3, <1>4, <1>5, <1>6, <1>7, <1>8, <1>9 DEF Next

\* What a fix has read stays what it read, until the fix ends.
LEMMA ReadStep ==
    ASSUME TypeOK, HasRead, [Next]_vars
    PROVE  HasRead'
<1>. USE DEF HasRead, Over, Written
<1>2. CASE UNCHANGED vars
    BY <1>2 DEF vars, Planned
<1>6. CASE Configure
    <2>1. Graph(disk) # None
        BY FixAssumption DEF TypeOK
    <2>. QED BY <1>6, <2>1 DEF Configure, Planned
<1>3. CASE Begin \/ StartWriting \/ ConfigureFails \/ Reject \/ OpenFails
           \/ PromoteFails \/ Revert \/ IngestFails \/ Crash \/ Promote \/ Record
    BY <1>3 DEF Begin, StartWriting, ConfigureFails, Reject, OpenFails,
        PromoteFails, Revert, IngestFails, Crash, Promote, Record, Planned
<1>4. CASE Ingest
    <2>1. PICK t \in Tree : ran = Graph(t)
        BY <1>4 DEF Ingest, TypeOK
    <2>2. vdb' = [text |-> disk, graph |-> Graph(t)] /\ disk \in Tree
        BY <1>4, <2>1 DEF Ingest, TypeOK
    <2>3. vdb' # None
        BY <2>2, FixAssumption
    <2>. QED BY <1>4, <2>3 DEF Ingest, Planned
<1>5. CASE Accept
    BY <1>5 DEF Accept, Planned
<1>9. ASSUME NEW f \in Files,
             Read(f) \/ Refuse(f) \/ Write(f) \/ WriteFails(f)
               \/ RollBack(f) \/ RollBackFails(f) \/ Edit(f)
      PROVE  HasRead'
    <2>1. CASE Read(f)
        BY <2>1 DEF Read, Planned, TypeOK
    <2>2. CASE Refuse(f) \/ WriteFails(f) \/ RollBackFails(f) \/ Edit(f)
        BY <2>2 DEF Refuse, WriteFails, RollBackFails, Edit, Planned
    <2>3. CASE Write(f) \/ RollBack(f)
        BY <2>3 DEF Write, RollBack, Planned
    <2>. QED BY <1>9, <2>1, <2>2, <2>3
<1>. QED BY <1>2, <1>3, <1>4, <1>5, <1>6, <1>9 DEF Next

\* With no edit during it, each step of a fix moves the files as OnTrack says.
LEMMA TrackStep ==
    ASSUME FixInv, ~EditsDuring, [Next]_vars
    PROVE  OnTrack'
<1>. USE DEF OnTrack, Over, Written
<1>1. OnTrack /\ HasRead /\ TypeOK
    BY DEF FixInv
<1>2. CASE UNCHANGED vars
    BY <1>1, <1>2 DEF vars, Planned, Updated
<1>10. CASE Begin
    BY <1>10 DEF Begin, Planned
<1>3. CASE OpenFails \/ PromoteFails \/ Revert \/ Crash \/ Record
    BY <1>1, <1>3 DEF OpenFails, PromoteFails, Revert, Crash, Record
<1>4. CASE Configure \/ Accept
    BY <1>1, <1>4 DEF Configure, Accept, Planned, Updated
<1>5. CASE Ingest
    BY <1>1, <1>5 DEF Ingest, Planned, Updated, Recorded
<1>6. CASE ConfigureFails \/ IngestFails \/ Reject
    BY <1>1, <1>6 DEF ConfigureFails, IngestFails, Reject, Planned, Updated
<1>7. CASE Promote
    BY <1>1, <1>7 DEF Promote
<1>8. CASE StartWriting
    BY <1>1, <1>8 DEF StartWriting, Planned, HasRead
<1>9. ASSUME NEW f \in Files,
             Read(f) \/ Refuse(f) \/ Write(f) \/ WriteFails(f)
               \/ RollBack(f) \/ RollBackFails(f) \/ Edit(f)
      PROVE  OnTrack'
    <2>1. CASE Read(f)
        BY <1>1, <2>1 DEF Read, Planned
    <2>2. CASE Refuse(f) \/ WriteFails(f) \/ RollBackFails(f)
        BY <1>1, <2>2 DEF Refuse, WriteFails, RollBackFails
    <2>3. CASE Write(f)
        BY <1>1, <2>3 DEF Write, Planned, Updated, TypeOK, Tree
    <2>4. CASE RollBack(f)
        BY <1>1, <2>4 DEF RollBack, Planned, Updated, TypeOK, Tree, HasRead
    <2>5. CASE Edit(f)
        BY <1>1, <2>5 DEF Edit
    <2>. QED BY <1>9, <2>1, <2>2, <2>3, <2>4, <2>5
<1>. QED BY <1>2, <1>3, <1>4, <1>5, <1>6, <1>7, <1>8, <1>9, <1>10 DEF Next

\* A fix knows what it works on: the texts it read are the recorded ones and,
\* while nobody edits during it, every file is where the fix has put it.
THEOREM FixSafe == Spec => []FixInv
<1>1. ASSUME FixInv, [Next]_vars PROVE FixInv'
    <2>1. TypeOK' /\ HasRead'
        BY <1>1, TypeStep, ReadStep DEF FixInv
    <2>2. ~EditsDuring => OnTrack'
        BY <1>1, TrackStep
    <2>. QED BY <2>1, <2>2 DEF FixInv
<1>. QED BY <1>1, InitInv, PTL DEF Spec

\* Whoever edits and whatever fails, a recording is replaced only by one with the
\* same targets and the same resolved requirements.
THEOREM FixPromotesSameGraph == Spec => PromotesSameGraph
<1>1. ASSUME FixInv, [Next]_vars, pc' = "verified", pc # "verified"
      PROVE  Isomorphic(db.graph, db'.graph)
    <2>1. Promote
        BY <1>1 DEF Next, vars, Begin, StartWriting, Configure, ConfigureFails, Ingest,
            IngestFails, Accept, Reject, OpenFails, PromoteFails, Revert, Crash, Record,
            Read, Refuse, Write, WriteFails, RollBack, RollBackFails, Edit
    <2>2. db' = vdb /\ vdb # None /\ NoProblems(db.graph, vdb.graph)
        BY <1>1, <2>1 DEF Promote, FixInv, HasRead
    <2>3. db.graph \in BuildGraph /\ vdb.graph \in BuildGraph
        <3>1. \A t \in Tree : Graph(t) \in BuildGraph
            BY FixAssumption
        <3>2. \A r \in Recording : r.graph \in BuildGraph
            BY <3>1 DEF Recording
        <3>. QED BY <1>1, <2>2, <3>2 DEF FixInv, TypeOK
    <2>. QED BY <2>2, <2>3, NoProblemsIsIso
<1>2. FixInv /\ [Next]_vars =>
        [pc' = "verified" /\ pc # "verified" => Isomorphic(db.graph, db'.graph)]_vars
    BY <1>1
<1>. QED BY <1>2, FixSafe, PTL DEF Spec, PromotesSameGraph

\* An edit is never undone by a fix nobody edits behind: what is written and
\* what is written back has the edits of the text it replaces, because that is
\* the text whose hash was compared (patch lib.rs:11-13).
THEOREM FixKeepsEdits == ASSUME ~EditsDuring PROVE Spec => NeverOverwritesAnEdit
<1> DEFINE Kept == \A f \in Files : disk[f] # Torn /\ disk'[f] # Torn =>
                                       disk'[f].edits >= disk[f].edits
<1>1. ASSUME FixInv, [Next]_vars PROVE [Kept]_vars
    <2>1. OnTrack /\ HasRead /\ TypeOK /\ disk \in Tree
        BY <1>1 DEF FixInv, TypeOK
    <2>2. \A f \in Files : disk[f] # Torn => disk[f] \in Text /\ disk[f].edits \in Nat
        BY <2>1, FixAssumption DEF Tree, Text
    <2>3. CASE disk' = disk
        BY <2>2, <2>3
    <2>4. ASSUME NEW f \in Files, disk' = [disk EXCEPT ![f] = Torn] PROVE Kept
        BY <2>1, <2>2, <2>4 DEF Tree
    <2>5. ASSUME NEW f \in Files, NEW t, disk' = [disk EXCEPT ![f] = t],
                 disk[f] # Torn => t.edits = disk[f].edits \/ t.edits = disk[f].edits + 1
          PROVE  Kept
        <3>1. SUFFICES ASSUME NEW g \in Files, disk[g] # Torn, disk'[g] # Torn
                       PROVE  disk'[g].edits >= disk[g].edits
            OBVIOUS
        <3>2. disk[g].edits \in Nat
            BY <2>2, <3>1
        <3>3. CASE g = f
            BY <2>1, <2>5, <3>1, <3>2, <3>3 DEF Tree
        <3>4. CASE g # f
            BY <2>1, <2>5, <3>2, <3>4 DEF Tree
        <3>. QED BY <3>3, <3>4
    <2>6. ASSUME NEW f \in Planned
          PROVE  [db.text[f] EXCEPT !.fixed = TRUE].edits = db.text[f].edits
        BY <2>1, PlannedText DEF Text
    <2>7. ASSUME NEW f \in Files, Write(f) PROVE Kept
        <3>1. f \in Planned /\ pc = "writing" /\ f \in left
            BY <2>1, <2>7 DEF Write, HasRead, Over
        <3>2. disk[f] = db.text[f] /\ originals[f] = db.text[f]
            BY <2>1, <3>1 DEF OnTrack, HasRead, Planned
        <3>3. Updated(f).edits = disk[f].edits
            BY <2>6, <3>1, <3>2 DEF Updated
        <3>. QED BY <2>5, <2>7, <3>3 DEF Write
    <2>8. ASSUME NEW f \in Files, RollBack(f) PROVE Kept
        <3>1. f \in Planned /\ pc = "rolling back" /\ f \in left
            BY <2>1, <2>8 DEF RollBack, HasRead, Over
        <3>2. disk[f] = Updated(f) /\ originals[f] = db.text[f]
            BY <2>1, <3>1 DEF OnTrack, HasRead, Planned
        <3>3. originals[f].edits = disk[f].edits
            BY <2>6, <3>1, <3>2 DEF Updated
        <3>. QED BY <2>5, <2>8, <3>3 DEF RollBack
    <2>9. ASSUME NEW f \in Files, Edit(f) PROVE Kept
        <3>1. PICK t \in IF disk[f] = Torn THEN {[edits |-> MaxEdits, fixed |-> FALSE]}
                         ELSE {[edits |-> disk[f].edits + 1, fixed |-> b] :
                                  b \in {disk[f].fixed, FALSE}} :
                 disk' = [disk EXCEPT ![f] = t]
            BY <2>9 DEF Edit
        <3>2. disk[f] # Torn => t.edits = disk[f].edits + 1
            BY <3>1
        <3>. QED BY <2>5, <3>1, <3>2
    <2>10. CASE disk' # disk /\ Next
        <3>1. \/ \E f \in Files : \/ Write(f) \/ RollBack(f) \/ Edit(f)
                                 \/ WriteFails(f) \/ RollBackFails(f)
              \/ Crash
            BY <2>10 DEF Next, Begin, StartWriting, Configure, ConfigureFails, Ingest,
                IngestFails, Accept, Reject, OpenFails, Promote, PromoteFails, Revert,
                Record, Read, Refuse
        <3>2. \A f \in Files : WriteFails(f) \/ RollBackFails(f) =>
                  disk' = [disk EXCEPT ![f] = Torn]
            BY <2>10 DEF WriteFails, RollBackFails
        <3>3. Crash => \E f \in left : f \in Files /\ disk' = [disk EXCEPT ![f] = Torn]
            BY <2>1, <2>10 DEF Crash, TypeOK
        <3>. QED BY <2>4, <2>7, <2>8, <2>9, <3>1, <3>2, <3>3
    <2>11. UNCHANGED vars => disk' = disk
        BY DEF vars
    <2> HIDE DEF Kept
    <2>. QED BY <1>1, <2>3, <2>10, <2>11
<1>2. FixInv /\ [Next]_vars => [Kept]_vars
    BY <1>1
<1>. QED BY <1>2, FixSafe, PTL DEF Spec, NeverOverwritesAnEdit

-----------------------------------------------------------------------------
(* FixLoop implements VerifiedFix.                                         *)

\* The files the fix works on are the ones the abstract fix works on.
LEMMA AskedIsPlanned == Promise!Asked = Planned
BY DEF Promise!Asked, Planned

\* What the user is shown of a file the fix has read is its recorded text.
LEMMA ReadIsShown ==
    ASSUME FixInv, pc \in {"writing", "rolling back"} \/ Written
    PROVE  Shown = [f \in Files |-> IF f \in Planned THEN db.text[f] ELSE disk[f]]
<1>1. \A f \in Files : originals[f] = IF f \in Planned THEN db.text[f] ELSE None
    BY DEF FixInv, HasRead
<1>2. \A f \in Planned : db.text[f] # None
    BY PlannedText, FixAssumption DEF FixInv
<1>. QED BY <1>1, <1>2 DEF Shown, Over, Written

\* When the fix has ended the user sees the files as they are.
LEMMA EndIsShown == ASSUME TypeOK, Over PROVE Shown = disk
BY DEF Shown, TypeOK, Tree

\* The fix starts where its abstract specification starts.
LEMMA PromiseInit == Init => Promise!FInit
<1>. SUFFICES ASSUME Init PROVE Promise!FInit
    OBVIOUS
<1>1. Shown = disk
    BY DEF Init, Shown, Over
<1>. QED BY <1>1 DEF Init, Promise!FInit, Recorded, BrokeOff

\* Steps of a fix but the last change nothing that is shown.
LEMMA QuietSteps ==
    ASSUME FixInv, ~EditsDuring,
           \/ Begin \/ StartWriting \/ Configure \/ ConfigureFails \/ Ingest
           \/ IngestFails \/ Accept \/ Reject \/ Revert
           \/ \E f \in Files : Read(f) \/ Refuse(f) \/ Write(f) \/ RollBack(f)
    PROVE  Shown' = Shown /\ db' = db
<1>. USE DEF Shown, Over
<1>1. HasRead /\ OnTrack /\ TypeOK
    BY DEF FixInv
<1>2. CASE Begin
    BY <1>2 DEF Begin
<1>3. CASE StartWriting \/ Configure \/ ConfigureFails \/ Ingest \/ IngestFails \/ Accept
           \/ Reject
    BY <1>3 DEF StartWriting, Configure, ConfigureFails, Ingest, IngestFails, Accept, Reject
<1>4. CASE Revert
    <2>1. \A f \in Files : originals[f] # None => originals[f] = disk[f]
        BY <1>1, <1>4 DEF Revert, HasRead, OnTrack
    <2>. QED BY <1>4, <2>1 DEF Revert
<1>5. ASSUME NEW f \in Files, Read(f) PROVE Shown' = Shown /\ db' = db
    <2>1. originals[f] = None
        BY <1>1, <1>5 DEF Read, HasRead
    <2>. QED BY <1>1, <1>5, <2>1 DEF Read, TypeOK
<1>6. ASSUME NEW f \in Files, Refuse(f) PROVE Shown' = Shown /\ db' = db
    <2>1. \A g \in Files : originals[g] # None => originals[g] = disk[g]
        BY <1>1, <1>6 DEF Refuse, HasRead, OnTrack
    <2>. QED BY <1>6, <2>1 DEF Refuse
<1>7. ASSUME NEW f \in Files, Write(f) \/ RollBack(f) PROVE Shown' = Shown /\ db' = db
    <2>1. f \in Planned /\ originals[f] = db.text[f] /\ db.text[f] \in Text
        BY <1>1, <1>7, PlannedText DEF Write, RollBack, HasRead
    <2>2. originals[f] # None
        BY <2>1, FixAssumption
    <2>3. \A g \in Files : g # f => disk'[g] = disk[g]
        BY <1>1, <1>7 DEF Write, RollBack, TypeOK, Tree
    <2>. QED BY <1>7, <2>2, <2>3 DEF Write, RollBack
<1>. QED BY <1>2, <1>3, <1>4, <1>5, <1>6, <1>7

\* Nor do they break off: what they say of it is what was said before, or no.
LEMMA QuietStepsGoOn ==
    ASSUME \/ Begin \/ StartWriting \/ Configure \/ ConfigureFails \/ Ingest
           \/ IngestFails \/ Accept \/ Reject \/ Revert
           \/ \E f \in Files : Read(f) \/ Refuse(f) \/ Write(f) \/ RollBack(f)
    PROVE  BrokeOff' = BrokeOff \/ BrokeOff' = FALSE
<1>1. pc' = pc \/ pc' \notin {"error", "dead"}
    BY DEF Begin, StartWriting, Configure, ConfigureFails, Ingest, IngestFails,
       Accept, Reject, Revert, Read, Refuse, Write, RollBack
<1>. QED BY <1>1 DEF BrokeOff

\* A fix that ends without having compared, reverted or promoted has broken off.
LEMMA BreakStep ==
    ASSUME FixInv, ~EditsDuring, TypeOK', ~Over, Over', BrokeOff', Faults \cap Unrolled # {},
           db' = db,
           \/ disk' = disk
           \/ /\ pc \in {"writing", "rolling back"}
              /\ \E f \in left : disk' = [disk EXCEPT ![f] = Torn]
    PROVE  Promise!Break
<1>1. HasRead /\ OnTrack /\ TypeOK
    BY DEF FixInv
<1>2. Shown' = disk'
    BY DEF Shown, TypeOK, Tree
<1>3. CASE pc = "reading"
    <2>1. \A f \in Files : originals[f] # None => originals[f] = disk[f]
        BY <1>1, <1>3 DEF HasRead, OnTrack
    <2>2. Shown = disk
        BY <1>1, <2>1 DEF Shown, TypeOK, Tree
    <2>3. disk' = disk
        BY <1>3
    <2>. QED BY <1>2, <2>2, <2>3 DEF Promise!Break
<1>4. CASE pc # "reading"
    <2>1. pc \in {"writing", "rolling back"} \/ Written
        BY <1>1, <1>4 DEF TypeOK, Over, Written
    <2>2. Shown = [f \in Files |-> IF f \in Planned THEN db.text[f] ELSE disk[f]]
        BY <2>1, ReadIsShown
    <2>. DEFINE fs == {f \in Planned : disk[f] # db.text[f]}
    <2>3. \A f \in Planned : originals[f] = db.text[f]
        BY <1>1, <2>1 DEF HasRead, Planned
    <2>4. \A f \in fs : disk[f] = [db.text[f] EXCEPT !.fixed = TRUE]
        BY <1>1, <2>1, <2>3 DEF OnTrack, Updated, Written
    <2>5. Promise!Fixed(Shown, fs) = disk
        <3>1. \A f \in Files : Promise!Fixed(Shown, fs)[f] = disk[f]
            BY <2>2, <2>4 DEF Promise!Fixed, Planned
        <3>. QED BY <1>1, <3>1 DEF Promise!Fixed, TypeOK, Tree
    <2>6. left \subseteq Planned
        BY <1>1 DEF HasRead
    <2>7. \/ disk' = Promise!Fixed(Shown, fs)
          \/ \E f \in Planned : disk' = [Promise!Fixed(Shown, fs) EXCEPT ![f] = Torn]
        BY <2>5, <2>6
    <2>8. \A f \in Planned : Shown[f] = db.text[f]
        BY <2>2 DEF Planned
    <2>9. fs \in SUBSET Planned
        OBVIOUS
    <2>. HIDE DEF fs
    <2>. QED BY <1>2, <2>7, <2>8, <2>9, AskedIsPlanned DEF Promise!Break
<1>. QED BY <1>3, <1>4

\* A step of the fix is one abstract step, or none that the user can see.
LEMMA PromiseStep ==
    ASSUME FixInv, FixInv', ~EditsDuring, [Next]_vars
    PROVE  [Promise!FNext]_(Promise!fvars)
<1>1. HasRead /\ OnTrack /\ TypeOK /\ TypeOK'
    BY DEF FixInv
<1>2. CASE UNCHANGED vars
    BY <1>2 DEF vars, Shown, Over, BrokeOff, Promise!fvars
<1>3. CASE \/ Begin \/ StartWriting \/ Configure \/ ConfigureFails \/ Ingest
           \/ IngestFails \/ Accept \/ Reject \/ Revert
           \/ \E f \in Files : Read(f) \/ Refuse(f) \/ Write(f) \/ RollBack(f)
    <2>1. /\ Shown' = Shown /\ db' = db
          /\ BrokeOff' = BrokeOff \/ BrokeOff' = FALSE
        BY <1>3, QuietSteps, QuietStepsGoOn
    <2>2. Promise!Begin \/ UNCHANGED Promise!fvars
        BY <2>1 DEF Promise!Begin, Promise!fvars
    <2>. QED BY <2>2 DEF Promise!FNext
<1>4. CASE Record
    <2>1. Shown = disk /\ Shown' = Shown
        BY <1>1, <1>4 DEF Record, Shown, Over, TypeOK, Tree
    <2>2. Promise!Record
        BY <1>4, <2>1 DEF Record, Promise!Record, Recorded, BrokeOff
    <2>. QED BY <2>2 DEF Promise!FNext
<1>5. ASSUME NEW f \in Files, Edit(f) PROVE Promise!Edit(f)
    <2>1. Shown = disk /\ Shown' = disk'
        BY <1>1, <1>5 DEF Edit, Shown, Over, TypeOK, Tree
    <2>2. CASE disk[f] = Torn
        <3>1. disk' = [disk EXCEPT ![f] = [edits |-> MaxEdits, fixed |-> FALSE]]
            BY <1>5, <2>2 DEF Edit
        <3>2. MaxEdits \in 0..MaxEdits
            BY FixAssumption DEF FixAssumption
        <3>. QED BY <1>5, <2>1, <2>2, <3>1, <3>2 DEF Edit, Promise!Edit, BrokeOff
    <2>3. CASE disk[f] # Torn
        <3>1. disk[f] \in Text /\ disk[f].edits < MaxEdits
            BY <1>1, <1>5, <2>3 DEF Edit, TypeOK, Tree
        <3>2. PICK b \in {disk[f].fixed, FALSE} :
                 disk' = [disk EXCEPT ![f] = [edits |-> disk[f].edits + 1, fixed |-> b]]
            BY <1>5, <2>3 DEF Edit
        <3>3. [edits |-> disk[f].edits + 1, fixed |-> b] \in Text
            BY <3>1, EditedText
        <3>4. disk[f].edits + 1 \in 0..MaxEdits /\ b \in BOOLEAN /\ (b => disk[f].fixed)
            BY <3>1, <3>2, <3>3 DEF Text
        <3>. QED BY <1>5, <2>1, <3>2, <3>4 DEF Edit, Promise!Edit, BrokeOff
    <2>. QED BY <2>2, <2>3
<1>6. ASSUME Promote PROVE Promise!Fix
    <2>1. Shown = [f \in Files |-> IF f \in Planned THEN db.text[f] ELSE disk[f]]
        BY <1>6, ReadIsShown DEF Promote, Written
    <2>2. \A f \in Planned : disk[f] = [db.text[f] EXCEPT !.fixed = TRUE]
        BY <1>1, <1>6 DEF Promote, HasRead, OnTrack, Written, Updated, Planned
    <2>3. Promise!Fixed(Shown, Planned) = disk
        <3>1. \A f \in Files : Promise!Fixed(Shown, Planned)[f] = disk[f]
            BY <2>1, <2>2 DEF Promise!Fixed, Planned
        <3>. QED BY <1>1, <3>1 DEF Promise!Fixed, TypeOK, Tree
    <2>4. Shown' = disk
        BY <1>1, <1>6 DEF Promote, Shown, Over, TypeOK, Tree
    <2>5. db' = [text |-> disk, graph |-> Graph(disk)] /\ Configures(disk)
          /\ NoProblems(db.graph, Graph(disk))
        BY <1>1, <1>6 DEF Promote, HasRead, OnTrack, Written, Recorded
    <2>6. Planned # {} /\ \A f \in Planned : Shown[f] = db.text[f]
        BY <1>1, <1>6, <2>1 DEF Promote, HasRead, Over, Planned
    <2>7. BrokeOff' = BrokeOff
        BY <1>6 DEF Promote, BrokeOff
    <2>. QED BY <2>3, <2>4, <2>5, <2>6, <2>7, AskedIsPlanned DEF Promise!Fix
<1>7. ASSUME \/ OpenFails \/ PromoteFails \/ Crash
             \/ \E f \in Files : WriteFails(f) \/ RollBackFails(f)
      PROVE  Promise!Break
    <2>1. ~Over /\ Over' /\ BrokeOff' /\ db' = db /\ Faults \cap Unrolled # {}
        BY <1>7 DEF OpenFails, PromoteFails, Crash, WriteFails, RollBackFails, Over, Unrolled,
               BrokeOff
    <2>2. \/ disk' = disk
          \/ /\ pc \in {"writing", "rolling back"}
             /\ \E f \in left : disk' = [disk EXCEPT ![f] = Torn]
        BY <1>7 DEF OpenFails, PromoteFails, Crash, WriteFails, RollBackFails
    <2>. QED BY <1>1, <2>1, <2>2, BreakStep
<1>. QED
    BY <1>2, <1>3, <1>4, <1>5, <1>6, <1>7 DEF Next, Promise!FNext

\* While nobody edits during a fix, all the user can see of it is that every
\* planned file is fixed and the recording replaced by one of the same graph, or
\* nothing (verify.rs:1-5), or, where more than the configure and its ingestion
\* may fail, that it broke off among the planned files.
THEOREM FixKeepsPromise == ASSUME ~EditsDuring PROVE Spec => PromiseSpec
<1>1. FixInv /\ FixInv' /\ [Next]_vars => [Promise!FNext]_(Promise!fvars)
    BY PromiseStep
<1>. QED BY <1>1, PromiseInit, FixSafe, PTL DEF Spec, PromiseSpec, Promise!FSpec
=============================================================================
