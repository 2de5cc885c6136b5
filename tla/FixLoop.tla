------------------------------ MODULE FixLoop --------------------------------
(***************************************************************************)
(* `modernize --fix`: apply_and_verify of cmakedb-record/src/verify.rs.    *)
(* It reads every file the patches touch and refuses if one is not the     *)
(* recorded text, writes them, records the tree into a second database,    *)
(* compares the build graphs and either puts the new recording in the      *)
(* place of the old one or writes the old texts back.  The user edits and  *)
(* records the tree before and after, and perhaps during it.               *)
(*                                                                         *)
(* A text is known by the number of the user's edits and by whether the    *)
(* legacy command is replaced in it; a patch replaces it.                  *)
(***************************************************************************)
EXTENDS Naturals, GraphDiff

CONSTANTS
    Files,          \* source files with a legacy command
    Graph(_),       \* the build graph CMake makes of a tree
    Configures(_),  \* the trees it can configure
    Faults,         \* which steps may fail, and whether the fix may be killed
    EditsDuring,    \* whether the user edits while a fix runs
    MaxEdits,       \* bound on the edits of one file
    None,           \* not read; no recording
    Torn            \* a file whose write broke off

Text == [edits : 0..MaxEdits, fixed : BOOLEAN]
Tree == [Files -> Text \cup {Torn}]

Recorded(tree) == [text |-> tree, graph |-> Graph(tree)]

ASSUME FixAssumption ==
    /\ IsFiniteSet(Files)
    /\ Faults \subseteq {"configure", "ingest", "write", "open", "rename",
                         "rollback", "crash"}
    /\ EditsDuring \in BOOLEAN
    /\ MaxEdits \in Nat
    /\ None \notin Text /\ Torn \notin Text /\ None # Torn
    /\ \A t \in Tree : Graph(t) \in BuildGraph
    /\ None \notin BuildGraph
    /\ \A t, u \in Tree : None # [text |-> t, graph |-> Graph(u)]

VARIABLES
    disk,       \* the files
    db,         \* the recording the fix was planned from
    vdb,        \* the database it verifies with
    pc,         \* where the fix is
    left,       \* the files its present loop still has to do
    originals,  \* the texts it has read
    ran         \* the graph its CMake configured

vars == <<disk, db, vdb, pc, left, originals, ran>>

\* The plan: a patch for each file whose recorded text has the command.
Planned == {f \in Files : db.text[f] # Torn /\ ~db.text[f].fixed}

Updated(f) == [originals[f] EXCEPT !.fixed = TRUE]

Over == pc \in {"idle", "refused", "verified", "reverted", "error", "dead"}

Init ==
    /\ disk = [f \in Files |-> [edits |-> 0, fixed |-> FALSE]]
    /\ db = Recorded(disk)
    /\ vdb = None
    /\ pc = "idle"
    /\ left = {}
    /\ originals = [f \in Files |-> None]
    /\ ran = None

Begin ==
    /\ Over
    /\ Planned # {}
    /\ pc' = "reading"
    /\ left' = Planned
    /\ originals' = [f \in Files |-> None]
    /\ UNCHANGED <<disk, db, vdb, ran>>

\* Slip: the recorded content is taken for the file's.
SlipRead(f) ==
    /\ pc = "reading" /\ f \in left
    /\ originals' = [originals EXCEPT ![f] = db.text[f]]
    /\ left' = left \ {f}
    /\ UNCHANGED <<disk, db, vdb, pc, ran>>

\* The hash of the text must be the recorded one.
Read(f) ==
    /\ pc = "reading" /\ f \in left
    /\ disk[f] = db.text[f]
    /\ originals' = [originals EXCEPT ![f] = disk[f]]
    /\ left' = left \ {f}
    /\ UNCHANGED <<disk, db, vdb, pc, ran>>

Refuse(f) ==
    /\ pc = "reading" /\ f \in left
    /\ disk[f] # db.text[f]
    /\ pc' = "refused"
    /\ UNCHANGED <<disk, db, vdb, left, originals, ran>>

StartWriting ==
    /\ pc = "reading" /\ left = {}
    /\ pc' = "writing"
    /\ left' = Planned
    /\ UNCHANGED <<disk, db, vdb, originals, ran>>

Write(f) ==
    /\ pc = "writing" /\ f \in left
    /\ disk' = [disk EXCEPT ![f] = Updated(f)]
    /\ left' = left \ {f}
    /\ UNCHANGED <<db, vdb, pc, originals, ran>>

\* An error of fs::write, which empties the file first, ends the fix.
WriteFails(f) ==
    /\ "write" \in Faults
    /\ pc = "writing" /\ f \in left
    /\ disk' \in {disk, [disk EXCEPT ![f] = Torn]}
    /\ pc' = "error"
    /\ UNCHANGED <<db, vdb, left, originals, ran>>

\* record(), into the second database (module Recorder).
Configure ==
    /\ pc = "writing" /\ left = {}
    /\ Configures(disk)
    /\ pc' = "ingesting"
    /\ ran' = Graph(disk)
    /\ UNCHANGED <<disk, db, vdb, left, originals>>

ConfigureFails ==
    /\ pc = "writing" /\ left = {}
    /\ "configure" \in Faults \/ ~Configures(disk)
    /\ pc' = "rolling back"
    /\ left' = Planned
    /\ UNCHANGED <<disk, db, vdb, originals, ran>>

Ingest ==
    /\ pc = "ingesting"
    /\ pc' = "comparing"
    /\ vdb' = [text |-> disk, graph |-> ran]
    /\ UNCHANGED <<disk, db, left, originals, ran>>

IngestFails ==
    /\ pc = "ingesting"
    /\ "ingest" \in Faults
    /\ pc' = "rolling back"
    /\ left' = Planned
    /\ vdb' = None
    /\ UNCHANGED <<disk, db, originals, ran>>

Accept ==
    /\ pc = "comparing"
    /\ NoProblems(db.graph, vdb.graph)
    /\ pc' = "promoting"
    /\ UNCHANGED <<disk, db, vdb, left, originals, ran>>

Reject ==
    /\ pc = "comparing"
    /\ ~NoProblems(db.graph, vdb.graph)
    /\ pc' = "rolling back"
    /\ left' = Planned
    /\ UNCHANGED <<disk, db, vdb, originals, ran>>

\* Either database may not open, or a query fail.
OpenFails ==
    /\ pc = "comparing"
    /\ "open" \in Faults
    /\ pc' = "error"
    /\ UNCHANGED <<disk, db, vdb, left, originals, ran>>

Promote ==
    /\ pc = "promoting"
    /\ pc' = "verified"
    /\ db' = vdb
    /\ vdb' = None
    /\ UNCHANGED <<disk, left, originals, ran>>

PromoteFails ==
    /\ pc = "promoting"
    /\ "rename" \in Faults
    /\ pc' = "error"
    /\ UNCHANGED <<disk, db, vdb, left, originals, ran>>

\* Slip: what is written back is what was written.
SlipRollBack(f) ==
    /\ pc = "rolling back" /\ f \in left
    /\ disk' = [disk EXCEPT ![f] = Updated(f)]
    /\ left' = left \ {f}
    /\ UNCHANGED <<db, vdb, pc, originals, ran>>

RollBack(f) ==
    /\ pc = "rolling back" /\ f \in left
    /\ disk' = [disk EXCEPT ![f] = originals[f]]
    /\ left' = left \ {f}
    /\ UNCHANGED <<db, vdb, pc, originals, ran>>

RollBackFails(f) ==
    /\ "rollback" \in Faults
    /\ pc = "rolling back" /\ f \in left
    /\ disk' \in {disk, [disk EXCEPT ![f] = Torn]}
    /\ pc' = "error"
    /\ UNCHANGED <<db, vdb, left, originals, ran>>

Revert ==
    /\ pc = "rolling back" /\ left = {}
    /\ pc' = "reverted"
    /\ vdb' = None
    /\ UNCHANGED <<disk, db, left, originals, ran>>

\* A kill in one of the two writing loops may leave a file half written.
Crash ==
    /\ "crash" \in Faults
    /\ ~Over
    /\ pc' = "dead"
    /\ \/ disk' = disk
       \/ /\ pc \in {"writing", "rolling back"}
          /\ \E f \in left : disk' = [disk EXCEPT ![f] = Torn]
    /\ UNCHANGED <<db, vdb, left, originals, ran>>

Record ==
    /\ Over
    /\ Configures(disk)
    /\ db' = Recorded(disk)
    /\ UNCHANGED <<disk, vdb, pc, left, originals, ran>>

\* The user may put the command back; a torn file is written anew.
Edit(f) ==
    /\ Over \/ EditsDuring
    /\ disk[f] # Torn => disk[f].edits < MaxEdits
    /\ \E text \in IF disk[f] = Torn THEN {[edits |-> MaxEdits, fixed |-> FALSE]}
                   ELSE {[edits |-> disk[f].edits + 1, fixed |-> b] :
                            b \in {disk[f].fixed, FALSE}} :
          disk' = [disk EXCEPT ![f] = text]
    /\ UNCHANGED <<db, vdb, pc, left, originals, ran>>

Next ==
    \/ Begin \/ StartWriting \/ Configure \/ ConfigureFails \/ Ingest \/ IngestFails
    \/ Accept \/ Reject \/ OpenFails \/ Promote \/ PromoteFails \/ Revert \/ Crash
    \/ Record
    \/ \E f \in Files :
          \/ Read(f) \/ Refuse(f) \/ Write(f) \/ WriteFails(f)
          \/ RollBack(f) \/ RollBackFails(f) \/ Edit(f)

Spec == Init /\ [][Next]_vars

-----------------------------------------------------------------------------
Recording == [text : Tree, graph : {Graph(t) : t \in Tree}]

TypeOK ==
    /\ disk \in Tree
    /\ db \in Recording
    /\ vdb \in Recording \cup {None}
    /\ pc \in {"idle", "reading", "refused", "writing", "ingesting", "comparing",
               "promoting", "verified", "rolling back", "reverted", "error", "dead"}
    /\ left \subseteq Files
    /\ originals \in [Files -> Text \cup {Torn, None}]
    /\ ran \in {Graph(t) : t \in Tree} \cup {None}

\* The fix works on what it was planned from, whoever edits.
Written == pc \in {"ingesting", "comparing", "promoting"}

HasRead ==
    /\ ~Over => left \subseteq Planned /\ Planned # {}
    /\ pc = "reading" => \A f \in Files :
          originals[f] = IF f \in Planned \ left THEN db.text[f] ELSE None
    /\ pc \in {"writing", "rolling back"} \/ Written => \A f \in Files :
          originals[f] = IF f \in Planned THEN db.text[f] ELSE None
    /\ pc = "ingesting" => ran # None
    /\ pc \in {"comparing", "promoting"} => vdb # None
    /\ pc = "promoting" => NoProblems(db.graph, vdb.graph)

\* While nobody edits during it, each file is where the fix has put it, and
\* what it is going to promote is the tree as it is.
OnTrack ==
    /\ pc = "reading" => \A f \in Planned \ left : disk[f] = db.text[f]
    /\ pc = "writing" => \A f \in Planned :
          disk[f] = IF f \in left THEN db.text[f] ELSE Updated(f)
    /\ Written => \A f \in Planned : disk[f] = Updated(f)
    /\ pc = "rolling back" => \A f \in Planned :
          disk[f] = IF f \in left THEN Updated(f) ELSE db.text[f]
    /\ Written => ran = Graph(disk) /\ Configures(disk)
    /\ pc \in {"comparing", "promoting"} => vdb = Recorded(disk)

\* The invariant the proofs are by induction on.
FixInv == TypeOK /\ HasRead /\ (~EditsDuring => OnTrack)

\* A fix replaces the recording only by one with the same targets and the
\* same resolved requirements (diff.rs:138-142), whatever else happens.
PromotesSameGraph ==
    [][pc' = "verified" /\ pc # "verified" => Isomorphic(db.graph, db'.graph)]_vars

\* What a fix leaves in a file has been verified (user-guide.md:1381-1386): when
\* it has ended no file is fixed that is not in the recording, and none is lost.
OnlyVerifiedStays ==
    pc \in {"refused", "reverted", "error"} =>
        \A f \in Files : /\ disk[f] # Torn
                         /\ disk[f].fixed => db.text[f] # Torn /\ db.text[f].fixed

\* A file that has changed since the recording is not touched (patch lib.rs:
\* 11-13): no step puts a text in the place of one with more edits.
NeverOverwritesAnEdit ==
    [][\A f \in Files : disk[f] # Torn /\ disk'[f] # Torn =>
                            disk'[f].edits >= disk[f].edits]_vars

\* To the user a fix is one step, whole, broken off or none: until it has ended
\* the files it works on count as what they were.
Shown == [f \in Files |-> IF ~Over /\ originals[f] # None THEN originals[f] ELSE disk[f]]

BrokeOff == pc \in {"error", "dead"}

Unrolled == {"write", "open", "rename", "rollback", "crash"}

Promise == INSTANCE VerifiedFix WITH
    Same <- NoProblems, tree <- Shown, broken <- BrokeOff,
    Breaks <- Faults \cap Unrolled # {}

\* A fix does all it was planned to do, verified, or nothing; an error it does
\* not roll back after leaves some of the planned files rewritten and nothing
\* else changed (verify.rs:1-5).
PromiseSpec == Promise!FSpec

=============================================================================
