----------------------------- MODULE VerifiedFix ------------------------------
(***************************************************************************)
(* What `modernize --fix` promises: either every planned file is rewritten *)
(* and the recording replaced, and the build graph is the recorded one, or *)
(* nothing has happened.  Where a fix may break off (an I/O error it does  *)
(* not roll back after, or a kill) it promises only that it has touched no *)
(* other file than those, none that had changed, and not the recording.    *)
(***************************************************************************)
EXTENDS Naturals

CONSTANTS
    Files,          \* source files a fix may rewrite
    Graph(_),       \* the build graph of a source tree
    Configures(_),  \* source trees CMake can configure
    Same(_, _),     \* graphs a fix may exchange
    Breaks,         \* whether a fix may break off
    MaxEdits,       \* bound on the edits of one file
    Torn            \* a file written in part

VARIABLES
    tree,   \* the text of each file: edits by the user, and whether it is fixed
    db,     \* the recording: the text of each file and the build graph
    broken  \* whether the last fix has broken off

fvars == <<tree, db, broken>>

FInit ==
    /\ tree = [f \in Files |-> [edits |-> 0, fixed |-> FALSE]]
    /\ db = [text |-> tree, graph |-> Graph(tree)]
    /\ broken = FALSE

\* A file a fix tore has no edits left to count.
Edit(f) ==
    /\ \E n \in 0..MaxEdits, b \in BOOLEAN :
          /\ tree[f] # Torn => n = tree[f].edits + 1 /\ (b => tree[f].fixed)
          /\ tree' = [tree EXCEPT ![f] = [edits |-> n, fixed |-> b]]
    /\ UNCHANGED <<db, broken>>

Record ==
    /\ Configures(tree)
    /\ db' = [text |-> tree, graph |-> Graph(tree)]
    /\ UNCHANGED <<tree, broken>>

\* The files whose recorded text asks for it.
Asked == {f \in Files : db.text[f] # Torn /\ ~db.text[f].fixed}

Fixed(t, fs) == [f \in Files |-> IF f \in fs THEN [t[f] EXCEPT !.fixed = TRUE] ELSE t[f]]

Begin ==
    /\ broken' = FALSE
    /\ UNCHANGED <<tree, db>>

Fix ==
    /\ Asked # {}
    /\ \A f \in Asked : tree[f] = db.text[f]
    /\ Configures(Fixed(tree, Asked))
    /\ Same(db.graph, Graph(Fixed(tree, Asked)))
    /\ tree' = Fixed(tree, Asked)
    /\ db' = [text |-> tree', graph |-> Graph(tree')]
    /\ UNCHANGED broken

\* At most the file being written is torn.
Break ==
    /\ Breaks
    /\ broken' = TRUE
    /\ \/ UNCHANGED tree
       \/ /\ \A f \in Asked : tree[f] = db.text[f]
          /\ \E fs \in SUBSET Asked :
                \/ tree' = Fixed(tree, fs)
                \/ \E f \in Asked : tree' = [Fixed(tree, fs) EXCEPT ![f] = Torn]
    /\ UNCHANGED db

FNext == Record \/ Begin \/ Fix \/ Break \/ \E f \in Files : Edit(f)

FSpec == FInit /\ [][FNext]_fvars

=============================================================================
