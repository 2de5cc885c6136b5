---------------------------- MODULE ProjectText ----------------------------
(***************************************************************************)
(* What the CMake listfiles of a project fix before anything is executed:  *)
(* the variable names in play and the block()...endblock() constructs.     *)
(***************************************************************************)
CONSTANTS
    Names,      \* variable names
    Files,      \* source files
    Nodes,      \* block_def AST nodes
    NodeFile,   \* the file each block_def node is in
    NodeVars    \* does that block() scope variables? (not SCOPE_FOR POLICIES)

ASSUME ProjectAssumption ==
    /\ NodeFile \in [Nodes -> Files]
    /\ NodeVars \in [Nodes -> BOOLEAN]

=============================================================================
