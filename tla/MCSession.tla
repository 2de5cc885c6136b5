----------------------------- MODULE MCSession -----------------------------
(***************************************************************************)
(* Session with a fix that edits two files, the root listfile with the     *)
(* legacy command and a subdirectory's, and two texts.                     *)
(***************************************************************************)
EXTENDS Session

CONSTANTS rootFile, subFile, textA, textB

=============================================================================
