----------------------------- MODULE MCRecorder -----------------------------
(***************************************************************************)
(* Three calls of record() in one .cmakedb directory: two for the main     *)
(* database, one for another (a matrix preset, or the database a fix       *)
(* verifies with).  All three share the trace file; the last two also      *)
(* share a build directory.                                                *)
(***************************************************************************)
EXTENDS Recorder

CONSTANTS first, again, other, mainDb, otherDb, buildA, buildB, traceFile

MCDbOf    == [j \in Jobs |-> IF j = other THEN otherDb ELSE mainDb]
MCTraceOf == [j \in Jobs |-> traceFile]
MCBuildOf == [j \in Jobs |-> IF j = first THEN buildA ELSE buildB]

=============================================================================
