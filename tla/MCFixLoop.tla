------------------------------ MODULE MCFixLoop -------------------------------
(***************************************************************************)
(* Two files and one target.  The fix of the one keeps the graph; that of  *)
(* the other loses a requirement unless the user has edited the file.      *)
(***************************************************************************)
EXTENDS FixLoop

CONSTANTS safe, risky, lib, flag, extra

Broken(t) == \E f \in Files : t[f] = Torn

MCConfigures(t) == ~Broken(t)

MCGraph(t) ==
    [targets |-> {lib}, edges |-> {},
     reqs |-> [x \in {lib} |->
        IF Broken(t) THEN {}
        ELSE (IF t[risky].fixed /\ t[risky].edits = 0 THEN {} ELSE {flag})
             \cup (IF t[safe].edits = 2 THEN {extra} ELSE {})]]

=============================================================================
