------------------------------ MODULE MCReplay ------------------------------
(***************************************************************************)
(* The replay alone, fed with every trace over a small set of events: two  *)
(* call depths below the root, a file that joins and one that does not.    *)
(***************************************************************************)
EXTENDS ScopeReplay

CONSTANTS x, p, srcFile, genFile, node

MCNodeFile == [n \in Nodes |-> IF n = node THEN srcFile ELSE genFile]
MCNodeVars == [n \in Nodes |-> TRUE]

Plain(cmd, depth, file, at) ==
    [cmd |-> cmd, depth |-> depth, file |-> file, at |-> at, node |-> None,
     name |-> None, ref |-> None, proc |-> None, params |-> {}]

Sites == {<<srcFile, {}>>, <<srcFile, {node}>>, <<genFile, {}>>}

MCEvents ==
    LET D == 1..3
        at(cmd, s, d) == Plain(cmd, d, s[1], s[2])
    IN  {at("other", s, d) : s \in Sites, d \in D}
          \cup {[at(c, s, d) EXCEPT !.name = x] :
                   c \in {"set", "unset", "parent_scope", "cache"},
                   s \in {<<srcFile, {node}>>}, d \in D}
          \cup {[at("macro", <<srcFile, {}>>, 1) EXCEPT !.proc = p, !.params = {x}],
                [at("function", <<srcFile, {}>>, 2) EXCEPT !.proc = p, !.params = {x}]}
          \cup {at(c, <<srcFile, {}>>, d) : c \in {p, "try_compile"}, d \in D}
          \cup {[at("block", <<srcFile, {node}>>, d) EXCEPT !.node = node] : d \in D}

=============================================================================
