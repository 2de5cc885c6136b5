---------------------------- MODULE MCRecording ----------------------------
(***************************************************************************)
(* Recording over small projects: one variable (two for the passes), a     *)
(* procedure p that is a function or a macro, a procedure q, three         *)
(* listfiles and two nested blocks in the root file, the inner one not     *)
(* scoping variables, plus one block in the other file.                    *)
(***************************************************************************)
EXTENDS VariablePasses

CONSTANTS x, y, p, q, rootFile, subFile, genFile, outerBlock, innerBlock, subBlock

MCNodeFile == [n \in Nodes |-> IF n = subBlock THEN subFile ELSE rootFile]
MCNodeVars == [n \in Nodes |-> n # innerBlock]
MCNodeOuter == [n \in Nodes |-> IF n = innerBlock THEN {outerBlock} ELSE {}]

MCProcFile == [r \in Procs |-> IF r = p THEN rootFile ELSE subFile]
MCProcDefs ==
    [r \in Procs |->
        IF r = p THEN {[kind |-> "function", params |-> {}],
                       [kind |-> "macro", params |-> {x}]}
        ELSE {[kind |-> "function", params |-> {x}]}]

NoEvents == {}

Using(cmds, procs, nodes, files, snapshots, events) ==
    [cmds |-> cmds, uses |-> {<<x, None>>, <<x, x>>}, procs |-> procs, nodes |-> nodes,
     files |-> files, snapshots |-> snapshots, passes |-> FALSE, events |-> events]

\* Functions, macros and subdirectories, with scope snapshots.
Calls == Using({"set", "parent_scope", "add_subdirectory", "cmake_language"},
               {p, q}, {}, {subFile}, TRUE, 6)

\* Nested block()s in macros and in files included one after the other.
Blocks == [Using({"set", "unset", "parent_scope", "include"},
                 {p}, Nodes, Files, FALSE, 5) EXCEPT !.uses = {<<x, None>>}]

\* The cache, the environment and try_compile projects.
Caches == [Using({"set", "unset", "parent_scope", "cache", "cache_soft", "unset_cache",
                  "set_env", "unset_env", "try_compile"}, {}, {}, {subFile}, FALSE, 5)
                EXCEPT !.uses = {<<x, None>>}]

\* A loop whose body starts with block().
Loop == Using({"set"}, {}, {outerBlock}, {subFile}, FALSE, 5)

\* For the passes over variables: y may be made from x, and x from itself.
ForPasses(plain, uses) == [plain EXCEPT !.passes = TRUE, !.uses = uses]

Locals == ForPasses(Using({"set", "parent_scope"}, {p}, {}, {subFile}, FALSE, 5),
                    {<<x, x>>, <<y, x>>})
Options == ForPasses(Using({"set", "cache_soft", "add_subdirectory", "try_compile"},
                           {}, {}, {subFile, genFile}, FALSE, 4),
                     {<<x, None>>, <<y, None>>, <<y, x>>})

MCProjects == {Calls, Blocks, Caches, Locals, Options}
MCLoop == {Loop}

=============================================================================
