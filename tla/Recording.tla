----------------------------- MODULE Recording -----------------------------
(***************************************************************************)
(* A recording of a configure: CMake executes a project (CMakeExec) and    *)
(* the replay (ScopeReplay) consumes the trace it emits.  The replay reads *)
(* the trace file after the configure; since it sees nothing but the       *)
(* events, in order, running the two in lock step loses nothing.  CMake    *)
(* moves silently between events: returning from a function or a file and  *)
(* reaching endblock() are never traced.                                   *)
(*                                                                         *)
(* `Irregular` lets the project do what the replay is known to get wrong.  *)
(* With Irregular = {} every read resolves to CMake's own answer.          *)
(***************************************************************************)
EXTENDS ScopeReplay, CMakeExec

CONSTANTS
    ProcDefs,   \* the definitions function() / macro() may give a procedure
    ProcFile,   \* the file holding a procedure's body
    RootFile,   \* the top-level CMakeLists.txt
    NodeOuter,  \* the block_def nodes around a block_def node
    Projects,   \* what a project uses: commands, <<name written, name expanded>>,
                \* procedures, blocks and files; whether it is recorded with
                \* --capture-scopes, whether passes will run on the recording, and
                \* the bound on its events
    MaxDepth,   \* bound on the call depth
    Irregular   \* which of Irregularities the project may do

Irregularities == {"block_again", "unset_shadow", "parent_at_top",
                   "macro_param", "soft_after_unset"}

Project == [cmds : SUBSET BuiltinCmds, uses : SUBSET (Names \X (Names \cup {None})),
            procs : SUBSET Procs, nodes : SUBSET Nodes, files : SUBSET Files,
            snapshots : BOOLEAN, passes : BOOLEAN, events : Nat]

\* A block is in a file that was parsed and not around itself, and a project
\* gives its procedures names of their own.
ASSUME RecordingAssumption ==
    /\ Irregular \subseteq Irregularities
    /\ ProcFile \in [Procs -> Files]
    /\ ProcDefs \in [Procs -> SUBSET Def]
    /\ RootFile \in Files
    /\ \A n \in Nodes : NodeFile[n] \notin Unparsed /\ n \notin NodeOuter[n]
    /\ Procs \cap BuiltinCmds = {}
    /\ Projects \subseteq Project

\* What CMake itself gives for the read the last event made, and whether the
\* documented approximation covers it.
VARIABLES project, truth

\* The rows of events and var_reads, each with what CMake saw at that moment;
\* empty unless passes will run.
VARIABLE log

vars == <<rvars, cvars, project, truth, log>>

NoTruth == [name |-> None, var |-> NoRow, env |-> NoRow, covered |-> TRUE]

Init ==
    /\ RInit
    /\ project \in Projects
    /\ frames = <<Frame("root", 1, RootFile)>>
    /\ cache = [x \in Names |-> NoRow]
    /\ env = [x \in Names |-> NoRow]
    /\ cleared = {}
    /\ left = {}
    /\ truth = NoTruth
    /\ log = <<>>

\* The event of a command at the current point of execution.
EventOf(cmd, node, name, ref, proc, params) ==
    [cmd |-> cmd, depth |-> Top.depth, file |-> frames[Executing(frames)].unit,
     at |-> Enclosing(frames) \cup ({node} \ {None}), node |-> node,
     name |-> name, ref |-> ref, proc |-> proc, params |-> params]

\* CMake's cache when it reads: the -D entries precede the first command.
SeededCache(ids) == [x \in Names |-> IF nEvents = 0 /\ x \in Preseeded
                                     THEN ids ELSE cache[x]]

\* The value the scope outside the current one has, which PARENT_SCOPE writes.
Outer(fs, x) ==
    IF AtTop(fs) THEN NoRow ELSE Normal(fs, MaxOf(OpaqueAt(SubSeq(fs, 1, Own(fs) - 1))), x)

\* A row of events; scope is that of the event, not the one a block() opens.
Logged(e, seeded) ==
    [cmd |-> e.cmd, name |-> e.name, ref |-> e.ref, joined |-> Joined(e),
     scope |-> stack'[IF e.cmd = "block" THEN Len(stack') - 1 ELSE Len(stack')].id,
     read |-> lastRead'.var,
     sees |-> [x \in Names |-> Reads(frames, seeded, x)],
     outer |-> [x \in Names |-> Outer(frames, x)],
     inside |-> Own(frames) >= Executing(frames),
     vague |-> {x \in Names : InTry(frames) \/ Approximated(frames, x)}]

(***************************************************************************)
(* The part every traced command has in common: the replay consumes the    *)
(* event; its ${ref} is read before anything is written.                   *)
(***************************************************************************)
Traced(e) ==
    LET seeded == SeededCache(1)
        dump == [x \in Names |-> Normal(frames, Len(frames), x)]
    IN
    /\ nEvents < project.events
    /\ e.ref # None => ("macro_param" \in Irregular \/ ~MacroArgMisread(frames, e.ref))
    /\ Replay(e, IF e.cmd = "snapshot" THEN dump ELSE Empty)
    /\ truth' = IF e.ref = None \/ ~Joined(e) THEN NoTruth
                ELSE [name |-> e.ref, var |-> Reads(frames, seeded, e.ref),
                      env |-> env[e.ref],
                      covered |-> InTry(frames) \/ Approximated(frames, e.ref)]
    /\ log' = IF project.passes THEN Append(log, Logged(e, seeded)) ELSE log

\* A command that writes variable x.
Write(cmd, x, ref) ==
    LET w == Len(writes') IN
    /\ cmd = "unset" => ("unset_shadow" \in Irregular \/ ~HidesOuter(frames, x))
    /\ cmd = "parent_scope" => ("parent_at_top" \in Irregular \/ ~AtTop(frames))
    /\ cmd = "cache_soft" =>
         ("soft_after_unset" \in Irregular \/ InTry(frames) \/ x \notin cleared)
    /\ Traced(EventOf(cmd, None, x, ref, None, {}))
    /\ frames' = FramesAfter(frames, cmd, x, w)
    /\ cache' = CacheAfter(frames, SeededCache(1), cmd, x, w)
    /\ env' = EnvAfter(frames, env, cmd, x, w)
    /\ cleared' = ClearedAfter(frames, cleared, cmd, x)
    /\ left' = {}

Quiet ==  /\ cache' = SeededCache(1)
          /\ left' = {}
          /\ UNCHANGED <<env, cleared>>

\* A command that only expands its arguments, such as message().
Read(ref) ==
    /\ Traced(EventOf("other", None, None, ref, None, {}))
    /\ UNCHANGED frames /\ Quiet

\* function() / macro(): the body is not executed.
Define(p, d) ==
    /\ Traced(EventOf(d.kind, None, None, None, p, d.params))
    /\ UNCHANGED frames /\ Quiet

\* A procedure call.  The synthetic row of its arguments will be the next one.
CallFrame(p) ==
    LET f == Frame(defs[p].kind, Top.depth + 1, ProcFile[p])
        args == [x \in Names |-> IF x \in defs[p].params THEN Len(writes') + 1
                                 ELSE Inherit]
    IN  IF f.kind = "macro" THEN [f EXCEPT !.par = args] ELSE [f EXCEPT !.tab = args]

Call(p, ref) ==
    /\ defs[p] # None
    /\ Top.depth < MaxDepth
    /\ \E viaLanguage \in {cmd \in {"cmake_language"} : cmd \in project.cmds} \cup {p} :
          Traced(EventOf(viaLanguage, None, None, ref,
                         IF viaLanguage = p THEN None ELSE p, {}))
    /\ frames' = Append(frames, CallFrame(p))
    /\ Quiet

\* add_subdirectory, include (or project and its hook files), try_compile.
Enter(cmd, file) ==
    LET f == Frame(IF cmd = "add_subdirectory" THEN "directory" ELSE cmd,
                   Top.depth + 1, file)
    IN
    /\ Top.depth < MaxDepth
    /\ Traced(EventOf(cmd, None, None, None, None, {}))
    /\ frames' = Append(frames, IF cmd = "add_subdirectory"
                                THEN [f EXCEPT !.tab = Closure(frames), !.copied = Names]
                                ELSE f)
    /\ Quiet

\* block(): the frame shares the depth of its surroundings.
Block(n) ==
    /\ frames[Executing(frames)].unit = NodeFile[n]
    /\ Enclosing(frames) = NodeOuter[n]
    /\ "block_again" \in Irregular \/ n \notin left
    /\ Traced(EventOf("block", n, None, None, None, {}))
    /\ frames' = Append(frames, [Frame("block", Top.depth, NodeFile[n])
                                    EXCEPT !.node = n])
    /\ Quiet

\* The hook dumps the variables of a directory, at its start or its end.
Dump ==
    /\ project.snapshots
    /\ Top.kind \in {"root", "directory", "include"}
    /\ ~InTry(frames)
    /\ "macro_param" \in Irregular \/ \A x \in Names : ~MacroArgMisread(frames, x)
    /\ Traced(EventOf("snapshot", None, None, None, None, {}))
    /\ UNCHANGED frames /\ Quiet

Silent(fs, lv) == /\ frames' = fs
                  /\ left' = lv
                  /\ truth' = NoTruth
                  /\ UNCHANGED <<rvars, cache, env, cleared, log>>

\* The end of a body, or return(): the frame goes, and the blocks in it.
Return ==
    /\ outcome = "running"
    /\ Executing(frames) > 1
    /\ Silent(SubSeq(frames, 1, Executing(frames) - 1), left)

EndBlock ==
    /\ outcome = "running"
    /\ Top.kind = "block"
    /\ Silent(SubSeq(frames, 1, Len(frames) - 1), left \cup {Top.node})

\* project() and find_package() run one file after another at the same depth.
NextFile ==
    /\ outcome = "running"
    /\ Top.kind = "include"
    /\ \E f \in project.files \ {Top.unit} :
          Silent([frames EXCEPT ![Len(frames)].unit = f], left)

End == Finish /\ truth' = NoTruth /\ UNCHANGED <<cvars, log>>

Used == {u[1] : u \in project.uses}

Run ==
    \/ \E cmd \in WriteCmds \cap project.cmds, u \in project.uses : Write(cmd, u[1], u[2])
    \/ \E x \in Used : Read(x)
    \/ \E p \in project.procs : \E d \in ProcDefs[p] : Len(frames) = 1 /\ Define(p, d)
    \/ \E p \in project.procs, ref \in Used \cup {None} : Call(p, ref)
    \/ \E cmd \in {"add_subdirectory", "include", "try_compile"} \cap project.cmds :
          \E f \in project.files : Enter(cmd, f)
    \/ \E n \in project.nodes : Block(n)
    \/ Dump
    \/ Return
    \/ EndBlock
    \/ NextFile
    \/ End

Next == Run /\ UNCHANGED project

Spec == Init /\ [][Next]_vars

-----------------------------------------------------------------------------
\* Read -> write resolution is CMake's own (design.md:309): what the replay
\* records for a ${x} is the write CMake took the value from, or the unset()
\* that left it without one; a $ENV{x} resolves to the set(ENV{x}) in effect.
ReadsResolve ==
    truth.name # None =>
        /\ lastRead.name = truth.name
        /\ lastRead.env = truth.env
        /\ ~truth.covered =>
             \/ lastRead.var = truth.var
             \/ /\ truth.var = NoRow
                /\ writes[lastRead.var].cmd = "unset_cache"

\* A correct recording is never refused: whenever CMake dumps its tables the
\* replay agrees with them, except on names the documented PARENT_SCOPE
\* approximation covers.
NoFalseAlarm ==
    [][\A x \in mismatches' \ mismatches : Approximated(frames, x)]_vars

=============================================================================
