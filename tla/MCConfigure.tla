----------------------------- MODULE MCConfigure ------------------------------
(***************************************************************************)
(* Small projects, each for the passes it is about; any two build graphs,  *)
(* compared as `diff` and the verification of a fix compare them; short    *)
(* texts, as `modernize --fix` edits them; and presets that inherit.       *)
(***************************************************************************)
EXTENDS LinkPasses, Provenance, Overshare, Modernize, GraphDiff, PatchText, Presets

VARIABLE asked        \* what an algorithm without a state is asked, else None

Call(cmd, args) ==
    [cmd |-> cmd, args |-> args, tgt |-> "", prop |-> "", append |-> FALSE,
     node |-> 0, file |-> "CMakeLists.txt", line |-> 0, src |-> TRUE, scratch |-> FALSE]
At(c, n) == [c EXCEPT !.node = n, !.line = n]
Outside(c) == [c EXCEPT !.src = FALSE, !.file = "FindZ.cmake"]
Property(t, prop, append, vals) ==
    [Call("set_property", vals) EXCEPT !.tgt = t, !.prop = prop, !.append = append]
Lib(t, type) == Call("add_library", <<t, type>>)
Link(words) == Call("target_link_libraries", words)
Numbered(calls, from) == [i \in DOMAIN calls |-> At(calls[i], from + i)]
Project(lead, calls, free) ==
    [lead |-> Numbered(lead, 100), calls |-> ToSet(Numbered(calls, 0)), free |-> free,
     kinds |-> {}, scopes |-> 1]

-----------------------------------------------------------------------------
(* Links.                                                                  *)

\* Chains, diamonds and rings of three libraries.
Rings == Project(<<Lib("b", "STATIC"), Lib("c", "STATIC"), Lib("a", "STATIC")>>,
    <<Link(<<"a", "PUBLIC", "b">>), Link(<<"a", "INTERFACE", "b">>), Link(<<"a", "PRIVATE", "c">>),
      Link(<<"b", "PUBLIC", "c">>), Link(<<"b", "PRIVATE", "c">>), Link(<<"b", "PUBLIC", "a">>),
      Link(<<"c", "b", "c">>)>>, 4)

\* Items repeated under configuration and visibility keywords, and by a property.
Repeats == Project(<<Lib("b", "STATIC"), Lib("a", "STATIC")>>,
    <<Link(<<"a", "PRIVATE", "debug", "b", "optimized", "b">>), Link(<<"a", "debug", "b", "b">>),
      Link(<<"a", "PUBLIC", "z", "PRIVATE", "b", "z">>), Link(<<"a", "LINK_PRIVATE", "b">>),
      Outside(Link(<<"a", "PUBLIC", "optimized", "b", "general", "z">>)),
      Property("a", "INTERFACE_LINK_LIBRARIES", TRUE, <<"b">>),
      Property("a", "INTERFACE_LINK_LIBRARIES", FALSE, <<"z", "b">>)>>, 3)

\* Targets of every kind, defined in any order, some linked from elsewhere.
Kinds == Project(<<Lib("d", "STATIC")>>,
    <<Lib("b", "OBJECT"), Lib("b", "INTERFACE"), Lib("b", "SHARED"),
      Call("add_library", <<"c", "ALIAS", "b">>), Call("add_library", <<"b", "UNKNOWN", "IMPORTED">>),
      Call("add_executable", <<"a">>),
      Link(<<"a", "PRIVATE", "c", "libz.so">>), Link(<<"a", "PRIVATE", "d">>),
      Link(<<"d", "PUBLIC", "b">>), Outside(Link(<<"d", "PUBLIC", "c">>)),
      Link(<<"b", "INTERFACE", "libz.so">>)>>, 4)

\* What a library exports is set again after others have used it.
Resets == Project(<<Lib("b", "STATIC"), Lib("c", "STATIC"), Lib("a", "STATIC")>>,
    <<Link(<<"b", "PUBLIC", "c">>), Link(<<"a", "PRIVATE", "b">>), Link(<<"a", "PRIVATE", "c">>),
      Property("b", "INTERFACE_LINK_LIBRARIES", FALSE, <<"z">>),
      Call("target_include_directories", <<"a", "PRIVATE", "/i">>),
      Call("target_include_directories", <<"b", "PUBLIC", "/i">>),
      Property("b", "INTERFACE_INCLUDE_DIRECTORIES", FALSE, <<>>)>>, 4)

\* Requirements of a chain of libraries.
Includes == Project(<<Lib("c", "STATIC"), Lib("b", "STATIC"), Call("add_executable", <<"a">>)>>,
    <<Link(<<"a", "PRIVATE", "b">>), Link(<<"b", "PUBLIC", "c">>), Link(<<"b", "PRIVATE", "c">>),
      Link(<<"a", "INTERFACE", "c">>),
      Call("target_include_directories", <<"c", "SYSTEM", "PUBLIC", "/i", "PRIVATE", "/j">>),
      Call("target_compile_definitions", <<"c", "PUBLIC", "-DX">>),
      Property("c", "INTERFACE_INCLUDE_DIRECTORIES", FALSE, <<"/j">>)>>, 4)

-----------------------------------------------------------------------------
(* Directories.                                                            *)

In(kinds, n, p) == [p EXCEPT !.kinds = kinds, !.scopes = n]
InFile(c, f) == [c EXCEPT !.file = f]
InScratch(c) == [c EXCEPT !.scratch = TRUE, !.src = FALSE, !.file = "CMakeScratch"]

\* Commands before and after targets, in subdirectories and functions.
Directories == In({"directory", "function"}, 2, Project(<<>>,
    <<Call("include_directories", <<"SYSTEM", "inc">>), Call("add_compile_options", <<"-O">>),
      Lib("a", "STATIC"), Lib("b", "STATIC")>>, 3))

\* Scratch projects, and commands that are not all definitions.
Scratches == In({"try_compile", "block", "directory"}, 2, Project(<<>>,
    <<Call("add_definitions", <<"-DX">>), Call("add_definitions", <<"-DX", "-O">>),
      Call("link_libraries", <<"general", "z">>), Lib("a", "STATIC"),
      InScratch(Lib("a", "STATIC")), Call("add_custom_target", <<"b">>)>>, 3))

\* The same value by a call, a directory command and a dependency.
Shadowed == In({"directory"}, 1, Project(<<Lib("d", "STATIC")>>,
    <<Lib("a", "STATIC"), Link(<<"a", "PRIVATE", "d">>),
      Call("include_directories", <<"SYSTEM", "/i">>), InFile(Call("include_directories", <<"/i">>), "sub"),
      Call("target_include_directories", <<"a", "PRIVATE", "/i">>),
      Call("target_include_directories", <<"a", "SYSTEM", "PUBLIC", "/i">>),
      InFile(Call("target_include_directories", <<"d", "PUBLIC", "/i">>), "sub"),
      Call("target_include_directories", <<"d", "INTERFACE", "/i">>)>>, 4))

\* Definitions by three commands, one spelling each.
Definitions == In({"directory", "macro"}, 1, Project(<<>>,
    <<Call("add_compile_definitions", <<"-DX">>), Call("add_definitions", <<"-DX">>),
      Lib("a", "STATIC"), Lib("b", "INTERFACE"), Call("target_compile_definitions", <<"a", "PRIVATE", "X">>),
      Call("target_compile_definitions", <<"a", "INTERFACE", "X">>)>>, 4))

\* Nothing to configure: two graphs, a text, the presets of a project.
Graphs == Project(<<>>, <<>>, 0)
Texts == [Graphs EXCEPT !.scopes = 2]
PresetFiles == [Graphs EXCEPT !.scopes = 3]

MCProjects == {Rings, Repeats, Kinds, Resets, Includes, Directories, Scratches, Shadowed, Definitions,
               Graphs, Texts, PresetFiles}
MCShort == {[Directories EXCEPT !.free = 2]}
MCFolder == [f \in {"CMakeLists.txt", "FindZ.cmake", "sub", "CMakeScratch"} |->
                IF f = "sub" THEN "sub" ELSE "top"]
MCDashD == "-DX" :> "X"
MCRelative == {"inc"}
MCNames == <<"a", "b", "c", "d">>
MCStems == "libz.so" :> {"z"}

-----------------------------------------------------------------------------
\* Up to three lines of one command at most, with and without indentation,
\* blanks and a comment after it, the last one perhaps without a newline.
Lines(cmds) ==
    {indent \o cmd \o tail : indent \in {<<>>, <<Blank>>},
                            cmd \in {<<>>} \cup {<<c>> : c \in cmds},
                            tail \in {<<>>, <<Blank>>, <<Blank, "#", "word">>}}

Legacies == <<"include_directories", "add_definitions">>
Definers == <<"add_library", "add_executable">>
Commands == ToSet(Legacies) \cup ToSet(Definers)

MCTexts ==
    {t \in {l1 \o <<Newline>> \o l2 \o <<Newline>> \o l3 \o eof :
                l1 \in Lines({"include_directories", "add_library"}), l2 \in Lines(Commands),
                l3 \in Lines({"add_definitions", "add_executable"}), eof \in {<<>>, <<Newline>>}} :
        \A i, j \in DOMAIN t : i # j /\ t[i] = t[j] => t[i] \notin Commands}

\* Each legacy command is deleted and given to each target defined.
Gives(legacy, definer) == <<legacy, definer>>

PositionsOf(text, cmds) == SelectSeq([i \in DOMAIN text |-> i], LAMBDA i : text[i] \in ToSet(cmds))

Patches(text) ==
    LET old == SelectSeq(Legacies, LAMBDA c : c \in ToSet(text))
        def == PositionsOf(text, Definers)
    IN  [k \in DOMAIN old |->
            <<DeleteNode(text, PositionsOf(text, <<old[k]>>)[1])>>
            \o [i \in DOMAIN def |-> Insertion(text, def[i], Gives(old[k], text[def[i]]))]]

\* Presets p, q and r; p may inherit q and r in either order, q may inherit r.
Preset(values, inherits, dir, hidden) ==
    [values |-> values, inherits |-> inherits, binaryDir |-> dir, hidden |-> hidden]
OptX(v) == {<<>>, "X" :> v}

MCFiles ==
    {IF user THEN [user |-> "p" :> p, project |-> "q" :> q @@ "r" :> r]
     ELSE [user |-> <<>>, project |-> "p" :> p @@ "q" :> q @@ "r" :> r] :
        p \in {Preset(v, i, d, FALSE) : v \in OptX("p") \cup OptX(Null), d \in {Unset, PerPreset},
                    i \in {<<>>, <<"q">>, <<"r">>, <<"q", "r">>, <<"r", "q">>}},
        q \in {Preset(v, i, d, TRUE) : v \in OptX("q"), i \in {<<>>, <<"r">>}, d \in {Unset, "out"}},
        r \in {Preset(v, <<>>, d, FALSE) : v \in OptX("r"), d \in {Unset, PerPreset}},
        user \in BOOLEAN}

Word(opt, name, value) == <<[opt |-> opt, name |-> name, value |-> value]>>

\* With a preset or without, --build-dir or not, and raw arguments of all kinds.
MCOptions ==
    {[preset |-> preset, buildDir |-> dir, rawArgs |-> src \o b \o defs \o p] :
        preset \in {Unset, "p"}, dir \in {Unset, "B"},
        src \in {<<>>, Word("-S", Unset, "src")}, b \in {<<>>, Word("-B", Unset, "R")},
        defs \in {<<>>, Word("-D", "X", "D"), Word("-D", "X", "D") \o Word("-D", "X", "E")},
        p \in {<<>>, Word("--preset", Unset, "p")}}

MCPresets == [files : MCFiles, opts : MCOptions]

-----------------------------------------------------------------------------
MCInit ==
    /\ Init
    /\ CASE project = Graphs      -> asked \in {[old |-> a, new |-> b] : a, b \in BuildGraph}
         [] project = Texts       -> asked \in MCTexts
         [] project = PresetFiles -> asked \in MCPresets
         [] OTHER                 -> asked = None

MCNext == Next /\ UNCHANGED asked

MCSpec == MCInit /\ [][MCNext]_<<vars, asked>>

\* The report of `cmakedb diff` is empty exactly when the recordings agree in
\* targets, edges and resolved requirements, and the verification of a fix finds
\* a problem exactly when targets or resolved requirements differ (diff.rs:17, 143).
ComparisonsExact ==
    project = Graphs =>
        /\ IsEmpty(Diff(asked.old, asked.new)) <=> asked.old = asked.new
        /\ NoProblems(asked.old, asked.new) <=> Isomorphic(asked.old, asked.new)

\* A line as the fix should leave it: a legacy command goes, with its line when
\* nothing but blanks is left, and the commands given to a target follow the
\* line that defines it, in the order of the codemods and with its indentation.
Rewritten(text, line, eol) ==
    LET kept   == SelectSeq(line, LAMBDA s : s \notin ToSet(Legacies))
        indent == IF line # <<>> /\ line[1] = Blank THEN <<Blank>> ELSE <<>>
        given  == SelectSeq(Legacies, LAMBDA c : c \in ToSet(text))
        calls  == {c \in ToSet(line) : c \in ToSet(Definers)}
    IN  IF kept # line /\ ToSet(kept) \subseteq {Blank} THEN <<>>
        ELSE kept \o FlattenSeq([i \in 1..(IF calls = {} THEN 0 ELSE Len(given)) |->
                        <<Newline>> \o indent \o <<Gives(given[i], CHOOSE c \in calls : TRUE)>>])
                  \o eol

\* The edits of a fix neither overlap nor displace each other: applied together
\* they delete and insert whole lines and leave every other symbol of the file
\* where it was, comments and a missing final newline included (patch/lib.rs:33).
PatchesKeepTheRest ==
    project = Texts =>
        LET edits == Merged(Patches(asked))
            nl    == SelectSeq([i \in DOMAIN asked |-> i], LAMBDA i : asked[i] = Newline)
            ends  == IF nl # <<>> /\ Last(nl) = Len(asked) THEN nl ELSE Append(nl, Len(asked) + 1)
            Line(k) == SubSeq(asked, IF k = 1 THEN 1 ELSE ends[k-1] + 1, ends[k] - 1)
        IN  /\ Applies(asked, edits)
            /\ ApplyTo(asked, edits) =
                 FlattenSeq([k \in DOMAIN ends |->
                    Rewritten(asked, Line(k), IF ends[k] > Len(asked) THEN <<>> ELSE <<Newline>>)])

\* Options of which CMake gets all the recorder goes by: a preset without raw
\* arguments other than -S, or else raw arguments with a -B that names no preset
\* and is no second build directory, or no arguments at all.
Understood(opts) ==
    LET Has(opt) == \E i \in DOMAIN opts.rawArgs : opts.rawArgs[i].opt = opt
    IN  IF opts.preset # Unset THEN ~Has("-D") /\ ~Has("-B") /\ ~Has("--preset")
        ELSE opts.rawArgs = <<>> \/ (Has("-B") /\ ~Has("--preset") /\ opts.buildDir = Unset)

\* No preset the recorder is asked for, nor one it inherits, has a null.
NoNulls(files, opts) ==
    opts.preset # Unset =>
        \A n \in Lineage(files, opts.preset) : \A x \in DOMAIN Find(files, n).values :
            Find(files, n).values[x] # Null

\* Of options that CMake gets all of, and without nulls, the recorder seeds the
\* names CMake's cache starts with; a value may be another only of a name given
\* more than once; and where presets inherit in a chain, with a -D each, values
\* and build directory are CMake's (record/lib.rs:81, 226, 319).
PresetSeeds ==
    project = PresetFiles /\ Understood(asked.opts) /\ NoNulls(asked.files, asked.opts) =>
        LET given == CMakeArgs(asked.files, asked.opts)
            seeds == PreseededCacheEntries(asked.files, asked.opts)
            cmake == CMakeEntries(asked.files, given)
            chain == asked.opts.preset # Unset =>
                        \A n \in Lineage(asked.files, asked.opts.preset) :
                            Len(Find(asked.files, n).inherits) <= 1
        IN  /\ DOMAIN seeds = DOMAIN cmake
            /\ \A x \in DOMAIN cmake : seeds[x] # cmake[x] => Givers(asked.files, given, x) > 1
            /\ chain =>
                 /\ Len(Defs(given.args)) <= 1 => seeds = cmake
                 /\ ResolveBuildDir(asked.files, asked.opts) = CMakeBuildDir(asked.files, given)

=============================================================================
