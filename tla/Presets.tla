------------------------------- MODULE Presets -------------------------------
(***************************************************************************)
(* What the recorder makes of configure presets and the command line       *)
(* (crates/cmakedb-record/src/lib.rs): the arguments it runs CMake with,   *)
(* the cache entries it takes a configure to start from, the build         *)
(* directory it takes CMake to use, and the presets `matrix` records; and, *)
(* external, what CMake makes of the arguments it gets.                    *)
(*                                                                         *)
(* A preset file is a function from names to presets, [values, inherits,   *)
(* binaryDir, hidden].  The recorder's options are [preset, buildDir,      *)
(* rawArgs], a raw argument is a word with what belongs to it, [opt, name, *)
(* value]; there is one -B at most.  A build directory is a pair: as it is *)
(* written, and the preset's name if it has ${presetName} in it.           *)
(***************************************************************************)
EXTENDS Naturals, Sequences, FiniteSets, SequencesExt

CONSTANTS
    Null,       \* cacheVariables: {"X": null}
    PerPreset,  \* a binaryDir with ${presetName} in it
    Default,    \* `build` in the source directory
    Unset       \* no value

\* CMakeUserPresets.json is looked at first.
Find(files, name) ==
    IF name \in DOMAIN files.user THEN files.user[name]
    ELSE IF name \in DOMAIN files.project THEN files.project[name] ELSE Unset

ListConfigurePresets(files) ==
    {name \in DOMAIN files.user : ~files.user[name].hidden}
    \cup {name \in DOMAIN files.project : ~files.project[name].hidden}

\* Slip: what a preset inherits is put over its own.
SlipPush(out, values) ==
    values @@ out

\* A name that is there keeps its value.
Push(out, values) ==
    out @@ values

\* -DX=1, -DX:TYPE=1 and -D X=1 alike.
Defs(args) == SelectSeq(args, LAMBDA a : a.opt = "-D")

\* -Bdir and -B dir.
Dirs(args) == SelectSeq(args, LAMBDA a : a.opt = "-B")

CommandLine(args) == FoldLeft(LAMBDA out, d : Push(out, d.name :> d.value), <<>>, Defs(args))

\* The presets a walk of `inherits` visits, in its order: those a preset
\* inherits are pushed, and the last pushed is visited next.
RECURSIVE Walk(_, _, _)
Walk(files, queue, visited) ==
    IF queue = <<>> THEN visited
    ELSE LET name == Last(queue)
         IN  IF name \in ToSet(visited) \/ Find(files, name) = Unset
             THEN Walk(files, Front(queue), visited)
             ELSE Walk(files, Front(queue) \o Find(files, name).inherits, Append(visited, name))

PreseededCacheEntries(files, opts) ==
    LET walk == IF opts.preset = Unset THEN <<>> ELSE Walk(files, <<opts.preset>>, <<>>)
    IN  FoldLeft(LAMBDA out, name : Push(out, Find(files, name).values),
                 CommandLine(opts.rawArgs), walk)

ExpandPresetMacros(dir, preset) == <<dir, IF dir = PerPreset THEN preset ELSE Unset>>

\* The first binaryDir on the way; Unset is an error.
PresetBinaryDir(files, preset) ==
    LET having == SelectSeq(Walk(files, <<preset>>, <<>>),
                            LAMBDA name : Find(files, name).binaryDir # Unset)
    IN  IF having = <<>> THEN Unset
        ELSE ExpandPresetMacros(Find(files, having[1]).binaryDir, preset)

\* A -B of the raw arguments before the preset, whether CMake will get it or not.
ResolveBuildDir(files, opts) ==
    LET raw == Dirs(opts.rawArgs)
    IN  IF opts.buildDir # Unset THEN <<opts.buildDir, Unset>>
        ELSE IF raw # <<>> THEN <<raw[1].value, Unset>>
        ELSE IF opts.preset # Unset THEN PresetBinaryDir(files, opts.preset)
        ELSE <<Default, Unset>>

DashB(dir) == <<[opt |-> "-B", name |-> Unset, value |-> dir]>>

\* Slip: a build directory is the preset's own affair.
SlipCMakeArgs(files, opts) ==
    [preset |-> opts.preset,
     args |-> IF opts.preset # Unset THEN <<>>
              ELSE IF opts.rawArgs # <<>> THEN opts.rawArgs
              ELSE DashB(ResolveBuildDir(files, opts)[1])]

\* What record() runs CMake with, beside its own -S and trace options: with a
\* preset no raw argument, and with raw arguments nothing else.
CMakeArgs(files, opts) ==
    [preset |-> opts.preset,
     args |-> IF opts.preset # Unset
              THEN IF opts.buildDir # Unset THEN DashB(opts.buildDir) ELSE <<>>
              ELSE IF opts.rawArgs # <<>> THEN opts.rawArgs
              ELSE DashB(ResolveBuildDir(files, opts)[1])]

-----------------------------------------------------------------------------
(* CMake: a preset's own value, else that of the first preset it lists     *)
(* that has one; over them the last -D of a name; a null hides and is no   *)
(* entry.  `given` is what CMakeArgs makes; a preset may be in its words.  *)

RECURSIVE Inherited(_, _), InheritedDir(_, _), Lineage(_, _)
Inherited(files, name) ==
    FoldLeft(LAMBDA out, parent : out @@ Inherited(files, parent),
             Find(files, name).values, Find(files, name).inherits)

InheritedDir(files, name) ==
    FoldLeft(LAMBDA dir, parent : IF dir # Unset THEN dir ELSE InheritedDir(files, parent),
             Find(files, name).binaryDir, Find(files, name).inherits)

\* The presets a preset is made of.
Lineage(files, name) ==
    {name} \cup UNION {Lineage(files, parent) : parent \in ToSet(Find(files, name).inherits)}

CMakePreset(given) ==
    LET words == SelectSeq(given.args, LAMBDA a : a.opt = "--preset")
    IN  IF words # <<>> THEN Last(words).value ELSE given.preset

CMakeEntries(files, given) ==
    LET inherited == IF CMakePreset(given) = Unset THEN <<>> ELSE Inherited(files, CMakePreset(given))
        all == FoldLeft(LAMBDA out, d : (d.name :> d.value) @@ out, inherited, Defs(given.args))
    IN  [x \in {y \in DOMAIN all : all[y] # Null} |-> all[x]]

\* Unset: the directory CMake is run in.
CMakeBuildDir(files, given) ==
    LET preset == CMakePreset(given)
    IN  IF Dirs(given.args) # <<>> THEN <<Last(Dirs(given.args)).value, Unset>>
        ELSE IF preset = Unset THEN Unset
        ELSE IF InheritedDir(files, preset) = Unset THEN Unset
        ELSE ExpandPresetMacros(InheritedDir(files, preset), preset)

\* How often a name is given a value.
Givers(files, given, x) ==
    Cardinality({p \in IF given.preset = Unset THEN {} ELSE Lineage(files, given.preset) :
                    x \in DOMAIN Find(files, p).values})
    + Cardinality({i \in DOMAIN Defs(given.args) : Defs(given.args)[i].name = x})

=============================================================================
