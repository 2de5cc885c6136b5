# Verification of cmakedb

cmakedb records one configure of a CMake project into a SQLite database (the
trace of every executed command, the syntax trees of the files it names, the
build graph of the File API) and answers questions from it: lints, provenance,
graph differences, and codemods that are verified by recording again. This
directory holds TLA+ models of the parts of it whose correctness depends on
order, failure and interleaving, their TLC runs, and TLAPS proofs. Paths below
are relative to the repository.

## The system

| component | code | state | operations | what makes it correct |
|---|---|---|---|---|
| trace replay | `crates/cmakedb-db/src/ingest/dataflow.rs` | scope stack with a variable table per scope, cache, environment, definitions, pending scope; rows of `scopes`, `var_writes`, `var_reads` | one call of the event closure per trace event, and the end of the trace | each read resolves to the write CMake took the value from; the stack follows the call depth; tables agree with rows; a right recording is not refused |
| trace scanner | `ingest/trace.rs` | a line buffer | next event | every command line becomes one event, in order |
| ingestion | `ingest/mod.rs` | one SQLite transaction | parse, insert, commit, reindex | all of a recording or nothing |
| recorder | `crates/cmakedb-record/src/lib.rs` | `trace.jsonl`, the File API reply, the database file | `record()` | trace and graph come from one configure; a failure leaves no recording to open |
| fix loop | `crates/cmakedb-record/src/verify.rs` | source files, recorded and verification database | `apply_and_verify` | all planned edits, verified, or none; no edit of the user overwritten |
| graph comparison | `crates/cmakedb-db/src/diff.rs` | none | `diff`, `graph_isomorphism_diff` | reports a difference exactly when there is one |
| patches | `crates/cmakedb-patch/src/lib.rs` | none | `apply` | refuses changed text; edits do not overlap |
| database | `crates/cmakedb-db/src/lib.rs`, `schema.rs` | the file | `create`, `open` | opens only recordings |
| matrix | `crates/cmakedb-cli/src/matrix.rs` | one database per preset | record each preset, intersect, gate | presets do not disturb each other; exit 0 means clean |
| lint pipeline | `crates/cmakedb-cli/src/main.rs`, `baseline.rs`, `config.rs` | the baseline file | filter, `--also`, baseline, overrides, gate | a finding is lost only by a named rule |
| language server | `crates/cmakedb-lsp/src` | open buffers, path of the database | initialize, open, change, code action | offers nothing computed from other text than the buffer |
| File API | `ingest/fileapi.rs` | none | read a reply | targets and resolved requirements as CMake has them, each with its event |
| passes over targets | `crates/cmakedb-passes/src/linkgraph.rs`, `redundantlinks.rs`, `provenance.rs`, `overshare.rs`, `dircommands.rs`, `shadowedreqs.rs`, `crates/cmakedb-cli/src/graph.rs` | none | queries over links and requirements | what they call redundant is; what they explain is so in CMake |
| modernize planner | `crates/cmakedb-passes/src/modernize.rs` | none | plan deletions and insertions | a plan names every target a command reached, and its edits keep the rest of the file |
| passes over variables | `clobbers.rs`, `singleuse.rs`, `aliasvars.rs`, `scope_leaks.rs`, `ordering.rs`, `undefined.rs`, `noopcalls.rs`, `history.rs` | none | queries over reads and writes | what they say was read was read; what they advise is harmless |
| passes over conditions | `whynot.rs`, `constconds.rs`, `dead.rs` | none | evaluate conditions of code that did not run | agreement with CMake's `if()` |
| parser | `crates/cmakedb-syntax/src` | none | parse | byte ranges of commands and blocks |
| reports | `explain.rs`, `profile.rs`, `deps.rs`, `graph.rs`, `report.rs` | none | print | formatting and sums |

The recorder runs CMake and calls ingestion, which calls the replay. `matrix`
and the fix loop call the recorder; the fix loop compares the new database with
the old by the graph comparison. The language server shares nothing with the
recorder but the database file, which it opens at moments of its own. The user
edits sources at any time.

What is hard: function returns, ends of files and `endblock()` leave no event,
so the replay closes scopes late, by depth and byte range; `record()` touches
four files that other jobs share and can fail or be killed between any two; the
fix loop holds the old texts in memory while CMake runs for minutes; the
language server reads what the recorder is replacing; links and requirements are
collected while calls execute, and resolved when aliases and targets defined
later are known; a pass argues from such rows what CMake would do without a
command. `PROJECT.json` lists every
such hazard at its line, with the properties that cover it or the reason why none
does yet.

## The modules

Six groups. `GraphDiff` is shared by the fix loop and the codemods, `PatchText`,
`Presets` and `GraphDiff` have no state of their own.

**Replay.** `ProjectText` has the names, files and `block()` nodes of a project.
`ScopeReplay` is the closure of `dataflow.rs::run` for one event: close loop,
pending scope, `-D` seeds, definitions, reads, writes, snapshot check, `block()`,
next pending scope, in that order in one action `Replay(e, dump)`; `Finish` is
the end of the trace. A write is known by its row in `var_writes`, a scope by
its row in `scopes`. `CMakeExec` says how CMake itself executes, by the rules
design.md, the code and its tests take as ground truth; CMake is not part of
the repository, and this module is marked external. `Recording` runs the two
side by side: each CMake command is an action that emits its event to the
replay, and returns and ends of blocks are silent. The code reads the trace
after the configure. It sees nothing but the events in their order, so running
both in lock step loses nothing.

| in `ScopeReplay` | in `dataflow.rs` |
|---|---|
| `Closes`, `Keeps`, `CloseRows` | the close loop, 279-309 |
| `Opens`, `OpenedScope`, `Synthesized` | opening the pending scope and its synthetic row, 311-371 |
| `Seeds` | `-D` entries, 394-405 |
| `Resolves`, `RecordReads` | reads, 443-533 and `lookup_var` |
| `EffectiveCmd`, `Target`, `Written`, `CacheWritten`, `EnvWritten`, `RecordScope` | writes, 545-621 |
| `SnapshotMismatches` | `--capture-scopes`, 623-667 |
| `BlockScope` | `block()`, 676-707 |
| `ComputePending` | `compute_pending`, 800-862 |

`VariablePasses` has six passes over variables as queries over the rows the replay
wrote (`Clobbers`, `SingleUseVariables`, `PureAliases`, `ParentScopeRoundTrips`,
`ScopeLeaks`, `OptionAfterUse`, `UndefinedReads`). `Recording` keeps for them, in `log`, the
rows of `events`, each with what CMake read at that moment. A command has a site of
its own and runs there once, all code is executed, and no `if()` surrounds
anything: the guards of the passes for loops, unexecuted code and `if(NOT X)` around
a declaration, each of which only takes findings away, are not there.

**Recorder.** `Recorder` has `record()` as a sequence of steps per job: launch
CMake, CMake ends or fails, remove the stale database, create the new one,
parse, commit, reindex; with failures of each, kills, readers that open the
database (`Db::open` creates what is missing) and edits. Sources are a version
number: what matters of them is which version a file was written from.
`RecordingStore` is what a user may rely on: a database holds nothing or a
recording of one configure, and it changes as a whole. `Recorder` implements it
by the mapping at its end, which forgets files that are no recordings.

**Fix.** `GraphDiff` has both comparisons of `diff.rs`. `FixLoop` is
`apply_and_verify`: the reading loop with its hash check, the writing loop, the
configure, the ingestion, the comparison, the promotion, the rollback, with every
early return. `VerifiedFix` is the promise: a verified fix of every planned file
in one step, or nothing; or, after an error the code does not roll back after, some
planned files rewritten and at most one torn, all else untouched, and the fix
known to have broken off (`broken`). The mapping shows, while a fix runs, the
texts it has read.

**Session.** `Session` is the language server with an editor, a recorder and the
disk around it. `initialize` looks for the database once; an opened or changed
text is stored, the database opened (`Db::open` creates what is missing), pass
after pass queries it, and diagnostics are published; a request for code actions
gives the edits of a fix if every buffer the server has matches the recording. The
handlers await nothing before their answer and the server runs in one task, so they
do not interleave; the recorder, another process, does so between any two queries,
with the effects on the file that `Recorder` gives it. A connection keeps a file
that is removed under it (`conn`). The editor sends texts in order, may be ahead of
the server by a message and what it is handling, drops code actions it has typed
past, and tells the server neither of saves nor (as far as the server cares) of
closed files. There is one fix, of two files; applying it to the text it was
planned for gives `Fixed`, to another one `Garbled`.

**Lint gate.** `LintGate` goes from the findings of the passes to an exit status:
`lint` (passes enabled, `--path`, `--also`, `--baseline`, `--write-baseline`,
severity overrides, gate), the single-pass commands, and `matrix`, preset by
preset. A recording is the set of findings its passes make; recordings change
between commands, and the baseline file written by one lint is read by others.

**Configure.** `Configure` executes commands that define, link and change targets in
directories, functions, macros, files and `try_compile` projects, and has side by
side what ingestion collects of them (`targets`, `edges`, `reqs`: `collect_graph`,
`record_prop`, `finalize_graph` of `dataflow.rs`) and what CMake makes of them
(`world`, external). Over it stand the passes, as operators of its state:
`LinkPasses` (duplicate-links, cyclic-links with Tarjan's algorithm and the search for a
shortest cycle), `RedundantLinks` (with its search for an interface path), `Provenance`
(why-links, why-includes and why-flag) over `GraphView` (the edges of `graph`), `Overshare`,
`DirCommands` (directory-commands, shadowed-requirements), `FileApi` (the reply and
its rows) and `Modernize` (the plan of each codemod, and the configure after it). Pure
algorithms are `PatchText` (the edits of a plan, their merging and application to a
text of symbols) and `Presets` (the arguments `record()` gives CMake, the cache entries and
the build directory it goes by, and the list of presets, against what CMake makes of these
arguments and of inheritance). `MCConfigure` puts them together; its variable `asked` is
the input of an algorithm without state.

The `MC` modules give the constants their values. Definitions whose name starts
with `Slip` are plausible mistakes, used by nothing: replacing the definition
they stand for by them must break the property paired with them in
`PROJECT.json`.

## The runs

All pass unless said otherwise. Deadlock is checked in `session` and `lint` only: every
other system ends (a trace is over, the jobs are done, a fix has ended, a project
is configured).

| run | shows | size |
|---|---|---|
| `replay_any` | types, stack discipline and agreement of tables and rows of the replay on every trace, also such as CMake would not write | 4 events, 3 depths, one name, one block, a file that joins and one that does not |
| `scopes` | reads resolve as in CMake, no recording is refused, scopes nest, `try_compile` is contained, and what the variable passes report is true | five projects: calls, `cmake_language(CALL)`, subdirectories and snapshots (6 events); nested blocks in files and macros (5); cache, defaults, environment and `try_compile` (5); two variables with `PARENT_SCOPE` and a procedure (5), or with declarations, files and `try_compile` (4) |
| `record_jobs` | own inputs, one configure per recording, success stays, failures show, refinement of `RecordingStore` | 3 jobs, 2 databases, 1 trace file, 2 build directories, 2 edits |
| `fix_loop` | where every file stands at each step, promotion of the same graph only, no edit overwritten, refinement of `VerifiedFix` | 2 files, 2 edits each, one fix that changes the graph, every fault |
| `lint` | a baseline ratchets and a fresh one hides what its writer reported; single passes agree with `lint`; `matrix` reports what all presets show and exits 0 only when clean | 3 rules (one a user's), 2 sites, 3 presets of which 2 share a file |
| `graph` | collected links and requirements are CMake's; every pass over targets and every plan against CMake's links, directories and closures; both graph comparisons; edits; presets and command lines | nine projects of up to 4 targets and 4 free commands in up to 3 scopes; every pair of graphs of 2 targets; every text of 3 lines; presets with 3 levels of inheritance, each with 96 combinations of `--preset`, `--build-dir` and raw arguments (346,000 states together) |
| `session` | diagnostics from one recording, honest stale marks, a fix offered whole and exactly when it fits and applied to nothing else, an answer to every change | 2 files, 2 texts, 2 edits, 1 recording beside the first, 1 message waiting |
| `scopes_block_loop` (violated) | a `block()` in a loop stays open for its own next round | |
| `fix_write_error` (violated) | a failing write leaves unverified rewrites | |
| `fix_overwrites` (violated) | a save during a fix is overwritten | |
| `modernize_system` (violated) | a fix loses SYSTEM and is verified | |
| `session_fix` (violated) | a fix is applied to a file that is not open and has changed on disk | |

Bounds. `MaxEvents` 5 or 6 is enough for a definition, a call, a write in it, a
return and a read, or for two blocks with a write in each and a read after; depth 3
has a frame between the innermost and the root, which `PARENT_SCOPE` and the close
loop over several frames need. One variable suffices because the tables of
different names never interact, except through one synthetic row, for which the
callee's parameter is that variable. The variable passes relate two names, so
their projects have two. `MaxEdits` 2 lets a file change before and
after a job reads it. Three jobs are two that share a database and one that
shares only the trace and a build directory. In `session`, two edits are one that makes a
buffer differ from the recording and one that takes it back, or a second file, and a
recording beside the first is one that a handler can have under it twice. In
`graph`, three libraries make chains, diamonds and rings, of which a ring
through a diamond needs four commands; two scopes beside the root are a
subdirectory of a subdirectory, or one called by a function; one project sets the
properties again that other commands filled. In `lint`, two
findings of one rule at one site, and one elsewhere, are what a key, a path filter or an
override can confuse; three presets are two that collide and one that must agree. A command line departs
from the bare command in two options at most; a threshold that does not parse is given
alone or with `--write-baseline`.

`record_jobs` has one database that readers poll and that cannot be removed
(`Polled`, `Stuck`): every other property holds of it too, and `FailureShows` of
the other one.

Known divergences of the replay. The constant `Irregular` of `Recording` names
what a project may do that the replay is known to get wrong; the passing runs
have it empty, and each member has been seen to break `ReadsResolve` or
`TryCompileContained`. `block_again` is the violated run above. Of the others,
`unset_shadow` is `unset(X)` in an inner scope while an outer one has `X`: the next
read finds the outer write, where CMake has none (dataflow.rs:613); `parent_at_top` is a `PARENT_SCOPE` write at the top of a
`try_compile` project, which reaches the caller's table (dataflow.rs:572);
`macro_param` a file included from a macro that reads a variable named like the
macro's parameter (`lookup_var` finds the argument); `soft_after_unset` an
`option()` after `unset(CACHE)` (the unset counts as an entry, so the default is
ignored, dataflow.rs:595).
Apart from them one documented approximation remains: a `PARENT_SCOPE` write is
seen by later reads in the scope that made it (docs/user-guide.md:93). Reads it
affects are marked `covered` and not compared.

Known divergences of the variable passes. From the approximation of `PARENT_SCOPE`:
after `set(V new PARENT_SCOPE)` alias-variables calls `set(V ${V} PARENT_SCOPE)` a
no-op, where CMake writes the old local value back over `new`; `VariableFindingsHold`
claims nothing of reads the approximation covers (`vague`). undefined-reads joins the
scope of a read and never looks at it: reads inside a `try_compile` project are reported
although undefined.rs:27-29 says they are not.

Known divergences of the passes over targets. These are left out of the properties by
a named condition, or of the inputs.

- redundant-links takes an INTERFACE link T -> A for the head of another route to B.
- shadowed-requirements calls a PUBLIC or INTERFACE declaration, or an entry of a
  directory, redundant when the target itself has the value elsewhere; removing it
  changes the consumers, or the other targets, against docs/user-guide.md:1035-1037
  ("the build is identical either way"). Dependencies linked INTERFACE count as suppliers, and
  relative include directories are compared as written.
- directory-commands lists a command whose words expand to nothing with all the targets it
  could reach; CMake gives them nothing. `DirAssumption` leaves such calls out.
- A plan of `modernize` leaves out targets of the same directory defined before a command
  that reaches back, a command executed more than once with different effects, and targets
  that one shared node defines; the verification is what refuses these plans. Plans come in the
  order of a `HashMap` within one codemod.
- The source directory of a scope is wrong when `add_subdirectory()` is called by a file
  outside its directory; a plan then names a directory that does not exist.
- `tgt_edges` does not tell a property that is set from one that is appended to, so rows
  that hold no longer remain; passes err towards more links.
- overshare compares an include directory, as it is written, with the start of the paths of
  headers (overshare.rs:110-123): a relative one never matches and so counts as unused.
  `OvershareSafe` takes as given which target uses which directory.
- A node that `delete_node_patch` deletes as the last of a file without a final newline takes the
  last symbol of the file for its newline: a bare `#` after it goes too.
- A row of the File API gets the first event at its line, so two calls on one line share it.

Known divergences of presets. record/lib.rs:226-228 says "nearest definition winning"; the
work list is popped last in first out, so of two parents the last one's ancestors come
first. A `null` entry, which unsets, is seeded as a value; of two `-D` of one name the first wins, in
CMake the last; `binaryDir` is found by the same walk. `PresetSeeds` claims the
names of all, the values of names given once, and values and directory of chains.

Known divergences of the command line. `record()` gives CMake with a preset no raw argument
(record/lib.rs:81-94), yet goes by them: a raw `-D` is seeded (238-254) though
226-228 says the entries exist before the first event, and a raw `-B` is taken for the
build directory (324-334), so the File API is read from a directory CMake does not configure. `.cmakedb.toml` may name the preset
(main.rs:357), so the user need not have typed it. Without a preset, raw arguments are all
CMake gets: `--build-dir` beside them is not passed on; without a `-B` among them CMake
configures where it is run and the recorder reads `build` in the source directory; and
a `--preset` among them is CMake's but not the recorder's. `PresetSeeds` is about the
options that are left (`Understood`).

Known divergences of the others. `Db::open` creates a missing file and takes one
without tables for a database (db/src/lib.rs:70-80), so a reader that polls makes a
failed recording openable, against record/src/lib.rs:180-182; `FailureShows` speaks
of databases nobody polls (`Polled`) and whose old file can be removed (`Stuck`; the error of
`remove_file` is ignored, record/src/lib.rs:155). The server has no `did_close`: with
`Discards = TRUE` and three edits `NothingGarbled` fails without any checkout, when a
buffer is taken back to the recorded text and closed unsaved over a newer file.
A server started before the first recording never finds one.
A user's SQL pass may have the id of a builtin one, which the code does not refuse and
`LintAssumption` excludes (`Builtin \cap User = {}`): findings are then confirmed, ignored and
given severities by either's settings, and `SinglePassAgrees` would not hold.

Fairness. Only `Session` has some: weak fairness of each step of a handler, which is
what running the server's task means. Users and recorders may stop at any moment.
The other parts are sequential programs that wait for nothing but CMake, and whether
CMake ends is not theirs, so no liveness is stated of them.

## The proofs

For all values of the constants, so for traces, jobs, files, presets and edits of any
number. Each theorem comes from an invariant that is inductive; it is named here with
the reason why the property alone is not.

**Replay of any trace** (`ScopeReplayProofs`): the events are well
formed and otherwise arbitrary, nothing of CMake is used.

- `ReplayTypeOK`: types.
- `StackDiscipline`: going up the stack the depth never falls, rises unless the upper
  scope is a block, and no scope deeper than the last event is open. It is inductive only
  together with the types and with the fact that after the first event the stack is not
  empty (`DisciplineInv`). `StackDisciplined` is both halves. Each event keeps a prefix of
  the stack and pushes at its own depth (`Shape`), which is proved first of the whole
  step (`StackStep`).
- `TablesAreRows`: what a scope's table, the cache or the environment holds of a name is
  a row that writes that name, to that scope (`Match`).
- `ScopesNest`: `TreeInv`, that the scopes without an end are those on the stack, each
  with the one below it as parent, and that no row is younger than the last event (`Paced`).
- `TryCompileIsContained`: `ContainInv`. It needs that scopes of try_compile are opaque,
  that rows are in the order of events (`Dated`) and, at every row of a table below the
  project, in the cache or in the environment, that it is older than the project
  (`Sealed`). It assumes that no event raises a variable out of a try_compile
  (`RaisesWithin`): an arbitrary trace may.

**Replay of what CMake runs** (`RecordingProofs`), for every project with
`Irregular = {}`, that is without the five constructs listed above that the replay
gets wrong. Each of them breaks `ReadsResolve` or `TryCompileContained`, so none can be
allowed here; what remains is everything else `CMakeExec` executes, nested to any depth.

- `ReadsAreCMakes`: every read resolves to what CMake reads. `NoAlarmIsFalse`: the check
  of `--capture-scopes` refuses no correct recording. `RecordingContains`: as above,
  without `RaisesWithin`, which CMake's rules imply. `RecordingIsSound`: the
  other properties of the replay, for these projects.
- The invariant is `RecordingInv`; at its centre `Mirrors`. The replay closes a scope only
  when the next event shows that it has ended, so the relation is not between CMake's
  stack and the replay's but `Due`, the stack as the next event will find it: `Structure`
  says that it is CMake's call stack frame by frame (for a frame just entered, whose
  scope the next event opens, the pending scope), and which block nodes CMake
  has left (`Stale`). The tables agree less simply. CMake copies a variable into a
  function's table when it is called; the replay searches outwards. `Data` says that a row
  in a table is CMake's, that what CMake has written in a frame has a row, and that what
  CMake has only as a copy is the innermost row further out (`Holding`), unless a
  `PARENT_SCOPE` write has left the value approximate (`Vague`), which the code documents
  and `ReadsResolve` allows. `CacheAgrees` differs from equality for a name after
  `unset(CACHE)`, of which the replay keeps the row of the unset.

**Variable passes** (`VariablePassesProofs`), for the same projects.

- `VariableFindingsAreTrue`: what the six passes report of the rows is true of the execution
  CMake made, whatever commands it ran and in whatever order. `PassesInv` adds to
  `RecordingInv` what the passes rely on without looking at it:
  - `RowsOk`: a scope comes after its parent and has the kind of CMake's frame, a row is of an
    event there was and a scope there is. The passes see only the `scopes` table. From these,
    and from `Mirrors`, the path up the table from the scope of an event is exactly the scopes
    of CMake's frames at that moment (`ScopesTold`), which scope-leaks and
    alias-variables need.
  - `LogOk`, of every event ever logged: the row it is joined to is the value CMake read
    (`ReadTrue`, from `ReadsResolve`; the passes read the row long after), a command of a macro
    wrote to the caller's scope (`LeakTrue`), and a `PARENT_SCOPE` write of what came from
    outside the function found the caller's value (`RaiseTrue`).
  - `Unchanged`, of every `set()` at the top level: a variable nobody has written since has
    the value it had then, in that scope and every one further in, as long as the
    scope is open. This is what makes an alias harmless to replace (`AliasTrue`), and the reason
    for the passes' check that nothing rewrote the target. Reads inside a
    `try_compile` and reads the approximation covers are excepted, as in the property.

  TLC checked what `PassesInv` adds on the projects of `scopes` (1.1 million states) before it
  was proved.

**Directories** (`ConfigureProofs`), for any projects, so for calls, scopes and targets of any
number and in any order.

- `DirectoriesKept`: CMake hands a property down as it goes, to the subdirectory that is
  entered and to the target that is created, while the passes come later and have only the
  parents of scopes and the order of events. `DirectoryInv` relates the two:
  - `TreeInv`: the scopes around an open one (`Chain`) are those below it on the stack, in
    ascending order, and CMake's open directories are those of them that are
    directories or scratch projects.
  - `PropsInv`: an open directory has exactly the items that the commands of the
    directories around it gave, up to a scratch project (`DirOk`).
  - `TargetsInv`: a target has of every such command either all items or none, and has them
    if the command came first in a directory around it, or reaches back and is in its own
    (`Given`, `TargetOk`). It also says what target names, types and events the rest relies on.

  The properties alone are not inductive: they speak of targets, whose items come from
  directories, which copied them from others. TLC checked `DirectoryInv` on the projects of
  `graph` before it was proved. The search up the tree is a recursive
  function; that it has a solution, and what that is, is proved from the well-foundedness of
  numbers (`UpSolved`, `ChainIs`).
- `AffectedTargetsAreExact`: what directory-commands lists; `PlainPlansSurvive`: what
  modernize plans for a plain command. Both follow from the invariant without another step of
  the configure. The second uses that a target holds all items of the deleted call or none,
  so that the values the plan gives are those it takes, whatever else the target has.

**Rows** (`ConfigureProofs`), for any projects. Ingestion reads the words of a call from
left to right and remembers the last keyword; what CMake makes of a word is told by the
keyword nearest before it.

- `RowsKept`: `RowsInv`. Every row collected is a link or requirement that CMake has at that
  moment, or of which a property was set again since (`LinkRowOk`, `ReqRowOk`), and every one that
  CMake has from a call about a target has its row (`LinksInv`, `ReqsInv`). Aliases stand for
  real targets only, so that names are resolved in one step, now and at the end
  (`NamesInv`). The properties alone are not inductive: they speak of rows whose source the
  recording knows, after the names are resolved. That the fold over the words gives a word
  the keyword before it is `WordsWithVisAre`, from the well-foundedness of numbers as above.
- `RowsAreLinks`, `RowsAreRequirements`: `tgt_edges` and `usage_reqs`; together they are
  `RowsAreCMakes`, of the property `RowsMatchCMake` that `graph` checks.
- `ShadowedAreHarmless`: what shadowed-requirements reports a target compiles with also
  without the declaration. Of the three routes to a value, a directory's is CMake's by
  `DirectoryInv`, and a dependency's by `RowsInv`, as long as nothing set its property again.
  The route that remains is another event than the one removed, because the commands or
  the targets they name differ.

  `AsWritten`, the premise, says of the rows of `usage_reqs` and `tgt_edges` for consumers
  that no property they fill was set again: that is what the table cannot tell (above).
  It is a condition on the commands and not on what came of them, which would have let a
  pass off whose rows were wrong.

**Links** (`ConfigureProofs`), for any projects. The searches of the passes and CMake's own
(`Closure`) are iterations of as many steps as there are targets. What they share is proved
once: an iteration that stays in a set has a solution and stays there (`IterationSolved`,
`IterationStays`), a set that grows in a finite one is closed in the end (`GrowthCloses`), and a
set with the exports of its members that holds what a target links holds its closure
(`ClosureWithin`). With `RowsInv` these give:

- `RedundantAreStillLinked`: every target on a chain that redundant-links finds is in what the
  target still reaches. The chain never comes to the linking target itself (`MayVisit`), so no
  export that the removal takes away is used; each of its rows propagates, so that CMake
  exports the link, by `AsWritten` (`ChainsWithin`).
- `OvershareIsSafe`: a target that is no consumer links only targets that do not
  re-export, and from these no exported link leads to one that does. Rows that hold no
  longer only make more consumers, so no premise is needed.
- `GraphKeeps`: what `graph --target` reaches holds the closure of the target; this is
  the conjunct `GraphKeepsClosure` of `LinksExplained`.

**Recorder** (`RecorderProofs`), whatever fails, is killed, edited or read in between.

- `RecorderSafe`, `RecordingIsOneConfigure`: `OneConfigure` speaks of databases only; it is
  inductive with `OwnInputs`, that the trace and the reply a running job is going to
  read are its own. `RecordingIsOneConfigure` assumes `Stray = {}`: CMake configures the
  directory the reply is read from. For which options it does is the question of `PresetSeeds`;
  for the others see the divergences of the command line.
- `RecorderImplementsStore`: the refinement, from the same invariant and assumption.
- `SuccessIsKept`, `FailureIsSeen`: each from a stronger statement, which holds from the
  commit or failure on until another job for the database is past its configure
  (`RecordingKept`, `FailureKept`, `Passed`).

**Fix** (`FixLoopProofs`).

- `FixSafe`: `FixInv`, that is types, what the fix has read (`HasRead`), and, while
  nobody edits during it, where each file stands (`OnTrack`).
- `FixPromotesSameGraph`: whoever edits and whatever fails.
- `FixKeepsEdits` and `FixKeepsPromise` (the refinement of `VerifiedFix`): assume that nobody
  edits while a fix runs; `fix_overwrites` shows why.
- `DiffIsFaithful`: `diff` is empty exactly on equal graphs.

**Session** (`SessionProofs`), for any number of files, texts and messages.

- `DiagnosticsFromOneRecording`: with the invariant `Pinned`, that what the passes have
  seen is still what the connection shows. It needs that there are texts on disk, so
  that a committed recording is one, and that a handler which has answered leaves nothing
  behind.
- `SessionTypeOK`: with the fields a message on its way has.
- `StaleMarksHonest`: `SyncInv`, that the last text on its way, or else the one the server
  has, is the editor's (`InStep`), that an answered buffer has diagnostics of its text
  (`Current`), and that every mark is right about that text (`Marked`).
- `FixesFit`: assumes that files change through the editor only (`Outside = {}`) and no
  buffer is discarded (`Discards = FALSE`); `session_fix` and the note above show what
  happens otherwise. Its invariant says that at most one request is under way, and nothing was sent
  after it if the editor still wants the answer (`OneRequest`), that a file the server has
  never heard of is as first recorded (`Known`), and that an offer the editor holds was
  planned for the texts it has (`MenuFits`).
- `OffersAreExact`: on the same assumptions, from the same invariant: when a request the
  editor still wants answered is handled, nothing is on its way, so comparing what the server was
  told is comparing what the edit would meet (`MatchesNow`), and files it was never told of are as
  recorded.

**Lint gate** (`LintGateProofs`).

- `LintCorrect`: `LintInv`, that databases hold recordings and a running `matrix` has
  reported nothing yet, that the baseline holds only keys its writer considered
  (`Considerate`), what a writing lint has hidden (`Written`), and `SinglePassAgrees`. From
  it follow `SinglePassesAgree` and the two action properties `BaselineRatchet` and
  `RefreshedBaseline`, by the lemma that severity overrides keep keys.
- `MatrixCorrect`: `MatrixInv`, that a database no later preset has taken holds what its
  preset recorded (`OwnRecordings`), and that no preset is skipped as long as none fails
  (`AllRecorded`). From it `MatrixReportsAreCommon` and `MatrixZeroIsClean`.

`RecorderAssumption`, `FixAssumption`, `SessionAssumption`, `LintAssumption`,
`ConfigureAssumption`, `DirAssumption` and the
assumptions of the replay modules say that constants have their types, that markers
such as `None` are no values and no words, that files are finitely many, that a list of presets
is not empty, that a block is in a parsed file and not around itself, that
procedures are not named like commands, that the directory of a project is opened once,
that a directory command gives something, that rules of builtin passes and of users differ, and that no target and no value of a property is called
`SYSTEM`, which is a keyword. Two assumptions are on the use of the code. `MayStart`
lets one recorder run at a time, as `matrix` and the fix loop do; nothing stops a
user from starting two. And the events of a trace have the file of the code they execute.

Model-checked only: the session's liveness `ChangesAnswered` (liveness under fairness and
`ENABLED` are out of the prover's reach), and of `graph` `DuplicatesExact`, `CyclesExact`, `LinksExplained` (but for
`graph --target`) and `PresetSeeds`: `LinkPasses`,
`Provenance` and `Presets` have `RECURSIVE` operators, for searches of the code that go back and
forth, and what these find on every graph is an induction over data. What `graph` asks of `diff` and of
patch texts (`ComparisonsExact`, `PatchesKeepTheRest`) has no state; for `diff` it is contained
in `DiffIsFaithful`.

## Not modelled

- Of the modelled parts: the words of a command that `extract_writes` and
  `condition_reads` find (the events carry the names); rows of files and syntax trees;
  SQLite itself (a transaction commits or not); two recorders started by hand in one
  directory; the text of reports, plans and diffs; paths and generator expressions, which
  are values compared for equality.
- Of the language server: hover, definition and the tree requests, which only read;
  the removal of the whole `.cmakedb` directory, after which nothing is published; files
  the recording does not know.
- `whynot`, `constconds` and `dead`: they evaluate conditions over the syntax trees of
  code that did not run, by the rules of `if()`. `noopcalls` depends on the effects of
  every CMake command; `history` and the remaining small passes are single queries.
- The parser, and the readers of warnings and dependency files: text, with little state.
  Reports, `explain`, `profile` and `deps`: formatting and sums.

## Plan

Done: `ScopeReplay`, `CMakeExec`, `Recording` and `VariablePasses`; `Recorder` with
`RecordingStore`; `FixLoop` and `GraphDiff` with `VerifiedFix`; `Session`; `LintGate`;
`Configure` and the passes and algorithms over it. Left, in this order:

1. Proofs: duplicate-links, and the searches of `LinkPasses` and `Provenance` as recursive functions.
2. Loops and `if()` in `Recording`, for the guards of the variable passes and for `dead` and
   `constconds`; then `whynot`.
3. The warnings automaton and the self time of `profile.rs` as pure algorithms.
