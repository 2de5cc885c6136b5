------------------------------ MODULE LintGate ------------------------------
(***************************************************************************)
(* From the findings of the passes to an exit status: `lint`, the          *)
(* single-pass commands (`dead`, `clobbers`, ...) and `matrix`             *)
(* (crates/cmakedb-cli/src/main.rs, matrix.rs, baseline.rs, config.rs).    *)
(*                                                                         *)
(* A recording is abstracted to the set of findings its passes make; two   *)
(* findings of one rule at one site differ in the name they are about.     *)
(* The recordings of a database file change whenever somebody records,     *)
(* and the baseline file is written by one invocation and read by others.  *)
(***************************************************************************)
EXTENDS Naturals, Sequences, FiniteSets

CONSTANTS
    Builtin,       \* rules of builtin passes
    User,          \* rules of the SQL files in .cmakedb/passes
    Sites,         \* declaration sites (file and line)
    Prefixes,      \* arguments of --path
    Below,         \* prefix -> the sites under it
    Reserved,      \* names the default ignore-patterns match
    Findings,      \* the findings there may be
    Recordings,    \* the sets of them a recording may show
    Options,       \* command lines
    Configs,       \* the contents of .cmakedb.toml
    DbFiles,       \* database files
    TraceDb,       \* the one of them `lint` reads
    Presets,       \* configure presets
    DbOf,          \* preset -> database file of `matrix`
    PresetLists,   \* what `matrix` is asked to record
    None

Rules == Builtin \cup User
Severity == 1..3     \* note, warning, error
Bad == 0             \* a severity that does not parse

\* A row of a SQL pass without a message is no finding: its name is None.
IsFinding(f) == /\ f = [rule |-> f.rule, site |-> f.site, name |-> f.name, sev |-> f.sev]
                /\ f.rule \in Rules /\ f.site \in Sites /\ f.sev \in Severity
                /\ f.name = None => f.rule \in User

Option == [path : SUBSET Prefixes, also : SUBSET DbFiles, read : BOOLEAN, write : BOOLEAN,
           allowUser : BOOLEAN, failOn : Severity \cup {Bad, None}]

IsConfig(c) ==
    /\ c.enable \subseteq Rules /\ c.disable \subseteq Rules
    /\ c.failOn \in Severity \cup {Bad}
    /\ DOMAIN c.severity \subseteq Rules /\ DOMAIN c.ignore \subseteq Builtin

ASSUME LintAssumption ==
    /\ Builtin \cap User = {}
    /\ None \notin Rules
    /\ \A keys \in SUBSET (Rules \X Sites) : keys # None
    /\ {"none", "lint", "matrix"} \cap Builtin = {}
    /\ Below \in [Prefixes -> SUBSET Sites]
    /\ TraceDb \in DbFiles
    /\ DbOf \in [Presets -> DbFiles]
    /\ PresetLists \subseteq Seq(Presets) \ {<<>>}
    /\ Recordings \subseteq SUBSET Findings
    /\ Options \subseteq Option
    /\ \A f \in Findings : IsFinding(f)
    /\ \A c \in Configs : IsConfig(c)

-----------------------------------------------------------------------------
(* The passes under a configuration.                                       *)

PassEnabled(cfg, id) ==
    /\ id \notin cfg.disable
    /\ cfg.enable = {} \/ id \in cfg.enable

\* An empty list of ignore-patterns does not switch the defaults off.
PassConfig(cfg, id) ==
    IF id \in DOMAIN cfg.ignore /\ cfg.ignore[id] # {}
    THEN cfg.ignore[id] ELSE Reserved

RunPass(rec, cfg, id) ==
    {f \in rec : f.rule = id /\ f.name \notin PassConfig(cfg, id)}

\* User passes are SQL: they know no ignore-patterns.
RunSqlPass(rec, id) == {f \in rec : f.rule = id}

UserPasses(allowUser) == IF allowUser THEN User ELSE {}

RunEnabledPasses(rec, cfg, allowUser) ==
    (UNION {RunPass(rec, cfg, id) : id \in {q \in Builtin : PassEnabled(cfg, q)}})
    \cup (UNION {RunSqlPass(rec, id) : id \in {q \in UserPasses(allowUser) : PassEnabled(cfg, q)}})

\* One malformed row fails the whole lint.
PassesRun(rec, cfg, allowUser) ==
    \A f \in RunEnabledPasses(rec, cfg, allowUser) : f.name # None

FilterFindings(fs, paths) ==
    IF paths = {} THEN fs
    ELSE {f \in fs : \E p \in paths : f.site \in Below[p]}

\* Slip: the line is not part of the identity.
SlipKey(f) == <<f.rule, "line">>

\* The identity of a finding.
Key(f) ==
    <<f.rule, f.site>>

Keys(fs) == {Key(f) : f \in fs}

\* Slip: a single-pass command confirms with the enabled passes as well.
SlipOtherKeys(rec, cfg, single) ==
    Keys(RunEnabledPasses(rec, cfg, FALSE))

\* What another recording confirms: its builtin passes only.
OtherKeys(rec, cfg, single) ==
    Keys(UNION {RunPass(rec, cfg, id) :
                  id \in {q \in Builtin : IF single # None THEN q = single
                                          ELSE PassEnabled(cfg, q)}})

\* Slip: one recording that has it is enough.
SlipIntersect(fs, also, cfg, single) ==
    {f \in fs : also = {} \/ \E rec \in also : Key(f) \in OtherKeys(rec, cfg, single)}

IntersectWithRecordings(fs, also, cfg, single) ==
    {f \in fs : \A rec \in also : Key(f) \in OtherKeys(rec, cfg, single)}

OverridesParse(cfg) == \A r \in DOMAIN cfg.severity : cfg.severity[r] # Bad

ApplySeverityOverrides(fs, cfg) ==
    {IF f.rule \in DOMAIN cfg.severity THEN [f EXCEPT !.sev = cfg.severity[f.rule]]
     ELSE f : f \in fs}

\* The findings `lint` works on before the baseline is looked at.
Considered(rec, also, cfg, opts) ==
    IntersectWithRecordings(
        FilterFindings(RunEnabledPasses(rec, cfg, opts.allowUser), opts.path),
        also, cfg, None)

-----------------------------------------------------------------------------
VARIABLES
    recorded,   \* database file -> findings of the recording in it, None: no file
    baseline,   \* the keys in the baseline file, None when there is none
    matrix,     \* a `matrix` under way: what is left, and the outcomes so far
    last,       \* the invocation that ended last
    amnesty     \* history: the keys considered when the baseline was written

vars == <<recorded, baseline, matrix, last, amnesty>>

NoRun == [cmd |-> "none"]
NoMatrix == [asked |-> <<>>, left |-> <<>>, done |-> <<>>, fastFail |-> FALSE]

Init ==
    /\ recorded = [d \in DbFiles |-> None]
    /\ baseline = None
    /\ matrix = NoMatrix
    /\ last = NoRun
    /\ amnesty = {}

Idle == matrix = NoMatrix

\* `record`: whatever the project holds by now.
Record(rec) ==
    /\ Idle
    /\ recorded' = [recorded EXCEPT ![TraceDb] = rec]
    /\ last' = NoRun
    /\ UNCHANGED <<baseline, matrix, amnesty>>

Gated(fs, threshold) == \E f \in fs : f.sev >= threshold

Result(cmd, opts, cfg, reported, exit) ==
    [cmd |-> cmd, opts |-> opts, cfg |-> cfg, reported |-> reported, exit |-> exit,
     hidden |-> {}, wrote |-> FALSE, asked |-> <<>>, done |-> <<>>]

Threshold(opts, cfg) == IF opts.failOn # None THEN opts.failOn ELSE cfg.failOn

Sources(files) == {recorded[d] : d \in files}

\* Slip: the baseline gets what was suppressed as well.
SlipKeysToWrite(considered, kept) == Keys(considered)

\* --write-baseline snapshots what is left after --baseline.
KeysToWrite(considered, kept) ==
    Keys(kept)

Retain(fs, opts) ==
    IF opts.read THEN {f \in fs : Key(f) \notin baseline} ELSE fs

(***************************************************************************)
(* `lint`.  It fails before anything is written when a file it needs is    *)
(* missing or an override does not parse; a fail-on that does not parse is *)
(* noticed after the baseline has been written.                            *)
(***************************************************************************)
LintConsidered(opts, cfg) ==
    Considered(recorded[TraceDb], Sources(opts.also), cfg, opts)

Readable(opts, cfg) ==
    /\ None \notin Sources({TraceDb} \cup opts.also)
    /\ opts.read => baseline # None
    /\ OverridesParse(cfg)
    /\ PassesRun(recorded[TraceDb], cfg, opts.allowUser)

LintResult(opts, cfg, considered, kept) ==
    LET reported == ApplySeverityOverrides(kept, cfg) IN
    [Result("lint", opts, cfg, reported,
            IF Threshold(opts, cfg) = Bad THEN 2
            ELSE IF Gated(reported, Threshold(opts, cfg)) THEN 1 ELSE 0)
        EXCEPT !.hidden = Keys(considered) \ Keys(kept), !.wrote = opts.write]

Lint(opts, cfg) ==
    LET considered == LintConsidered(opts, cfg)
        kept == Retain(considered, opts)
    IN
    /\ Idle
    /\ IF Readable(opts, cfg)
       THEN /\ baseline' = IF opts.write THEN KeysToWrite(considered, kept) ELSE baseline
            /\ amnesty' = IF opts.write
                          THEN {<<f.rule, f.site>> : f \in considered} ELSE amnesty
            /\ last' = LintResult(opts, cfg, considered, kept)
       ELSE /\ last' = Result("lint", opts, cfg, {}, 2)
            /\ UNCHANGED <<baseline, amnesty>>
    /\ UNCHANGED <<recorded, matrix>>

\* `dead`, `clobbers`, `scope-leaks`, `overshare`: one pass whatever the
\* configuration enables, no user pass, no baseline, no severity.
SinglePass(id, opts, cfg) ==
    LET fs == IntersectWithRecordings(
                  FilterFindings(RunPass(recorded[TraceDb], cfg, id), opts.path),
                  Sources(opts.also), cfg, id)
    IN
    /\ Idle
    /\ ~opts.read /\ ~opts.write /\ opts.failOn = None
    /\ None \notin Sources({TraceDb} \cup opts.also)
    /\ last' = Result(id, opts, cfg, fs, IF fs = {} THEN 0 ELSE 1)
    /\ UNCHANGED <<recorded, baseline, matrix, amnesty>>

-----------------------------------------------------------------------------
(* `matrix`: the presets are recorded one after the other.                 *)

MatrixBegin(list, fastFail) ==
    /\ Idle
    /\ matrix' = [asked |-> list, left |-> list, done |-> <<>>, fastFail |-> fastFail]
    /\ last' = NoRun
    /\ UNCHANGED <<recorded, baseline, amnesty>>

Outcome(p, ok, rec) == [preset |-> p, ok |-> ok, rec |-> rec]

MatrixRecord(rec) ==
    LET p == Head(matrix.left) IN
    /\ matrix.left # <<>>
    /\ recorded' = [recorded EXCEPT ![DbOf[p]] = rec]
    /\ matrix' = [matrix EXCEPT !.left = Tail(@), !.done = Append(@, Outcome(p, TRUE, rec))]
    /\ UNCHANGED <<baseline, last, amnesty>>

\* A configure that fails leaves the database of the last recording; an ingest
\* that fails leaves one with a schema and no rows.
MatrixFail(emptied) ==
    LET p == Head(matrix.left) IN
    /\ matrix.left # <<>>
    /\ recorded' = IF emptied THEN [recorded EXCEPT ![DbOf[p]] = {}] ELSE recorded
    /\ matrix' = [matrix EXCEPT !.left = IF matrix.fastFail THEN <<>> ELSE Tail(@),
                                !.done = Append(@, Outcome(p, FALSE, {}))]
    /\ UNCHANGED <<baseline, last, amnesty>>

Succeeded(done) == {i \in 1..Len(done) : done[i].ok}

\* Slip: one recorded preset is enough.
SlipAnyFailed(done) == Succeeded(done) = {}

AnyFailed(done) ==
    \E i \in 1..Len(done) : ~done[i].ok

Database(done, i) == DbOf[done[i].preset]

Primary(done) == CHOOSE i \in Succeeded(done) : \A k \in Succeeded(done) : i <= k

\* The passes run on the first database and the others confirm.
MatrixFindings(done, opts, cfg) ==
    LET also == {Database(done, i) : i \in Succeeded(done) \ {Primary(done)}}
    IN  ApplySeverityOverrides(
            Considered(recorded[Database(done, Primary(done))], Sources(also), cfg, opts), cfg)

MatrixReadable(done, opts, cfg) ==
    /\ Succeeded(done) # {}
    /\ OverridesParse(cfg)
    /\ PassesRun(recorded[Database(done, Primary(done))], cfg, opts.allowUser)

MatrixExit(reported, opts, cfg) ==
    IF Threshold(opts, cfg) = Bad THEN 2
    ELSE IF AnyFailed(matrix.done) \/ Gated(reported, Threshold(opts, cfg)) THEN 1 ELSE 0

MatrixLint(opts, cfg) ==
    LET reported == MatrixFindings(matrix.done, opts, cfg) IN
    /\ matrix.left = <<>> /\ matrix.done # <<>>
    /\ ~opts.read /\ ~opts.write /\ opts.also = {}
    /\ last' = [IF MatrixReadable(matrix.done, opts, cfg)
                THEN Result("matrix", opts, cfg, reported, MatrixExit(reported, opts, cfg))
                ELSE Result("matrix", opts, cfg, {}, 2)
                  EXCEPT !.asked = matrix.asked, !.done = matrix.done]
    /\ matrix' = NoMatrix
    /\ UNCHANGED <<recorded, baseline, amnesty>>

-----------------------------------------------------------------------------
Next ==
    \/ \E rec \in Recordings : Record(rec) \/ MatrixRecord(rec)
    \/ \E opts \in Options, cfg \in Configs : Lint(opts, cfg) \/ MatrixLint(opts, cfg)
    \/ \E id \in Builtin, opts \in Options, cfg \in Configs : SinglePass(id, opts, cfg)
    \/ \E list \in PresetLists, fastFail \in BOOLEAN : MatrixBegin(list, fastFail)
    \/ \E emptied \in BOOLEAN : MatrixFail(emptied)

Spec == Init /\ [][Next]_vars

-----------------------------------------------------------------------------
\* The finding-level ratchet (docs/user-guide.md:1731): a lint that reads a
\* baseline and exits 0 saw no finding at or above the threshold but those at
\* sites the lint that wrote the baseline already considered.
Ratchet ==
    [][last'.cmd = "lint" /\ last'.exit = 0 /\ last'.opts.read =>
         \A f \in ApplySeverityOverrides(LintConsidered(last'.opts, last'.cfg), last'.cfg) :
            f.sev >= Threshold(last'.opts, last'.cfg) => <<f.rule, f.site>> \in amnesty]_vars

\* The same question asked again.
SameScope(o1, o2) ==
    o1.path = o2.path /\ o1.also = o2.also /\ o1.allowUser = o2.allowUser

\* What a freshly written baseline silences: asked again on the same recording,
\* lint reports exactly what the run that wrote it had suppressed itself --
\* nothing when it ran without --baseline, as main.rs:246 advises.
RefreshShowsTheSuppressed ==
    [][/\ last.cmd = "lint" /\ last.wrote
       /\ last'.cmd = "lint" /\ last'.opts.read
       /\ last'.cfg = last.cfg /\ SameScope(last'.opts, last.opts)
       => Keys(last'.reported) = last.hidden]_vars

\* No later outcome of this matrix wrote to the database of the i-th preset.
Undisturbed(done, i) ==
    \A j \in (i + 1)..Len(done) : Database(done, j) # Database(done, i)

\* matrix reports a finding only if every preset recorded shows one of its rule
\* at its site (matrix.rs:6) -- every preset whose database is still its own.
MatrixReportsCommon ==
    last.cmd = "matrix" =>
        \A f \in last.reported : \A i \in 1..Len(last.done) :
            last.done[i].ok /\ Undisturbed(last.done, i) =>
                \E g \in last.done[i].rec : g.rule = f.rule /\ g.site = f.site

\* Exit status 0 of matrix: every preset asked for was recorded, and no finding
\* of an enabled builtin pass which all of them show, in the paths asked for,
\* reaches the threshold.
ZeroMeansClean ==
    last.cmd = "matrix" /\ last.exit = 0 =>
        /\ Len(last.done) = Len(last.asked)
        /\ \A i \in 1..Len(last.done) : last.done[i].ok
        /\ \A f \in Findings :
              /\ \A i \in 1..Len(last.done) : f \in last.done[i].rec
              /\ f.rule \in Builtin /\ f \in RunEnabledPasses({f}, last.cfg, FALSE)
              /\ f \in FilterFindings({f}, last.opts.path)
              => ~Gated(ApplySeverityOverrides({f}, last.cfg),
                        Threshold(last.opts, last.cfg))

\* A single-pass command agrees with lint: when it finds nothing, lint with the
\* same --path and --also reports nothing of that rule, whatever passes the
\* configuration enables.
SinglePassAgrees ==
    last.cmd \in Builtin /\ last.exit = 0 =>
        \A cfg \in Configs : PassConfig(cfg, last.cmd) = PassConfig(last.cfg, last.cmd) =>
            \A f \in LintConsidered(last.opts, cfg) : f.rule # last.cmd

=============================================================================
