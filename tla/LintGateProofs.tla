--------------------------- MODULE LintGateProofs ---------------------------
(***************************************************************************)
(* What a baseline hides, what a clean single pass says, what `matrix`     *)
(* reports and what its exit status 0 means, whatever the rules, findings, *)
(* command lines, configurations, presets and database files.              *)
(***************************************************************************)
EXTENDS LintGate, TLAPS, WellFoundedInduction

\* Databases hold recordings, and while matrix runs nothing else has ended.
StateOk ==
    /\ recorded \in [DbFiles -> (SUBSET Findings) \cup {None}]
    /\ ~Idle => last = NoRun

\* The baseline holds no key its writer did not consider.
Considerate == baseline # None => baseline \subseteq amnesty

\* After a lint that wrote the baseline: what it considered is what it kept,
\* now in the baseline, and what it had hidden.
Written ==
    last.cmd = "lint" /\ last.wrote =>
        /\ Readable(last.opts, last.cfg)
        /\ baseline # None
        /\ last.hidden = Keys(LintConsidered(last.opts, last.cfg)) \ baseline

LintInv == StateOk /\ Considerate /\ Written /\ SinglePassAgrees

-----------------------------------------------------------------------------
(* Findings and their keys.                                                *)

\* A finding is what its pass reported, and no pass adds any.
LEMMA ConsideredAreFindings ==
    ASSUME NEW rec \in SUBSET Findings, NEW also, NEW cfg, NEW opts
    PROVE  Considered(rec, also, cfg, opts) \subseteq rec
  BY DEF Considered, IntersectWithRecordings, FilterFindings, RunEnabledPasses, RunPass, RunSqlPass

\* A set of keys is a set of rules at sites, so it is not the missing baseline.
LEMMA KeysOfFindings ==
    ASSUME NEW fs \in SUBSET Findings
    PROVE  Keys(fs) \in SUBSET (Rules \X Sites) /\ Keys(fs) # None
<1>1. \A f \in fs : f.rule \in Rules /\ f.site \in Sites
  BY LintAssumption DEF IsFinding
<1> QED BY <1>1, LintAssumption DEF Keys, Key

\* An override changes the severity of a finding and nothing else.
LEMMA OverrideKeepsKey ==
    ASSUME NEW f \in Findings, NEW s
    PROVE  /\ [f EXCEPT !.sev = s].rule = f.rule
           /\ [f EXCEPT !.sev = s].site = f.site
           /\ [f EXCEPT !.sev = s].name = f.name
<1>1. f = [rule |-> f.rule, site |-> f.site, name |-> f.name, sev |-> f.sev]
  BY LintAssumption DEF IsFinding
<1> QED BY <1>1

\* Severity overrides change no key.
LEMMA OverridesKeepKeys ==
    ASSUME NEW fs \in SUBSET Findings, NEW cfg
    PROVE  Keys(ApplySeverityOverrides(fs, cfg)) = Keys(fs)
<1> DEFINE Over(f) == IF f.rule \in DOMAIN cfg.severity THEN [f EXCEPT !.sev = cfg.severity[f.rule]]
                      ELSE f
<1>1. \A f \in fs : Key(Over(f)) = Key(f)
  BY OverrideKeepsKey DEF Key
<1>2. ApplySeverityOverrides(fs, cfg) = {Over(f) : f \in fs}
  BY DEF ApplySeverityOverrides
<1> HIDE DEF Over
<1> QED BY <1>1, <1>2 DEF Keys


-----------------------------------------------------------------------------
(* The invariant.                                                          *)

\* What lint considers are findings of the recording it reads.
LEMMA LintFindings ==
    ASSUME StateOk, NEW opts, NEW cfg, Readable(opts, cfg)
    PROVE  LintConsidered(opts, cfg) \in SUBSET Findings
<1>1. recorded[TraceDb] \in SUBSET Findings
  BY LintAssumption DEF StateOk, Readable, Sources
<1> QED BY <1>1, ConsideredAreFindings DEF LintConsidered

\* A readable lint, as far as its result and the baseline go.
LEMMA LintOutcome ==
    ASSUME StateOk, NEW opts, NEW cfg, Lint(opts, cfg), Readable(opts, cfg)
    PROVE  LET considered == LintConsidered(opts, cfg)
               kept == Retain(considered, opts)
           IN  /\ last' = LintResult(opts, cfg, considered, kept)
               /\ last'.cmd = "lint" /\ last'.opts = opts /\ last'.cfg = cfg
               /\ last'.wrote = opts.write
               /\ last'.hidden = Keys(considered) \ Keys(kept)
               /\ last'.reported = ApplySeverityOverrides(kept, cfg)
               /\ baseline' = IF opts.write THEN Keys(kept) ELSE baseline
               /\ amnesty' = IF opts.write THEN Keys(considered) ELSE amnesty
               /\ UNCHANGED <<recorded, matrix>> /\ Idle
<1> DEFINE considered == LintConsidered(opts, cfg)
           kept == Retain(considered, opts)
<1>1. last' = LintResult(opts, cfg, considered, kept)
  BY DEF Lint
<1>2. /\ last'.cmd = "lint" /\ last'.opts = opts /\ last'.cfg = cfg
      /\ last'.wrote = opts.write
      /\ last'.hidden = Keys(considered) \ Keys(kept)
      /\ last'.reported = ApplySeverityOverrides(kept, cfg)
  BY <1>1 DEF LintResult, Result
<1>3. /\ baseline' = IF opts.write THEN Keys(kept) ELSE baseline
      /\ UNCHANGED <<recorded, matrix>> /\ Idle
  BY DEF Lint, KeysToWrite
<1>4. amnesty' = IF opts.write THEN Keys(considered) ELSE amnesty
  BY DEF Lint, Keys, Key
<1> QED BY <1>1, <1>2, <1>3, <1>4

\* A lint that cannot read what it needs changes nothing but the exit status.
LEMMA LintFailure ==
    ASSUME NEW opts, NEW cfg, Lint(opts, cfg), ~Readable(opts, cfg)
    PROVE  /\ last'.cmd = "lint" /\ last'.exit = 2 /\ last'.wrote = FALSE
           /\ last'.opts = opts /\ last'.cfg = cfg
           /\ UNCHANGED <<recorded, baseline, matrix, amnesty>> /\ Idle
  BY DEF Lint, Result

\* At first there is no database, no baseline and no invocation.
LEMMA InvInit == Init => LintInv
  BY LintAssumption DEF Init, LintInv, StateOk, Idle, NoRun, Considerate, Written, SinglePassAgrees

\* lint keeps what the baseline is owed.
LEMMA LintKeeps ==
    ASSUME LintInv, NEW opts, NEW cfg, Lint(opts, cfg)
    PROVE  LintInv'
<1> USE DEF LintInv
<1>1. CASE Readable(opts, cfg)
  <2> DEFINE considered == LintConsidered(opts, cfg)
             kept == Retain(considered, opts)
  <2>1. considered \in SUBSET Findings /\ kept \subseteq considered
    BY <1>1, LintFindings DEF Retain
  <2>2. /\ last'.cmd = "lint" /\ last'.opts = opts /\ last'.cfg = cfg
        /\ last'.wrote = opts.write
        /\ last'.hidden = Keys(considered) \ Keys(kept)
        /\ baseline' = IF opts.write THEN Keys(kept) ELSE baseline
        /\ amnesty' = IF opts.write THEN Keys(considered) ELSE amnesty
        /\ UNCHANGED <<recorded, matrix>> /\ Idle
    BY <1>1, LintOutcome
  <2>3. StateOk'
    BY <2>2 DEF StateOk, Idle
  <2>4. Considerate'
    BY <2>1, <2>2 DEF Considerate, Keys
  <2>5. Written'
    <3> SUFFICES ASSUME opts.write PROVE Written'
      BY <2>2 DEF Written
    <3>1. LintConsidered(opts, cfg)' = considered
      BY <2>2 DEF LintConsidered, Considered, Sources
    <3>2. Keys(kept) # None
      BY <2>1, KeysOfFindings
    <3>3. Readable(opts, cfg)'
      BY <1>1, <2>2, <3>2 DEF Readable, Sources
    <3> QED BY <2>2, <3>1, <3>2, <3>3 DEF Written
  <2>6. SinglePassAgrees'
    BY <2>2, LintAssumption DEF SinglePassAgrees
  <2> QED BY <2>3, <2>4, <2>5, <2>6
<1>2. CASE ~Readable(opts, cfg)
  <2>1. /\ last'.cmd = "lint" /\ last'.wrote = FALSE
        /\ UNCHANGED <<recorded, baseline, matrix, amnesty>> /\ Idle
    BY <1>2, LintFailure
  <2> QED BY <2>1, LintAssumption DEF StateOk, Idle, Considerate, Written, SinglePassAgrees
<1> QED BY <1>1, <1>2

\* A single pass that finds nothing leaves lint nothing of its rule to find.
LEMMA SinglePassKeeps ==
    ASSUME LintInv, NEW id \in Builtin, NEW opts, NEW cfg, SinglePass(id, opts, cfg)
    PROVE  LintInv'
<1> DEFINE fs == IntersectWithRecordings(
                     FilterFindings(RunPass(recorded[TraceDb], cfg, id), opts.path),
                     Sources(opts.also), cfg, id)
<1>1. /\ last'.cmd = id /\ last'.opts = opts /\ last'.cfg = cfg
      /\ last'.exit = IF fs = {} THEN 0 ELSE 1
      /\ UNCHANGED <<recorded, baseline, matrix, amnesty>> /\ Idle
  BY DEF SinglePass, Result
<1>2. StateOk' /\ Considerate' /\ Written'
  BY <1>1, LintAssumption DEF LintInv, StateOk, Idle, Considerate, Written
<1>3. SinglePassAgrees'
  <2> SUFFICES ASSUME fs = {}, NEW cfg2 \in Configs, PassConfig(cfg2, id) = PassConfig(cfg, id),
                      NEW f \in LintConsidered(opts, cfg2), f.rule = id
               PROVE  FALSE
    BY <1>1 DEF SinglePassAgrees, LintConsidered, Considered, Sources
  <2>1. id # None /\ id \notin User
    BY LintAssumption DEF Rules
  <2>2. \A rec : RunPass(rec, cfg2, id) = RunPass(rec, cfg, id)
    BY DEF RunPass
  <2>3. f \in RunPass(recorded[TraceDb], cfg, id)
    <3>1. f \in RunEnabledPasses(recorded[TraceDb], cfg2, opts.allowUser)
      BY DEF LintConsidered, Considered, IntersectWithRecordings, FilterFindings
    <3>2. CASE \E q \in Builtin : f \in RunPass(recorded[TraceDb], cfg2, q)
      BY <3>2, <2>2 DEF RunPass
    <3>3. CASE \E q \in UserPasses(opts.allowUser) : f \in RunSqlPass(recorded[TraceDb], q)
      BY <3>3, <2>1 DEF RunSqlPass, UserPasses
    <3> QED BY <3>1, <3>2, <3>3 DEF RunEnabledPasses
  <2>4. f \in FilterFindings(RunPass(recorded[TraceDb], cfg, id), opts.path)
    BY <2>3 DEF LintConsidered, Considered, IntersectWithRecordings, FilterFindings
  <2>5. ASSUME NEW rec \in Sources(opts.also)
        PROVE  Key(f) \in OtherKeys(rec, cfg, id)
    <3>1. Key(f) \in OtherKeys(rec, cfg2, None)
      BY DEF LintConsidered, Considered, IntersectWithRecordings
    <3>2. PICK q \in Builtin : \E g \in RunPass(rec, cfg2, q) : Key(f) = Key(g)
      BY <3>1 DEF OtherKeys, Keys
    <3>3. PICK g \in RunPass(rec, cfg2, q) : Key(f) = Key(g)
      BY <3>2
    <3>4. g \in RunPass(rec, cfg, id)
      BY <3>3, <2>2 DEF RunPass, Key
    <3> QED BY <3>3, <3>4, <2>1 DEF OtherKeys, Keys
  <2> QED BY <2>4, <2>5 DEF IntersectWithRecordings
<1> QED BY <1>2, <1>3 DEF LintInv

\* Nothing is owed of an invocation that is no lint and no single pass.
LEMMA OthersOweNothing ==
    ASSUME LintInv, StateOk', last'.cmd \in {"none", "matrix"}, UNCHANGED <<baseline, amnesty>>
    PROVE  LintInv'
  BY LintAssumption DEF LintInv, Considerate, Written, SinglePassAgrees

\* A recording, by hand or as a step of matrix, and matrix itself.
LEMMA RecordKeeps ==
    ASSUME LintInv, NEW rec \in Recordings, Record(rec)
    PROVE  LintInv'
<1>1. rec \in SUBSET Findings
  BY LintAssumption
<1>2. StateOk' /\ last'.cmd = "none" /\ UNCHANGED <<baseline, amnesty>>
  BY <1>1 DEF LintInv, Record, StateOk, Idle, NoRun
<1> QED BY <1>2, OthersOweNothing

\* The recordings of a matrix leave baseline and last invocation alone.
LEMMA MatrixStepsKeep ==
    ASSUME LintInv,
           \/ \E rec \in Recordings : MatrixRecord(rec)
           \/ \E emptied \in BOOLEAN : MatrixFail(emptied)
    PROVE  LintInv'
<1>1. /\ matrix.left # <<>> /\ UNCHANGED <<last, baseline, amnesty>>
      /\ \E db, rec : /\ rec \in SUBSET Findings
                      /\ recorded' \in {recorded, [recorded EXCEPT ![db] = rec]}
  BY LintAssumption DEF MatrixRecord, MatrixFail
<1>2. last = NoRun
  BY <1>1 DEF LintInv, StateOk, Idle, NoMatrix
<1>3. StateOk' /\ last'.cmd = "none"
  BY <1>1, <1>2 DEF LintInv, StateOk, NoRun
<1> QED BY <1>1, <1>3, OthersOweNothing

\* The beginning of a matrix and its end.
LEMMA MatrixEndsKeep ==
    ASSUME LintInv,
           \/ \E list \in PresetLists, fastFail \in BOOLEAN : MatrixBegin(list, fastFail)
           \/ \E opts \in Options, cfg \in Configs : MatrixLint(opts, cfg)
    PROVE  LintInv'
<1>1. CASE \E list \in PresetLists, fastFail \in BOOLEAN : MatrixBegin(list, fastFail)
  <2>1. StateOk' /\ last'.cmd = "none" /\ UNCHANGED <<baseline, amnesty>>
    BY <1>1 DEF LintInv, MatrixBegin, StateOk, NoRun
  <2> QED BY <2>1, OthersOweNothing
<1>2. CASE \E opts \in Options, cfg \in Configs : MatrixLint(opts, cfg)
  <2>1. PICK opts \in Options, cfg \in Configs : MatrixLint(opts, cfg)
    BY <1>2
  <2>2. last'.cmd = "matrix" /\ matrix' = NoMatrix /\ UNCHANGED <<recorded, baseline, amnesty>>
    BY <2>1 DEF MatrixLint, Result
  <2>3. StateOk'
    BY <2>2 DEF LintInv, StateOk, Idle
  <2> QED BY <2>2, <2>3, OthersOweNothing
<1> QED BY <1>1, <1>2

\* A stuttering step changes nothing.
LEMMA StutterKeeps == ASSUME LintInv, UNCHANGED vars PROVE LintInv'
  BY DEF vars, LintInv, StateOk, Idle, Considerate, Written, Readable, LintConsidered, Considered,
         Sources, SinglePassAgrees

\* The invariant holds of every state of the specification.
THEOREM LintCorrect == Spec => []LintInv
<1>1. LintInv /\ [Next]_vars => LintInv'
  <2> SUFFICES ASSUME LintInv, [Next]_vars PROVE LintInv'
    OBVIOUS
  <2>1. CASE \E rec \in Recordings : Record(rec) \/ MatrixRecord(rec)
    BY <2>1, RecordKeeps, MatrixStepsKeep
  <2>2. CASE \E opts \in Options, cfg \in Configs : Lint(opts, cfg) \/ MatrixLint(opts, cfg)
    BY <2>2, LintKeeps, MatrixEndsKeep
  <2>3. CASE \E id \in Builtin, opts \in Options, cfg \in Configs : SinglePass(id, opts, cfg)
    BY <2>3, SinglePassKeeps
  <2>4. CASE \E list \in PresetLists, fastFail \in BOOLEAN : MatrixBegin(list, fastFail)
    BY <2>4, MatrixEndsKeep
  <2>5. CASE \E emptied \in BOOLEAN : MatrixFail(emptied)
    BY <2>5, MatrixStepsKeep
  <2>6. CASE UNCHANGED vars
    BY <2>6, StutterKeeps
  <2> QED BY <2>1, <2>2, <2>3, <2>4, <2>5, <2>6 DEF Next
<1> QED BY <1>1, InvInit, PTL DEF Spec

\* A single-pass command that finds nothing: lint with the same --path and
\* --also reports nothing of that rule, whatever the configuration enables.
THEOREM SinglePassesAgree == Spec => []SinglePassAgrees
<1>1. LintInv => SinglePassAgrees
  BY DEF LintInv
<1> QED BY <1>1, LintCorrect, PTL

-----------------------------------------------------------------------------
(* What a step that reads the baseline may report.                         *)

\* Only lint ends with the command "lint" in a step that changes anything.
LEMMA LintEnds ==
    ASSUME StateOk, Next, last'.cmd = "lint"
    PROVE  \E opts \in Options, cfg \in Configs : Lint(opts, cfg)
<1>1. ~ \E rec \in Recordings : Record(rec) \/ MatrixRecord(rec)
  <2>1. ASSUME NEW rec \in Recordings, Record(rec) PROVE FALSE
    BY <2>1 DEF Record, NoRun
  <2>2. ASSUME NEW rec \in Recordings, MatrixRecord(rec) PROVE FALSE
    <3>1. matrix.left # <<>> /\ UNCHANGED last
      BY <2>2 DEF MatrixRecord
    <3> QED BY <3>1 DEF StateOk, Idle, NoMatrix, NoRun
  <2> QED BY <2>1, <2>2
<1>2. ~ \E opts \in Options, cfg \in Configs : MatrixLint(opts, cfg)
  BY DEF MatrixLint, Result
<1>3. ~ \E id \in Builtin, opts \in Options, cfg \in Configs : SinglePass(id, opts, cfg)
  <2>1. \A id \in Builtin : id # "lint"
    BY LintAssumption
  <2>2. ASSUME NEW id \in Builtin, NEW opts, NEW cfg, SinglePass(id, opts, cfg) PROVE last'.cmd = id
    BY <2>2 DEF SinglePass, Result
  <2> QED BY <2>1, <2>2
<1>4. ~ \E list \in PresetLists, fastFail \in BOOLEAN : MatrixBegin(list, fastFail)
  BY DEF MatrixBegin, NoRun
<1>5. ~ \E emptied \in BOOLEAN : MatrixFail(emptied)
  BY DEF MatrixFail, StateOk, Idle, NoMatrix, NoRun
<1> QED BY <1>1, <1>2, <1>3, <1>4, <1>5 DEF Next

\* Exit 0 of a lint with a baseline: what reaches the threshold was considered
\* by the lint that wrote the baseline, at that site and for that rule.
THEOREM BaselineRatchet == Spec => Ratchet
<1>1. LintInv /\ [Next]_vars =>
        [last'.cmd = "lint" /\ last'.exit = 0 /\ last'.opts.read =>
           \A f \in ApplySeverityOverrides(LintConsidered(last'.opts, last'.cfg), last'.cfg) :
              f.sev >= Threshold(last'.opts, last'.cfg) => <<f.rule, f.site>> \in amnesty]_vars
  <2> SUFFICES ASSUME LintInv, Next, last'.cmd = "lint", last'.exit = 0, last'.opts.read,
                      NEW f \in ApplySeverityOverrides(LintConsidered(last'.opts, last'.cfg), last'.cfg),
                      f.sev >= Threshold(last'.opts, last'.cfg)
               PROVE  <<f.rule, f.site>> \in amnesty
    OBVIOUS
  <2>1. PICK opts \in Options, cfg \in Configs : Lint(opts, cfg)
    BY LintEnds DEF LintInv
  <2>2. Readable(opts, cfg) /\ last'.opts = opts /\ last'.cfg = cfg
    BY <2>1, LintFailure, LintOutcome DEF LintInv
  <2> DEFINE considered == LintConsidered(opts, cfg)
             kept == Retain(considered, opts)
  <2>3. /\ last' = LintResult(opts, cfg, considered, kept)
        /\ considered \in SUBSET Findings /\ kept \subseteq considered
    BY <2>1, <2>2, LintOutcome, LintFindings DEF LintInv, Retain
  <2>4. ~Gated(ApplySeverityOverrides(kept, cfg), Threshold(opts, cfg))
    <3> DEFINE reported == ApplySeverityOverrides(kept, cfg)
               t == Threshold(opts, cfg)
    <3>1. last'.exit = IF t = Bad THEN 2 ELSE IF Gated(reported, t) THEN 1 ELSE 0
      BY <2>3 DEF LintResult, Result
    <3> HIDE DEF reported, t
    <3> QED BY <3>1 DEF reported, t
  <2> DEFINE Over(g) == IF g.rule \in DOMAIN cfg.severity
                        THEN [g EXCEPT !.sev = cfg.severity[g.rule]] ELSE g
  <2>5. PICK g \in considered : f = Over(g)
    BY <2>2 DEF ApplySeverityOverrides
  <2>6. f.rule = g.rule /\ f.site = g.site
    BY <2>3, <2>5, OverrideKeepsKey
  <2>7. g \notin kept
    <3>1. g \in kept => f \in ApplySeverityOverrides(kept, cfg)
      BY <2>5 DEF ApplySeverityOverrides
    <3> QED BY <3>1, <2>2, <2>4 DEF Gated
  <2>8. Key(g) \in baseline
    BY <2>2, <2>5, <2>7 DEF Retain
  <2>9. baseline # None
    BY <2>2 DEF Readable
  <2> QED BY <2>6, <2>8, <2>9 DEF LintInv, Considerate, Key
<1> QED BY <1>1, LintCorrect, PTL DEF Spec, Ratchet

\* A baseline just written silences exactly what its writer reported.
THEOREM RefreshedBaseline == Spec => RefreshShowsTheSuppressed
<1>1. LintInv /\ [Next]_vars =>
        [/\ last.cmd = "lint" /\ last.wrote
         /\ last'.cmd = "lint" /\ last'.opts.read
         /\ last'.cfg = last.cfg /\ SameScope(last'.opts, last.opts)
         => Keys(last'.reported) = last.hidden]_vars
  <2> SUFFICES ASSUME LintInv, Next, last.cmd = "lint", last.wrote,
                      last'.cmd = "lint", last'.opts.read,
                      last'.cfg = last.cfg, SameScope(last'.opts, last.opts)
               PROVE  Keys(last'.reported) = last.hidden
    OBVIOUS
  <2>1. PICK opts \in Options, cfg \in Configs : Lint(opts, cfg)
    BY LintEnds DEF LintInv
  <2>2. last'.opts = opts /\ last'.cfg = cfg
    BY <2>1, LintFailure, LintOutcome DEF LintInv
  <2>3. /\ Readable(last.opts, cfg) /\ baseline # None
        /\ last.hidden = Keys(LintConsidered(last.opts, cfg)) \ baseline
    BY <2>2 DEF LintInv, Written
  <2>4. Readable(opts, cfg) /\ LintConsidered(opts, cfg) = LintConsidered(last.opts, cfg)
    BY <2>2, <2>3 DEF SameScope, Readable, LintConsidered, Considered
  <2> DEFINE considered == LintConsidered(opts, cfg)
             kept == Retain(considered, opts)
  <2>5. /\ last'.reported = ApplySeverityOverrides(kept, cfg)
        /\ considered \in SUBSET Findings /\ kept \subseteq considered
    BY <2>1, <2>4, LintOutcome, LintFindings DEF LintInv, Retain
  <2>6. Keys(last'.reported) = Keys(kept)
    BY <2>5, OverridesKeepKeys
  <2>7. Keys(kept) = Keys(considered) \ baseline
    BY <2>2 DEF Retain, Keys
  <2> QED BY <2>3, <2>4, <2>6, <2>7
<1> QED BY <1>1, LintCorrect, PTL DEF Spec, RefreshShowsTheSuppressed

-----------------------------------------------------------------------------
(* matrix: what it reports and what its exit status 0 means, whatever the  *)
(* presets, their databases and recordings, and whichever of them fail.    *)

Outcomes == [preset : Presets, ok : BOOLEAN, rec : SUBSET Findings]

MatrixTypes ==
    /\ matrix \in [asked : Seq(Presets), left : Seq(Presets), done : Seq(Outcomes),
                   fastFail : BOOLEAN]
    /\ recorded \in [DbFiles -> (SUBSET Findings) \cup {None}]

\* A database nobody wrote to after the preset holds what the preset recorded,
\* and one recorded at all is there.
OwnRecordings ==
    \A i \in Succeeded(matrix.done) :
        /\ recorded[Database(matrix.done, i)] \in SUBSET Findings
        /\ Undisturbed(matrix.done, i) =>
              recorded[Database(matrix.done, i)] = matrix.done[i].rec

\* As long as nothing fails no preset is skipped, and every database holds what
\* one of them recorded.
AllRecorded ==
    ~AnyFailed(matrix.done) =>
        /\ Len(matrix.done) + Len(matrix.left) = Len(matrix.asked)
        /\ \A i \in 1..Len(matrix.done) : \E k \in 1..Len(matrix.done) :
              recorded[Database(matrix.done, i)] = matrix.done[k].rec

MatrixState == MatrixTypes /\ OwnRecordings /\ AllRecorded

MatrixInv == MatrixState /\ MatrixReportsCommon /\ ZeroMeansClean

-----------------------------------------------------------------------------
(* Recording preset by preset.                                             *)

\* A preset appends its outcome and writes to its own database or to none.
LEMMA OutcomeKeeps ==
    ASSUME MatrixState, matrix.left # <<>>,
           NEW o \in Outcomes, o.preset = Head(matrix.left),
           NEW rec \in SUBSET Findings,
           recorded' \in {recorded, [recorded EXCEPT ![DbOf[o.preset]] = rec]},
           o.ok => recorded'[DbOf[o.preset]] = o.rec,
           NEW left \in Seq(Presets), o.ok => left = Tail(matrix.left),
           matrix' = [matrix EXCEPT !.left = left, !.done = Append(@, o)]
    PROVE  MatrixState'
<1> DEFINE done == matrix.done
           n == Len(done) + 1
<1>0. /\ matrix \in [asked : Seq(Presets), left : Seq(Presets), done : Seq(Outcomes),
                     fastFail : BOOLEAN]
      /\ done \in Seq(Outcomes) /\ matrix.left \in Seq(Presets) /\ Len(done) \in Nat
  BY DEF MatrixState, MatrixTypes
<1>a. matrix'.done = Append(done, o) /\ matrix'.left = left /\ matrix'.asked = matrix.asked
  BY <1>0
<1>b. /\ Len(Append(done, o)) = n /\ Append(done, o)[n] = o
      /\ \A i \in 1..Len(done) : Append(done, o)[i] = done[i] /\ done[i] \in Outcomes
  <2> HIDE DEF done
  <2> QED BY <1>0
<1>c. o.preset \in Presets /\ DbOf[o.preset] \in DbFiles
  BY LintAssumption DEF Outcomes
<1>1. /\ matrix'.done = Append(done, o) /\ matrix'.left = left /\ matrix'.asked = matrix.asked
      /\ done \in Seq(Outcomes) /\ Len(done) \in Nat /\ n \in Nat
      /\ Len(matrix'.done) = n /\ matrix'.done[n] = o
      /\ \A i \in 1..Len(done) : matrix'.done[i] = done[i]
      /\ \A i \in 1..Len(done) : done[i] \in Outcomes
  BY <1>0, <1>a, <1>b
<1>2. 1..n = (1..Len(done)) \cup {n} /\ n \notin 1..Len(done)
  BY <1>1
<1>3. /\ Database(matrix'.done, n) = DbOf[o.preset]
      /\ \A i \in 1..Len(done) : Database(matrix'.done, i) = Database(done, i)
      /\ \A i \in 1..Len(done) : Database(done, i) \in DbFiles
  BY <1>1, <1>c, LintAssumption DEF Database, Outcomes
<1>4. MatrixTypes'
  <2>1. recorded' \in [DbFiles -> (SUBSET Findings) \cup {None}]
    BY <1>c DEF MatrixState, MatrixTypes
  <2>2. Append(done, o) \in Seq(Outcomes)
    BY <1>0
  <2>3. matrix' \in [asked : Seq(Presets), left : Seq(Presets), done : Seq(Outcomes),
                     fastFail : BOOLEAN]
    BY <1>0, <2>2
  <2> QED BY <2>1, <2>3 DEF MatrixTypes
<1>5. \A d \in DbFiles : d # DbOf[o.preset] => recorded'[d] = recorded[d]
  BY DEF MatrixState, MatrixTypes
<1>6. OwnRecordings'
  <2> SUFFICES ASSUME NEW i \in 1..n, matrix'.done[i].ok
               PROVE  /\ recorded'[Database(matrix'.done, i)] \in SUBSET Findings
                      /\ Undisturbed(matrix'.done, i) =>
                            recorded'[Database(matrix'.done, i)] = matrix'.done[i].rec
    BY <1>1 DEF OwnRecordings, Succeeded, Undisturbed, Database
  <2>1. CASE i = n
    BY <1>1, <1>3, <2>1 DEF Outcomes
  <2>2. CASE i # n
    <3>1. i \in 1..Len(done) /\ i \in Succeeded(done)
      BY <1>1, <1>2, <2>2 DEF Succeeded
    <3>2. recorded[Database(done, i)] \in SUBSET Findings
      BY <3>1 DEF MatrixState, OwnRecordings
    <3>3. recorded'[Database(done, i)] \in SUBSET Findings
      BY <1>1, <1>3, <3>1, <3>2 DEF MatrixState, MatrixTypes
    <3>4. ASSUME Undisturbed(matrix'.done, i)
          PROVE  recorded'[Database(done, i)] = done[i].rec
      <4>1. Undisturbed(done, i)
        BY <1>1, <1>3, <3>1, <3>4 DEF Undisturbed
      <4>2. Database(done, i) # DbOf[o.preset]
        BY <1>1, <1>3, <3>1, <3>4 DEF Undisturbed
      <4> QED BY <1>3, <1>5, <3>1, <4>1, <4>2 DEF MatrixState, OwnRecordings
    <3> QED BY <1>1, <1>3, <3>1, <3>3, <3>4
  <2> QED BY <2>1, <2>2
<1>7. AllRecorded'
  <2> SUFFICES ASSUME ~AnyFailed(matrix'.done)
               PROVE  /\ n + Len(left) = Len(matrix.asked)
                      /\ \A i \in 1..n : \E k \in 1..n :
                            recorded'[Database(matrix'.done, i)] = matrix'.done[k].rec
    <3> HIDE DEF n, done
    <3> QED BY <1>1 DEF AllRecorded, AnyFailed, Database
  <2>1. o.ok /\ ~AnyFailed(done)
    BY <1>1, <1>2 DEF AnyFailed
  <2>2. n + Len(left) = Len(matrix.asked)
    BY <1>1, <2>1 DEF MatrixState, MatrixTypes, AllRecorded
  <2>3. ASSUME NEW i \in 1..n
        PROVE  \E k \in 1..n : recorded'[Database(matrix'.done, i)] = matrix'.done[k].rec
    <3>1. CASE Database(matrix'.done, i) = DbOf[o.preset]
      BY <1>1, <1>2, <2>1, <3>1
    <3>2. CASE Database(matrix'.done, i) # DbOf[o.preset]
      <4>1. i \in 1..Len(done)
        BY <1>2, <1>3, <3>2
      <4>2. PICK k \in 1..Len(done) : recorded[Database(done, i)] = done[k].rec
        BY <2>1, <4>1 DEF MatrixState, AllRecorded
      <4> QED BY <1>1, <1>2, <1>3, <1>5, <3>2, <4>1, <4>2
    <3> QED BY <3>1, <3>2
  <2> QED BY <2>2, <2>3
<1> QED BY <1>4, <1>6, <1>7 DEF MatrixState


-----------------------------------------------------------------------------
(* The lint at the end.                                                    *)

\* Of the presets that succeeded one is the first.
LEMMA PrimarySucceeded ==
    ASSUME NEW done, Len(done) \in Nat, Succeeded(done) # {}
    PROVE  Primary(done) \in Succeeded(done)
<1> DEFINE less == {p \in Nat \X Nat : p[1] < p[2]}
<1>1. IsWellFoundedOn(less, Nat)
  BY NatLessThanWellFounded DEF OpToRel
<1>2. Succeeded(done) \subseteq Nat
  BY DEF Succeeded
<1>3. PICK i \in Succeeded(done) : \A k \in Succeeded(done) : ~(<<k, i>> \in less)
  <2> HIDE DEF less
  <2> QED BY <1>1, <1>2, WFMin
<1>4. ASSUME NEW k \in Succeeded(done) PROVE i <= k
  <2>1. i \in Nat /\ k \in Nat /\ <<k, i>> \notin less
    BY <1>2, <1>3
  <2>2. ~(k < i)
    BY <2>1
  <2> QED BY <2>1, <2>2
<1> QED BY <1>4 DEF Primary

\* The result of the lint, as far as the properties look at it.
LEMMA MatrixOutcome ==
    ASSUME NEW opts, NEW cfg, MatrixLint(opts, cfg)
    PROVE  /\ last'.cmd = "matrix" /\ last'.opts = opts /\ last'.cfg = cfg
           /\ last'.asked = matrix.asked /\ last'.done = matrix.done
           /\ matrix.left = <<>> /\ matrix' = NoMatrix /\ UNCHANGED recorded
           /\ IF MatrixReadable(matrix.done, opts, cfg)
              THEN /\ last'.reported = MatrixFindings(matrix.done, opts, cfg)
                   /\ last'.exit = MatrixExit(last'.reported, opts, cfg)
              ELSE last'.reported = {} /\ last'.exit = 2
  BY DEF MatrixLint, Result

\* An override of a finding and the finding have one key.
LEMMA Overridden ==
    ASSUME NEW fs \in SUBSET Findings, NEW cfg, NEW f \in ApplySeverityOverrides(fs, cfg)
    PROVE  \E g \in fs : f.rule = g.rule /\ f.site = g.site
<1>1. PICK g \in fs : f = IF g.rule \in DOMAIN cfg.severity
                          THEN [g EXCEPT !.sev = cfg.severity[g.rule]] ELSE g
  BY DEF ApplySeverityOverrides
<1> QED BY <1>1, OverrideKeepsKey

\* A finding that passes the other recordings has its key in each of them.
LEMMA Confirmed ==
    ASSUME NEW rec, NEW also, NEW cfg, NEW opts,
           NEW g \in Considered(rec, also, cfg, opts), NEW other \in also
    PROVE  \E h \in other : h.rule = g.rule /\ h.site = g.site
<1>1. Key(g) \in OtherKeys(other, cfg, None)
  BY DEF Considered, IntersectWithRecordings
<1>2. \E h \in other : Key(h) = Key(g)
  BY <1>1 DEF OtherKeys, Keys, RunPass
<1> QED BY <1>2 DEF Key

\* Every preset whose database is its own shows what matrix reports.
LEMMA ReportIsCommon ==
    ASSUME MatrixState, NEW opts, NEW cfg, MatrixLint(opts, cfg)
    PROVE  MatrixReportsCommon'
<1> DEFINE done == matrix.done
           p == Primary(done)
           also == {Database(done, i) : i \in Succeeded(done) \ {p}}
           considered == Considered(recorded[Database(done, p)], Sources(also), cfg, opts)
<1> SUFFICES ASSUME MatrixReadable(done, opts, cfg),
                    NEW f \in ApplySeverityOverrides(considered, cfg),
                    NEW i \in 1..Len(done), done[i].ok, Undisturbed(done, i)
             PROVE  \E g \in done[i].rec : g.rule = f.rule /\ g.site = f.site
  <2> HIDE DEF considered
  <2>1. MatrixFindings(done, opts, cfg) = ApplySeverityOverrides(considered, cfg)
    BY DEF MatrixFindings, considered
  <2>2. last'.reported \in {{}, ApplySeverityOverrides(considered, cfg)} /\ last'.done = done
    BY <2>1, MatrixOutcome
  <2>3. last'.reported # {} => MatrixReadable(done, opts, cfg)
    BY MatrixOutcome
  <2> QED BY <2>2, <2>3 DEF MatrixReportsCommon, Undisturbed, Database
<1>1. Len(done) \in Nat /\ Succeeded(done) # {}
  BY DEF MatrixState, MatrixTypes, MatrixReadable
<1>2. p \in Succeeded(done) /\ i \in Succeeded(done)
  BY <1>1, PrimarySucceeded DEF Succeeded
<1>3. /\ recorded[Database(done, p)] \in SUBSET Findings
      /\ recorded[Database(done, i)] = done[i].rec
  BY <1>2 DEF MatrixState, OwnRecordings
<1>4. considered \subseteq recorded[Database(done, p)]
  BY <1>3, ConsideredAreFindings
<1>5. PICK g \in considered : f.rule = g.rule /\ f.site = g.site
  <2> HIDE DEF considered, p
  <2> QED BY <1>3, <1>4, Overridden
<1>6. CASE i = p
  BY <1>3, <1>4, <1>5, <1>6
<1>7. CASE i # p
  <2>1. recorded[Database(done, i)] \in Sources(also)
    BY <1>2, <1>7 DEF Sources
  <2>2. \E h \in recorded[Database(done, i)] : h.rule = g.rule /\ h.site = g.site
    <3> HIDE DEF also, p
    <3> QED BY <2>1, <1>5, Confirmed
  <2> QED BY <2>2, <1>3, <1>5
<1> QED BY <1>6, <1>7

\* An enabled builtin pass finds in every recording what is there to be found,
\* and so confirms it.
LEMMA FoundAnywhere ==
    ASSUME NEW f, NEW cfg, f \in RunEnabledPasses({f}, cfg, FALSE), NEW rec, f \in rec
    PROVE  /\ \A allowUser : f \in RunEnabledPasses(rec, cfg, allowUser)
           /\ Key(f) \in OtherKeys(rec, cfg, None)
<1>1. PICK id \in Builtin : PassEnabled(cfg, id) /\ f \in RunPass({f}, cfg, id)
  BY DEF RunEnabledPasses, UserPasses
<1>2. f \in RunPass(rec, cfg, id)
  BY <1>1 DEF RunPass
<1>3. \A allowUser : f \in RunEnabledPasses(rec, cfg, allowUser)
  BY <1>1, <1>2 DEF RunEnabledPasses
<1>4. Key(f) \in OtherKeys(rec, cfg, None)
  BY <1>1, <1>2 DEF OtherKeys, Keys
<1> QED BY <1>3, <1>4

\* Exit 0: nothing failed, and what all presets show is in the report, which
\* nothing in reaches the threshold.
LEMMA ZeroIsClean ==
    ASSUME MatrixState, NEW opts, NEW cfg, MatrixLint(opts, cfg)
    PROVE  ZeroMeansClean'
<1> DEFINE done == matrix.done
           p == Primary(done)
           also == {Database(done, i) : i \in Succeeded(done) \ {p}}
           considered == Considered(recorded[Database(done, p)], Sources(also), cfg, opts)
           reported == ApplySeverityOverrides(considered, cfg)
           t == Threshold(opts, cfg)
<1> SUFFICES ASSUME last'.exit = 0
             PROVE  /\ Len(done) = Len(matrix.asked)
                    /\ \A i \in 1..Len(done) : done[i].ok
                    /\ \A f \in Findings :
                          /\ \A i \in 1..Len(done) : f \in done[i].rec
                          /\ f.rule \in Builtin /\ f \in RunEnabledPasses({f}, cfg, FALSE)
                          /\ f \in FilterFindings({f}, opts.path)
                          => ~Gated(ApplySeverityOverrides({f}, cfg), t)
  BY MatrixOutcome DEF ZeroMeansClean, FilterFindings, Threshold
<1>1. MatrixReadable(done, opts, cfg) /\ MatrixExit(reported, opts, cfg) = 0
  <2>1. MatrixReadable(done, opts, cfg)
    BY MatrixOutcome
  <2> QED BY <2>1, MatrixOutcome DEF MatrixFindings
<1>2. ~AnyFailed(done) /\ ~Gated(reported, t)
  <2> HIDE DEF reported
  <2> QED BY <1>1 DEF MatrixExit
<1>3. /\ Len(done) \in Nat /\ matrix.left = <<>>
      /\ \A i \in 1..Len(done) : done[i].ok
      /\ Succeeded(done) = 1..Len(done)
  BY <1>2, MatrixOutcome DEF MatrixState, MatrixTypes, AnyFailed, Succeeded
<1>4. Len(done) = Len(matrix.asked)
  BY <1>2, <1>3 DEF MatrixState, MatrixTypes, AllRecorded
<1>5. ASSUME NEW f \in Findings, \A i \in 1..Len(done) : f \in done[i].rec,
             f \in RunEnabledPasses({f}, cfg, FALSE), f \in FilterFindings({f}, opts.path)
      PROVE  ~Gated(ApplySeverityOverrides({f}, cfg), t)
  <2>1. \A i \in Succeeded(done) : f \in recorded[Database(done, i)]
    BY <1>2, <1>3, <1>5 DEF MatrixState, AllRecorded
  <2>2. p \in Succeeded(done)
    BY <1>1, <1>3, PrimarySucceeded DEF MatrixReadable
  <2>3. f \in RunEnabledPasses(recorded[Database(done, p)], cfg, opts.allowUser)
    BY <1>5, <2>1, <2>2, FoundAnywhere
  <2>4. \A rec \in Sources(also) : Key(f) \in OtherKeys(rec, cfg, None)
    BY <1>5, <2>1, FoundAnywhere DEF Sources
  <2>5. f \in considered
    <3> HIDE DEF p, also
    <3> QED BY <1>5, <2>3, <2>4 DEF Considered, IntersectWithRecordings, FilterFindings
  <2>6. ApplySeverityOverrides({f}, cfg) \subseteq reported
    BY <2>5 DEF ApplySeverityOverrides
  <2> QED BY <2>6, <1>2 DEF Gated
<1> QED BY <1>3, <1>4, <1>5

-----------------------------------------------------------------------------
(* The specification.                                                      *)

LEMMA MatrixInit == Init => MatrixInv
<1> SUFFICES ASSUME Init PROVE MatrixInv
  OBVIOUS
<1>1. MatrixTypes
  BY DEF Init, NoMatrix, MatrixTypes
<1>2. OwnRecordings /\ AllRecorded
  BY DEF Init, NoMatrix, OwnRecordings, Succeeded, AllRecorded
<1>3. MatrixReportsCommon /\ ZeroMeansClean
  BY DEF Init, NoRun, MatrixReportsCommon, ZeroMeansClean
<1> QED BY <1>1, <1>2, <1>3 DEF MatrixInv, MatrixState

\* Without an outcome there is nothing to keep.
LEMMA NoOutcome ==
    ASSUME recorded' \in [DbFiles -> (SUBSET Findings) \cup {None}],
           NEW list \in Seq(Presets), NEW fastFail \in BOOLEAN,
           matrix' = [asked |-> list, left |-> list, done |-> <<>>, fastFail |-> fastFail]
    PROVE  MatrixState'
<1>1. MatrixTypes'
  BY DEF MatrixTypes
<1>2. matrix'.done = <<>> /\ matrix'.left = matrix'.asked /\ Len(matrix'.left) \in Nat
  OBVIOUS
<1>3. OwnRecordings' /\ AllRecorded'
  BY <1>2 DEF OwnRecordings, Succeeded, AllRecorded
<1> QED BY <1>1, <1>3 DEF MatrixState

\* Recording a preset, or failing to.
LEMMA MatrixRecordKeeps ==
    ASSUME MatrixState,
           \/ \E rec \in Recordings : MatrixRecord(rec)
           \/ \E emptied \in BOOLEAN : MatrixFail(emptied)
    PROVE  MatrixState' /\ UNCHANGED last
<1>1. /\ matrix.left # <<>> /\ matrix.left \in Seq(Presets)
      /\ Head(matrix.left) \in Presets /\ Tail(matrix.left) \in Seq(Presets)
  <2>1. matrix.left \in Seq(Presets)
    BY DEF MatrixState, MatrixTypes
  <2>2. matrix.left # <<>>
    BY DEF MatrixRecord, MatrixFail
  <2> QED BY <2>1, <2>2
<1>2. recorded \in [DbFiles -> (SUBSET Findings) \cup {None}] /\ DbOf[Head(matrix.left)] \in DbFiles
  BY <1>1, LintAssumption DEF MatrixState, MatrixTypes
<1>3. ASSUME NEW rec \in Recordings, MatrixRecord(rec) PROVE MatrixState' /\ UNCHANGED last
  <2>1. PICK o : o = Outcome(Head(matrix.left), TRUE, rec)
    OBVIOUS
  <2>2. o \in Outcomes /\ o.preset = Head(matrix.left) /\ o.ok /\ o.rec = rec /\ rec \in SUBSET Findings
    BY <1>1, <2>1, LintAssumption DEF Outcome, Outcomes
  <2>3. PICK left : left = Tail(matrix.left)
    OBVIOUS
  <2>4. /\ recorded' = [recorded EXCEPT ![DbOf[o.preset]] = rec]
        /\ matrix' = [matrix EXCEPT !.left = left, !.done = Append(@, o)]
        /\ UNCHANGED last
    BY <1>3, <2>1, <2>2, <2>3 DEF MatrixRecord
  <2>5. recorded'[DbOf[o.preset]] = o.rec
    BY <1>2, <2>2, <2>4
  <2> QED BY <1>1, <2>2, <2>3, <2>4, <2>5, OutcomeKeeps
<1>4. ASSUME NEW emptied \in BOOLEAN, MatrixFail(emptied) PROVE MatrixState' /\ UNCHANGED last
  <2>1. PICK o : o = Outcome(Head(matrix.left), FALSE, {})
    OBVIOUS
  <2>2. o \in Outcomes /\ o.preset = Head(matrix.left) /\ ~o.ok
    BY <1>1, <2>1 DEF Outcome, Outcomes
  <2>3. PICK left : left = IF matrix.fastFail THEN <<>> ELSE Tail(matrix.left)
    OBVIOUS
  <2>4. left \in Seq(Presets)
    BY <1>1, <2>3
  <2>5. /\ recorded' \in {recorded, [recorded EXCEPT ![DbOf[o.preset]] = {}]}
        /\ matrix' = [matrix EXCEPT !.left = left, !.done = Append(@, o)]
        /\ UNCHANGED last
    BY <1>4, <2>1, <2>2, <2>3 DEF MatrixFail
  <2> QED BY <1>1, <2>2, <2>4, <2>5, OutcomeKeeps
<1> QED BY <1>3, <1>4

\* The other steps: a recording or a command while no matrix runs, and the two
\* ends of a matrix.
LEMMA OthersKeepMatrix ==
    ASSUME MatrixState,
           \/ \E rec \in Recordings : Record(rec)
           \/ \E opts \in Options, cfg \in Configs : Lint(opts, cfg) \/ MatrixLint(opts, cfg)
           \/ \E id \in Builtin, opts \in Options, cfg \in Configs : SinglePass(id, opts, cfg)
           \/ \E list \in PresetLists, fastFail \in BOOLEAN : MatrixBegin(list, fastFail)
    PROVE  MatrixState'
<1>1. recorded' \in [DbFiles -> (SUBSET Findings) \cup {None}]
  <2>1. CASE \E rec \in Recordings : Record(rec)
    <3>1. PICK rec \in Recordings : Record(rec)
      BY <2>1
    <3>2. rec \in SUBSET Findings /\ recorded' = [recorded EXCEPT ![TraceDb] = rec]
      BY <3>1, LintAssumption DEF Record
    <3> QED BY <3>2 DEF MatrixState, MatrixTypes
  <2>2. CASE \E opts \in Options, cfg \in Configs : Lint(opts, cfg) \/ MatrixLint(opts, cfg)
    <3>1. recorded' = recorded
      BY <2>2 DEF Lint, MatrixLint
    <3> QED BY <3>1 DEF MatrixState, MatrixTypes
  <2>3. CASE \E id \in Builtin, opts \in Options, cfg \in Configs : SinglePass(id, opts, cfg)
    <3>1. recorded' = recorded
      BY <2>3 DEF SinglePass
    <3> QED BY <3>1 DEF MatrixState, MatrixTypes
  <2>4. CASE \E list \in PresetLists, fastFail \in BOOLEAN : MatrixBegin(list, fastFail)
    <3>1. recorded' = recorded
      BY <2>4 DEF MatrixBegin
    <3> QED BY <3>1 DEF MatrixState, MatrixTypes
  <2> QED BY <2>1, <2>2, <2>3, <2>4
<1>2. \/ UNCHANGED <<recorded, matrix>>
      \/ \E list \in Seq(Presets), fastFail \in BOOLEAN :
            matrix' = [asked |-> list, left |-> list, done |-> <<>>, fastFail |-> fastFail]
  <2>0. <<>> \in Seq(Presets) /\ FALSE \in BOOLEAN
    OBVIOUS
  <2>1. CASE \E opts \in Options, cfg \in Configs : MatrixLint(opts, cfg)
    <3>1. matrix' = [asked |-> <<>>, left |-> <<>>, done |-> <<>>, fastFail |-> FALSE]
      BY <2>1 DEF MatrixLint, NoMatrix
    <3> QED BY <2>0, <3>1, Zenon
  <2>2. CASE \E list \in PresetLists, fastFail \in BOOLEAN : MatrixBegin(list, fastFail)
    BY <2>2, LintAssumption DEF MatrixBegin
  <2>3. CASE \E rec \in Recordings : Record(rec)
    <3>1. matrix' = [asked |-> <<>>, left |-> <<>>, done |-> <<>>, fastFail |-> FALSE]
      BY <2>3 DEF Record, Idle, NoMatrix
    <3> QED BY <2>0, <3>1, Zenon
  <2>4. CASE \/ \E opts \in Options, cfg \in Configs : Lint(opts, cfg)
             \/ \E id \in Builtin, opts \in Options, cfg \in Configs : SinglePass(id, opts, cfg)
    BY <2>4 DEF Lint, SinglePass
  <2> QED BY <2>1, <2>2, <2>3, <2>4
<1>3. CASE UNCHANGED <<recorded, matrix>>
  BY <1>3 DEF MatrixState, MatrixTypes, OwnRecordings, AllRecorded
<1> QED BY <1>1, <1>2, <1>3, NoOutcome

\* Only the end of a matrix makes an invocation the properties speak of.
LEMMA OthersReportNothing ==
    ASSUME MatrixInv,
           \/ \E rec \in Recordings : Record(rec)
           \/ \E opts \in Options, cfg \in Configs : Lint(opts, cfg)
           \/ \E id \in Builtin, opts \in Options, cfg \in Configs : SinglePass(id, opts, cfg)
           \/ \E list \in PresetLists, fastFail \in BOOLEAN : MatrixBegin(list, fastFail)
    PROVE  MatrixReportsCommon' /\ ZeroMeansClean'
<1>1. last'.cmd # "matrix"
  <2>1. ASSUME NEW opts, NEW cfg, Lint(opts, cfg) PROVE last'.cmd = "lint"
    <3>1. last' \in {LintResult(opts, cfg, LintConsidered(opts, cfg),
                                Retain(LintConsidered(opts, cfg), opts)),
                     Result("lint", opts, cfg, {}, 2)}
      BY <2>1 DEF Lint
    <3>2. \A considered, kept : LintResult(opts, cfg, considered, kept).cmd = "lint"
      BY DEF LintResult, Result
    <3> QED BY <3>1, <3>2 DEF Result
  <2>2. ASSUME NEW id \in Builtin, NEW opts, NEW cfg, SinglePass(id, opts, cfg)
        PROVE  last'.cmd # "matrix"
    BY <2>2, LintAssumption DEF SinglePass, Result
  <2> QED BY <2>1, <2>2 DEF Record, MatrixBegin, NoRun
<1> QED BY <1>1 DEF MatrixReportsCommon, ZeroMeansClean

\* The invariant holds of every state of the specification.
THEOREM MatrixCorrect == Spec => []MatrixInv
<1>1. MatrixInv /\ [Next]_vars => MatrixInv'
  <2> SUFFICES ASSUME MatrixInv, [Next]_vars PROVE MatrixInv'
    OBVIOUS
  <2> USE DEF MatrixInv
  <2>1. CASE \/ \E rec \in Recordings : MatrixRecord(rec)
             \/ \E emptied \in BOOLEAN : MatrixFail(emptied)
    BY <2>1, MatrixRecordKeeps DEF MatrixReportsCommon, ZeroMeansClean
  <2>2. CASE \E opts \in Options, cfg \in Configs : MatrixLint(opts, cfg)
    BY <2>2, OthersKeepMatrix, ReportIsCommon, ZeroIsClean
  <2>3. CASE \/ \E rec \in Recordings : Record(rec)
             \/ \E opts \in Options, cfg \in Configs : Lint(opts, cfg)
             \/ \E id \in Builtin, opts \in Options, cfg \in Configs : SinglePass(id, opts, cfg)
             \/ \E list \in PresetLists, fastFail \in BOOLEAN : MatrixBegin(list, fastFail)
    BY <2>3, OthersKeepMatrix, OthersReportNothing
  <2>4. CASE UNCHANGED vars
    BY <2>4 DEF vars, MatrixState, MatrixTypes, OwnRecordings, AllRecorded, MatrixReportsCommon,
                ZeroMeansClean
  <2> QED BY <2>1, <2>2, <2>3, <2>4 DEF Next
<1> QED BY <1>1, MatrixInit, PTL DEF Spec

\* matrix reports what every preset recorded shows, of those whose database no
\* later preset replaced (matrix.rs:6).
THEOREM MatrixReportsAreCommon == Spec => []MatrixReportsCommon
<1>1. MatrixInv => MatrixReportsCommon
  BY DEF MatrixInv
<1> QED BY <1>1, MatrixCorrect, PTL

\* Exit 0 of matrix: every preset asked for was recorded, and nothing they all
\* show reaches the threshold, even when presets share a database.
THEOREM MatrixZeroIsClean == Spec => []ZeroMeansClean
<1>1. MatrixInv => ZeroMeansClean
  BY DEF MatrixInv
<1> QED BY <1>1, MatrixCorrect, PTL

=============================================================================
