---------------------------- MODULE MCLintGate -----------------------------
(***************************************************************************)
(* Two builtin rules and a user rule, two sites, one of them under --path, *)
(* and two presets of three whose database has the same name; `lint --db`  *)
(* reads that one.                                                         *)
(***************************************************************************)
EXTENDS LintGate

CONSTANTS unused, leak, glob, site, elsewhere, dir, plain, reserved,
          slashDb, otherDb, slash, colon, debug

Finding(rule, at, name, sev) == [rule |-> rule, site |-> at, name |-> name, sev |-> sev]

Dead == Finding(unused, site, plain, 2)
Ignored == Finding(unused, site, reserved, 2)
Far == Finding(unused, elsewhere, plain, 2)
Leak == Finding(leak, elsewhere, plain, 1)
Glob == Finding(glob, site, plain, 2)

Torn == Finding(glob, elsewhere, None, 2)

MCFindings == {Dead, Ignored, Far, Leak, Glob, Torn}
MCRecordings == {{}, {Dead}, {Ignored, Far, Leak, Glob}, {Dead, Torn}}

\* At most two departures from the bare command; a --fail-on that does not parse
\* (0) is given alone or with --write-baseline, the file it comes too late for.
Departures(o) ==
    {f \in {"path", "also", "read", "write", "allowUser", "failOn"} :
        o[f] # [path |-> {}, also |-> {}, read |-> FALSE, write |-> FALSE,
                allowUser |-> TRUE, failOn |-> None][f]}
MCOptions ==
    {o \in [path : {{}, {dir}}, also : {{}, {otherDb}}, read : BOOLEAN, write : BOOLEAN,
            allowUser : BOOLEAN, failOn : {0, 3, None}] :
        /\ Cardinality(Departures(o)) <= 2
        /\ o.failOn = 0 => Departures(o) \subseteq {"failOn", "write"}}

Config(enable, disable, failOn, severity, ignore) ==
    [enable |-> enable, disable |-> disable, failOn |-> failOn, severity |-> severity,
     ignore |-> ignore]

NoEntries == [r \in {} |-> 0]

MCConfigs ==
    {Config({}, {}, 2, NoEntries, NoEntries),
     Config({unused, leak}, {unused}, 2, [r \in {leak} |-> 3], [r \in {unused} |-> {}])}

MCBelow == [p \in {dir} |-> {site}]
MCDbOf == [p \in {slash, colon, debug} |-> IF p = debug THEN otherDb ELSE slashDb]
MCPresetLists == {<<slash, debug, colon>>}

=============================================================================
