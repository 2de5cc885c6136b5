------------------------------ MODULE Modernize -------------------------------
(***************************************************************************)
(* The planner of `modernize` (crates/cmakedb-passes/src/modernize.rs):    *)
(* a command at directory scope is deleted and its values are given        *)
(* PRIVATE to the targets it reached; and what the plan does to the        *)
(* configure, as the verification by a new recording sees it (GraphDiff).  *)
(***************************************************************************)
EXTENDS DirCommands, FileApi

Legacy == {"include_directories", "add_definitions", "add_compile_options", "link_libraries"}
Transparent == {"macro", "include"}

\* Only a directory scope, or a macro or file included in one.
PlainDirScope(s) ==
    LET around == {x \in Chain(s) : scopes[x].kind \notin Transparent}
    IN  IF around = {} THEN 0 ELSE DirOr0(Max(around))

\* The values of a call; None when it is not understood.
ExtractValues(c) ==
    CASE c.cmd = "include_directories" -> ToSet(c.args) \ OrderWords
      [] c.cmd = "add_definitions" ->
            IF ToSet(c.args) \subseteq DOMAIN DashD THEN {DashD[w] : w \in ToSet(c.args)} ELSE {None}
      [] c.cmd = "link_libraries" -> ToSet(c.args) \ ConfigWords
      [] OTHER -> ToSet(c.args)

\* The source directory of a scope: that of its list file, found by way of the
\* file that opens it, which is taken to be one of the directory around it.
SourceDir(s) == DirOr0(s)

\* A relative include directory is one of the directory the command acts in.
Absolutize(value, cmd, dir) ==
    IF cmd = "include_directories" /\ value \in Relative
    THEN <<SourceDir(dir), value>> ELSE <<0, value>>

\* What the File API says of a target.
Resolved(t) == {<<r.kind, r.value>> : r \in ApiRows(t)}

\* Slip: targets of subdirectories are left out.
SlipScopeWithin(s, dir) ==
    NearestDir(s) = dir

ScopeWithin(s, dir) ==
    dir \in Chain(s)

\* Targets defined after the event below its directory, that have every value.
AffectedTargets(ev, dir, wanted) ==
    {t \in Real : /\ ~targets[t].imported /\ InFileApi(t) /\ targets[t].ev > ev
                  /\ ScopeWithin(DefScope(t), dir)
                  /\ wanted \subseteq Resolved(t)}

Evaluations(node, cmd) ==
    {ev \in DOMAIN events : events[ev].c.node = node /\ events[ev].c.cmd = cmd /\ InSource(ev)}

\* What is planned for a syntax node; None when a note says why not.
PlanNode(node, cmd) ==
    LET evs    == Evaluations(node, cmd)
        ev     == Min(evs)
        c      == events[ev].c
        dir    == PlainDirScope(events[ev].scope)
        values == ExtractValues(c)
        wanted == {<<DirKind[cmd], Absolutize(v, cmd, dir)>> : v \in values}
        given  == AffectedTargets(ev, dir, wanted)
    IN  IF \/ \E e \in evs : events[e].c.args # c.args
           \/ dir = 0
           \/ values = {} \/ None \in values
           \/ given = {}
           \/ \E t \in given : ~InSource(targets[t].ev)
        THEN None
        ELSE [deletes |-> evs, gives |-> wanted, to |-> given]

Plans ==
    {PlanNode(events[ev].c.node, events[ev].c.cmd) :
        ev \in {e \in DOMAIN events : events[e].c.cmd \in Legacy /\ InSource(e)}} \ {None}

-----------------------------------------------------------------------------
(* The configure of the patched project.                                   *)

OwnAfter(plan, t) ==
    {i \in world.own[t] : i.ev \notin plan.deletes}
    \cup IF t \in plan.to
         THEN {[kind |-> g[1], value |-> g[2], sys |-> FALSE, ev |-> 0] : g \in plan.gives}
         ELSE {}

ValuesAfter(plan, t) == OwnAfter(plan, t) \cup UNION {world.iface[d] : d \in Closure(t)}

Verification(R) == INSTANCE GraphDiff WITH Target <- Real, Edge <- {}, Req <- R

BuildGraphOf(resolved) ==
    [targets |-> Real, edges |-> {}, reqs |-> resolved]

\* CMake's values of the patched project, as they are ingested.
ResolvedAfter(plan, t) ==
    IF ~InFileApi(t) THEN {}
    ELSE {<<i.kind, i.value>> : i \in ValuesAfter(plan, t) \cup LinkFragments(t)}

\* The new recording has the targets and the resolved requirements of the old.
Verified(plan) ==
    LET old == [t \in Real |-> Resolved(t)]
        new == [t \in Real |-> ResolvedAfter(plan, t)]
        all == UNION {old[t] \cup new[t] : t \in Real}
    IN  Verification(all)!NoProblems(BuildGraphOf(old), BuildGraphOf(new))

\* A definition executed once, and no target that the command reached back to:
\* the planner sees neither, and leaves such plans to the verification.
Plain(plan) ==
    /\ Cardinality(plan.deletes) = 1
    /\ \A t \in plan.to : \A u \in Real \ {t} :
            events[targets[u].ev].c.node # events[targets[t].ev].c.node
    /\ \A ev \in plan.deletes : \A t \in Candidates :
            events[ev].c.cmd \in Retroactive /\ targets[t].ev < ev
                => world.home[t] # EffectiveDir(events[ev].scope)

\* The plan of a plain command survives its verification: every target that had
\* the values keeps them, below subdirectories and through macros and functions,
\* and no other target gets them (modernize.rs:81, 232, 347).
PlainPlansVerify == \A plan \in Plans : Plain(plan) => Verified(plan)

\* A fix that survives the verification preserves what the targets compile with.
VerifiedFixPreserves ==
    \A plan \in Plans : Verified(plan) =>
        \A t \in Real : {<<i.kind, i.value, i.sys>> : i \in Values(t)}
                            = {<<i.kind, i.value, i.sys>> : i \in ValuesAfter(plan, t)}

=============================================================================
