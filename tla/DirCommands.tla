----------------------------- MODULE DirCommands ------------------------------
(***************************************************************************)
(* The passes over commands at directory scope (crates/cmakedb-passes):    *)
(* directory-commands (dircommands.rs) says which targets such a command   *)
(* reaches, shadowed-requirements (shadowedreqs.rs) which requirements     *)
(* reach a target by two routes.  A value stands for its spelling without  *)
(* trailing slashes; configured values without generator expressions.      *)
(***************************************************************************)
EXTENDS Configure, FiniteSetsExt

CONSTANT Folder     \* file -> the directory it is in

\* The directory of a project is opened once; no word is None; a directory
\* command gives something; and SYSTEM is a keyword only.
CallOk(c) ==
    /\ \A i \in 1..Len(c.args) : c.args[i] # None
    /\ c.cmd \in DOMAIN DirKind => DirWords(c) # {}
    /\ c.cmd \in DOMAIN ReqKind => c.args # <<>> /\ c.args[1] # "SYSTEM"
    /\ c.cmd \in {"set_property", "set_target_properties"} => "SYSTEM" \notin ToSet(c.args)

ASSUME DirAssumption ==
    \A p \in Projects :
        "root" \notin p.kinds /\ \A c \in ToSet(p.lead) \cup p.calls : CallOk(c)

-----------------------------------------------------------------------------
(* Scopes.                                                                 *)

\* The innermost scope around s of one of these kinds; 0 when there is none.
Innermost(s, kinds) ==
    LET in == {x \in Chain(s) : scopes[x].kind \in kinds}
    IN  IF in = {} THEN 0 ELSE Max(in)

DirKinds == {"root", "directory"}

DirOr0(s) == IF s # 0 /\ scopes[s].kind \in DirKinds THEN s ELSE 0

\* Where a command at directory scope acts: not through a function.
EffectiveDir(s) == DirOr0(Innermost(s, DirKinds \cup {"function", "try_compile"}))

\* Slip: a target made by a function belongs to no directory.
SlipNearestDir(s) == DirOr0(Innermost(s, DirKinds \cup {"function", "try_compile"}))

\* The directory something belongs to.
NearestDir(s) ==
    DirOr0(Innermost(s, DirKinds \cup {"try_compile"}))

ChainContains(s, ancestor) ==
    /\ ancestor \in Chain(s)
    /\ \A x \in Chain(s) : x > ancestor => scopes[x].kind # "try_compile"

\* Targets a directory command can reach at all.
Candidates ==
    {t \in DOMAIN targets :
        /\ ~targets[t].imported /\ targets[t].alias = None
        /\ targets[t].type \notin {"INTERFACE", "ALIAS", "UTILITY", "UNKNOWN"}
        /\ ~InTryCompile(targets[t].ev)}

DefScope(t) == events[targets[t].ev].scope

-----------------------------------------------------------------------------
(* directory-commands                                                      *)

\* The table of the commands.
ReachesBack(cmd) ==
    cmd \in {"include_directories", "add_definitions", "add_compile_definitions"}

\* Evaluations at directory scope in project files.
DirEvents(cmds) ==
    {ev \in DOMAIN events :
        /\ events[ev].c.cmd \in cmds /\ InSource(ev)
        /\ ~InTryCompile(ev) /\ EffectiveDir(events[ev].scope) # 0}

SiteInDir(ev) == <<events[ev].c.node, Site(ev), EffectiveDir(events[ev].scope)>>

\* Evaluations of one site in one directory are one finding, of the first.
FirstEvents(evs) == {ev \in evs : \A e \in evs : SiteInDir(e) = SiteInDir(ev) => ev <= e}

\* Targets defined later under the directory, and with a command that reaches
\* back those the directory has.
Reaches(ev, t, back) ==
    LET dir == EffectiveDir(events[ev].scope)
    IN  \/ targets[t].ev > ev /\ ChainContains(DefScope(t), dir)
        \/ back /\ NearestDir(DefScope(t)) = dir

DirectoryCommands ==
    {[first |-> ev, affected |-> {t \in Candidates : Reaches(ev, t, ReachesBack(events[ev].c.cmd))}] :
        ev \in FirstEvents(DirEvents(DOMAIN DirKind))}

-----------------------------------------------------------------------------
(* shadowed-requirements                                                   *)

\* What a directory command contributes: <<kind, value>>.
DirValues(c) ==
    CASE c.cmd = "include_directories" -> {<<"include", w>> : w \in ToSet(c.args) \ OrderWords}
      [] c.cmd = "add_definitions" -> {<<"define", DashD[w]>> : w \in ToSet(c.args) \cap DOMAIN DashD}
      [] OTHER -> {<<"define", Strip(w)>> : w \in ToSet(c.args)}

HasSystem(ev) == "SYSTEM" \in ToSet(events[ev].c.args)

ProjectReqs ==
    {q \in ToSet(Reqs) : q.kind \in {"include", "define"} /\ InSource(q.ev) /\ ~InTryCompile(q.ev)}

\* The dependencies t links in project files, whatever the visibility.
DepsOf(t) == {e.to : e \in {f \in ToSet(Edges) : f.src = t /\ InSource(f.ev)}} \ {t, None}

Routes(t, key) ==
    LET has(q) == <<q.kind, q.value>> = key
    IN  {[cat |-> "direct", ev |-> q.ev, from |-> t] : q \in {r \in ProjectReqs : r.tgt = t /\ has(r)}}
        \cup {[cat |-> "directory", ev |-> ev, from |-> t] :
                ev \in {e \in FirstEvents(DirEvents(Retroactive)) :
                            key \in DirValues(events[e].c) /\ Reaches(e, t, TRUE)}}
        \cup {[cat |-> "transitive", ev |-> q.ev, from |-> q.tgt] :
                q \in {r \in ProjectReqs : r.tgt \in DepsOf(t) /\ r.vis # "PRIVATE" /\ has(r)}}

\* The narrowest declaration first.
Primary(routes) ==
    LET of(cat) == {r \in routes : r.cat = cat}
        first(rs) == CHOOSE r \in rs : \A q \in rs : r.ev <= q.ev
    IN  IF of("direct") # {} THEN first(of("direct"))
        ELSE IF of("directory") # {} THEN first(of("directory")) ELSE None

\* Slip: SYSTEM makes no difference.
SlipShadows(r, primary) ==
    /\ r.cat # primary.cat
    /\ Folder[events[r.ev].c.file] = Folder[events[primary.ev].c.file]

\* Another route proves the primary redundant: as SYSTEM as it is, and declared
\* in the same directory's files.
Shadows(r, primary) ==
    /\ r.cat # primary.cat
    /\ HasSystem(r.ev) <=> HasSystem(primary.ev)
    /\ Folder[events[r.ev].c.file] = Folder[events[primary.ev].c.file]

Keys == {<<q.kind, q.value>> : q \in ProjectReqs}
        \cup UNION {DirValues(events[ev].c) : ev \in DirEvents(Retroactive)}

ShadowedRequirements ==
    UNION {LET routes  == Routes(t, key)
               primary == Primary(routes)
           IN  IF primary = None THEN {}
               ELSE {[target |-> t, key |-> key, primary |-> primary, by |-> r] :
                        r \in {q \in routes : Shadows(q, primary)}} :
             t \in Candidates, key \in Keys}

-----------------------------------------------------------------------------
(* What they promise.                                                      *)

\* directory-commands lists for a call site exactly the targets CMake gives
\* something of it: through subdirectories entered later, functions, macros
\* and files included, back in its own directory where the command does that,
\* and nothing of a try_compile's scratch project (dircommands.rs:35, 124, 313).
AffectedExact ==
    \A f \in DirectoryCommands :
        f.affected =
            {t \in Real : \E i \in world.own[t] :
                i.ev \in DirEvents({events[f.first].c.cmd}) /\ SiteInDir(i.ev) = SiteInDir(f.first)}

\* Evaluations of one call in the file.
SameCall(ev, other) ==
    events[ev].c.node = events[other].c.node /\ events[ev].c.cmd = events[other].c.cmd

\* Without the declaration shadowed-requirements calls redundant its target still
\* compiles with the value, as SYSTEM as before: for absolute values, dependencies
\* linked for the target itself and properties not set again (shadowedreqs.rs:65).
ShadowedHarmless ==
    AsWritten =>
    \A f \in ShadowedRequirements :
        LET t    == f.target
            same == {i \in Values(t) : i.kind = f.key[1] /\ i.value[2] = f.key[2]}
            gone == {ev \in DOMAIN events : IF f.primary.cat = "direct" THEN ev = f.primary.ev
                                            ELSE SameCall(ev, f.primary.ev)}
        IN  (f.key[2] \notin Relative /\ (f.by.cat = "transitive" => f.by.from \in Closure(t)))
                => \E i \in same : i.ev \notin gone /\ (i.sys <=> HasSystem(f.primary.ev))

=============================================================================
