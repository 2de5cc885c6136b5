------------------------------ MODULE Configure ------------------------------
(***************************************************************************)
(* A configure of CMake as the passes over targets see it: the commands    *)
(* that define targets, link them, and give them usage requirements,       *)
(* executed in the scopes a trace shows; what ingestion collects of them   *)
(* (collect_graph, record_prop and finalize_graph of                       *)
(* crates/cmakedb-db/src/ingest/dataflow.rs); and, external, what CMake    *)
(* itself makes of them (`world`).                                         *)
(*                                                                         *)
(* A call has the arguments of the trace, lists already split, and its     *)
(* place: syntax node, file, line, whether the file is in the source tree  *)
(* and whether it is one of a try_compile's scratch project.  The project  *)
(* executes the calls of `lead` in their order, then any of `calls`.       *)
(***************************************************************************)
EXTENDS Naturals, Sequences, FiniteSets, SequencesExt

CONSTANTS
    Projects,   \* what may be configured
    DashD,      \* -DX |-> X
    Relative,   \* include directories written as relative paths
    None

VARIABLES
    project,    \* [lead, calls, free, kinds, scopes]
    scopes,     \* the scopes entered so far, [kind, parent]; the first is the root
    stack,      \* those that are open, innermost last
    events,     \* the calls executed, with their scope
    targets,    \* name -> [type, imported, alias, ev]: the table of targets
    edges,      \* the link edges collected, as written
    reqs,       \* the usage requirements collected, as written
    world       \* CMake's own directories and targets

vars == <<project, scopes, stack, events, targets, edges, reqs, world>>

\* A call has a list of words, and names the target it is about.
ASSUME ConfigureAssumption ==
    /\ None \notin DOMAIN DashD \cup {"ALIAS", "PUBLIC", "PRIVATE", "INTERFACE", "LINK_PUBLIC",
                                     "LINK_PRIVATE", "LINK_INTERFACE_LIBRARIES"}
    /\ \A p \in Projects :
        /\ p.lead \in Seq(ToSet(p.lead))
        /\ \A c \in ToSet(p.lead) \cup p.calls : c.args \in Seq(ToSet(c.args))

Vis == {"PUBLIC", "PRIVATE", "INTERFACE"}
LinkVis == [PUBLIC |-> "PUBLIC", LINK_PUBLIC |-> "PUBLIC",
            PRIVATE |-> "PRIVATE", LINK_PRIVATE |-> "PRIVATE",
            INTERFACE |-> "INTERFACE", LINK_INTERFACE_LIBRARIES |-> "INTERFACE"]
ConfigWords == {"debug", "optimized", "general"}
OrderWords == {"SYSTEM", "BEFORE", "AFTER"}

ReqKind == [target_include_directories |-> "include", target_compile_definitions |-> "define",
            target_compile_options |-> "option", target_compile_features |-> "feature",
            target_link_options |-> "link_option"]
DirKind == [include_directories |-> "include", add_definitions |-> "define",
            add_compile_definitions |-> "define", add_compile_options |-> "option",
            link_libraries |-> "link"]
PropKind == [INTERFACE_INCLUDE_DIRECTORIES |-> "include", INTERFACE_COMPILE_DEFINITIONS |-> "define",
             INTERFACE_COMPILE_OPTIONS |-> "option"]
LibraryTypes == <<"STATIC", "SHARED", "MODULE", "OBJECT", "INTERFACE", "UNKNOWN">>

\* f with one value more, that of x.
Put(f, x, v) == [y \in {x} \cup DOMAIN f |-> IF y = x THEN v ELSE f[y]]

Strip(w) == IF w \in DOMAIN DashD THEN DashD[w] ELSE w

-----------------------------------------------------------------------------
(* What ingestion collects of one call.                                    *)

TargetOf(c, ev) ==
    LET words == ToSet(Tail(c.args))
        named == {i \in DOMAIN LibraryTypes : LibraryTypes[i] \in words}
        alias == Len(c.args) = 3 /\ c.args[2] = "ALIAS"
    IN  [type     |-> IF alias THEN "ALIAS"
                      ELSE CASE c.cmd = "add_executable" -> "EXECUTABLE"
                             [] c.cmd = "add_custom_target" -> "UTILITY"
                             [] OTHER -> IF named = {} THEN None
                                         ELSE LibraryTypes[CHOOSE i \in named : \A j \in named : i <= j],
         imported |-> "IMPORTED" \in words,
         alias    |-> IF alias THEN c.args[3] ELSE None,
         ev       |-> ev]

\* Slip: an item of a link call takes the visibility of the next keyword.
SlipLinkRows(c, ev) ==
    FoldRight(LAMBDA w, acc :
        IF w \in DOMAIN LinkVis THEN [acc EXCEPT !.vis = LinkVis[w]]
        ELSE IF w \in ConfigWords THEN acc
        ELSE [acc EXCEPT !.rows = <<[src |-> c.args[1], dst |-> w, vis |-> acc.vis, ev |-> ev]>> \o @],
        Tail(c.args), [vis |-> "PUBLIC", rows |-> <<>>]).rows

\* The words that are no keywords, each with the visibility before it.
WordsWithVis(words, visOf, skipped, plain) ==
    FoldLeft(LAMBDA acc, w :
        IF w \in DOMAIN visOf THEN [acc EXCEPT !.vis = visOf[w]]
        ELSE IF w \in skipped THEN acc
        ELSE [acc EXCEPT !.items = Append(@, [word |-> w, vis |-> acc.vis])],
        [vis |-> plain, items |-> <<>>], words).items

\* The configuration keywords of the items are dropped.
LinkRows(c, ev) ==
    LET items == WordsWithVis(Tail(c.args), LinkVis, ConfigWords, "PUBLIC")
    IN  [i \in DOMAIN items |->
            [src |-> c.args[1], dst |-> items[i].word, vis |-> items[i].vis, ev |-> ev]]

RowsOfReqs(c, items, ev) ==
    LET kind == ReqKind[c.cmd]
    IN  [i \in DOMAIN items |->
            [tgt |-> c.args[1], kind |-> kind, vis |-> items[i].vis, ev |-> ev,
             value |-> IF kind = "define" THEN Strip(items[i].word) ELSE items[i].word]]

\* Slip: the keyword INTERFACE is PUBLIC.
SlipReqRows(c, ev) ==
    RowsOfReqs(c, WordsWithVis(Tail(c.args),
                    [v \in Vis |-> IF v = "INTERFACE" THEN "PUBLIC" ELSE v],
                    OrderWords, "PRIVATE"), ev)

ReqRows(c, ev) ==
    RowsOfReqs(c, WordsWithVis(Tail(c.args), [v \in Vis |-> v], OrderWords, "PRIVATE"), ev)

\* set_property(TARGET t [APPEND] PROPERTY p v...), and set_target_properties
\* of one property: the rows do not tell an overwrite from an append.
PropLinks(c, ev) ==
    IF c.prop # "INTERFACE_LINK_LIBRARIES" THEN <<>>
    ELSE [i \in DOMAIN c.args |-> [src |-> c.tgt, dst |-> c.args[i], vis |-> "INTERFACE", ev |-> ev]]

PropReqs(c, ev) ==
    IF c.prop \notin DOMAIN PropKind THEN <<>>
    ELSE [i \in DOMAIN c.args |-> [tgt |-> c.tgt, kind |-> PropKind[c.prop], vis |-> "INTERFACE",
                                   ev |-> ev, value |-> c.args[i]]]

-----------------------------------------------------------------------------
(* finalize_graph: names are resolved once all targets are known.          *)

\* The real target a name stands for; None outside the recording and in a
\* ring of aliases.
Resolve(name) ==
    LET after[k \in 0..Cardinality(DOMAIN targets)] ==
            IF k = 0 THEN name
            ELSE IF after[k-1] \in DOMAIN targets /\ targets[after[k-1]].alias # None
                 THEN targets[after[k-1]].alias
                 ELSE after[k-1]
        last == after[Cardinality(DOMAIN targets)]
    IN  IF last \in DOMAIN targets /\ targets[last].alias = None THEN last ELSE None

\* The rows of a list that are in ok.
KeptRows(rows, ok) == FoldLeft(LAMBDA acc, r : IF r \in ok THEN Append(acc, r) ELSE acc, <<>>, rows)

\* Rows of tgt_edges: those of targets the recording knows.
Edges ==
    LET known == KeptRows(edges, {e \in ToSet(edges) : Resolve(e.src) # None})
    IN  [i \in DOMAIN known |-> [src |-> Resolve(known[i].src), dst |-> known[i].dst,
            to |-> Resolve(known[i].dst), vis |-> known[i].vis, ev |-> known[i].ev]]

\* Rows of usage_reqs with source 'trace'.
Reqs ==
    LET known == KeptRows(reqs, {q \in ToSet(reqs) : Resolve(q.tgt) # None})
    IN  [i \in DOMAIN known |-> [known[i] EXCEPT !.tgt = Resolve(@)]]

-----------------------------------------------------------------------------
(* CMake: directories hold properties that subdirectories copy when they   *)
(* are entered and targets when they are created; a target compiles with   *)
(* what it has and what the targets in its closure export.                 *)

Here == Last(world.dir)

InTry == \E i \in DOMAIN stack : scopes[stack[i]].kind = "try_compile"

\* A value in CMake: relative include directories are those of a directory.
Meaning(w, kind, d) == IF kind = "include" /\ w \in Relative THEN <<d, w>> ELSE <<0, w>>

KeywordBefore(words, i, keys) ==
    LET before == {j \in 1..(i-1) : words[j] \in keys}
    IN  IF before = {} THEN None ELSE words[CHOOSE j \in before : \A k \in before : k <= j]

LinkKeys == DOMAIN LinkVis

\* The items of a link call, by position: [dst, vis, cfg].
LinkItems(c) ==
    LET words == Tail(c.args)
    IN  [i \in {j \in DOMAIN words : words[j] \notin LinkKeys \cup ConfigWords} |->
            [dst |-> words[i],
             vis |-> LET k == KeywordBefore(words, i, LinkKeys)
                     IN  IF k = None THEN "PUBLIC" ELSE LinkVis[k],
             cfg |-> IF i > 1 /\ words[i-1] \in {"debug", "optimized"} THEN words[i-1] ELSE "all"]]

LinksFor(c, ev, viss) ==
    LET it == LinkItems(c)
    IN  {[dst |-> it[i].dst, ev |-> ev] : i \in {j \in DOMAIN it : it[j].vis \in viss}}

ReqItems(c, ev, viss) ==
    LET words == Tail(c.args)
        kind  == ReqKind[c.cmd]
    IN  {[kind |-> kind, value |-> Meaning(IF kind = "define" THEN Strip(words[i]) ELSE words[i], kind, Here),
          sys |-> "SYSTEM" \in ToSet(words), ev |-> ev] :
            i \in {j \in DOMAIN words : /\ words[j] \notin Vis \cup OrderWords
                                        /\ KeywordBefore(words, j, Vis) \in viss}}

\* The words of a directory command that are values.
DirWords(c) ==
    ToSet(c.args) \ CASE c.cmd = "include_directories" -> OrderWords
                      [] c.cmd = "link_libraries" -> ConfigWords
                      [] OTHER -> {}

\* What a directory command adds to its directory.
DirItems(c, ev, dir) ==
    {LET kind == IF c.cmd = "add_definitions" /\ w \notin DOMAIN DashD
                 THEN "option" ELSE DirKind[c.cmd]
     IN  [kind |-> kind, value |-> Meaning(IF kind = "define" THEN Strip(w) ELSE w, kind, dir),
          sys |-> "SYSTEM" \in ToSet(c.args), ev |-> ev] : w \in DirWords(c)}

PropItems(c, ev) ==
    {[kind |-> PropKind[c.prop], value |-> Meaning(w, PropKind[c.prop], Here),
      sys |-> FALSE, ev |-> ev] : w \in ToSet(c.args)}

\* Commands that also reach the targets their directory already has.
Retroactive == {"include_directories", "add_definitions", "add_compile_definitions"}

\* The target CMake means by a name when it generates.
Meant(name) ==
    IF name \notin DOMAIN targets THEN None
    ELSE IF targets[name].alias = None THEN name ELSE targets[name].alias

Real == {t \in DOMAIN targets : targets[t].alias = None}

Exported(t) == {Meant(l.dst) : l \in world.ilinks[t]} \ {None}
Linked(t)   == {Meant(l.dst) : l \in world.links[t]} \ {None}

\* The targets whose interface t compiles with.
Closure(t) ==
    LET grow[k \in 0..Cardinality(Real)] ==
            IF k = 0 THEN Linked(t) ELSE grow[k-1] \cup UNION {Exported(d) : d \in grow[k-1]}
    IN  grow[Cardinality(Real)]

\* All it links, libraries that are no targets included.
LinkNames(t) ==
    {l.dst : l \in world.links[t] \cup UNION {world.ilinks[d] : d \in Closure(t)}}

Values(t) == world.own[t] \cup UNION {world.iface[d] : d \in Closure(t)}

-----------------------------------------------------------------------------
(* The configure.                                                          *)

Init ==
    /\ project \in Projects
    /\ scopes = <<[kind |-> "root", parent |-> 0]>>
    /\ stack = <<1>>
    /\ events = <<>>
    /\ targets = <<>>
    /\ edges = <<>>
    /\ reqs = <<>>
    /\ world = [dir |-> <<1>>, props |-> <<{}>>, home |-> <<>>, own |-> <<>>,
                iface |-> <<>>, links |-> <<>>, ilinks |-> <<>>]

Doable ==
    IF Len(events) < Len(project.lead) THEN {project.lead[Len(events) + 1]}
    ELSE IF Len(events) < Len(project.lead) + project.free THEN project.calls ELSE {}

Now == Len(events) + 1
Log(c) == events' = Append(events, [c |-> c, scope |-> Last(stack)])

\* A directory and a scratch project begin with properties of their own:
\* the copy of their parent's, and none.
Open(kind) ==
    /\ kind \in project.kinds /\ Len(scopes) <= project.scopes
    /\ Len(events) >= Len(project.lead)
    /\ LET s == Len(scopes) + 1
       IN  /\ scopes' = Append(scopes, [kind |-> kind, parent |-> Last(stack)])
           /\ stack' = Append(stack, s)
           /\ world' = IF kind \notin {"directory", "try_compile"} THEN world
                       ELSE [world EXCEPT !.dir = Append(@, s),
                                !.props = Put(@, s, IF kind = "directory" THEN @[Here] ELSE {})]
    /\ UNCHANGED <<project, events, targets, edges, reqs>>

Close ==
    /\ Len(stack) > 1
    /\ stack' = Front(stack)
    /\ world' = IF Here = Last(stack) THEN [world EXCEPT !.dir = Front(@)] ELSE world
    /\ UNCHANGED <<project, scopes, events, targets, edges, reqs>>

\* CMake refuses a name it has, an alias of nothing, and a library of unknown
\* type that is not imported.
AddTarget(c) ==
    /\ c.args # <<>>
    /\ c.cmd \in {"add_library", "add_executable", "add_custom_target"}
    /\ ~InTry /\ ~c.scratch
    /\ c.args[1] \notin DOMAIN targets
    /\ LET name == c.args[1]
           t    == TargetOf(c, Now)
       IN  /\ t.alias # None => t.alias \in Real
           /\ t.type = "UNKNOWN" => t.imported
           /\ targets' = Put(targets, name, t)
           /\ world' = IF t.alias # None THEN world
                       ELSE [world EXCEPT
                                !.home = Put(@, name, Here),
                                !.own = Put(@, name, IF t.imported \/ t.type \in {"INTERFACE", "UTILITY"}
                                                     THEN {} ELSE world.props[Here]),
                                !.iface = Put(@, name, {}), !.links = Put(@, name, {}),
                                !.ilinks = Put(@, name, {})]
    /\ Log(c)
    /\ UNCHANGED <<project, scopes, stack, edges, reqs>>

\* An interface library links for its consumers only.
LinkLibraries(c) ==
    /\ c.args # <<>>
    /\ c.cmd = "target_link_libraries" /\ ~InTry /\ ~c.scratch
    /\ c.args[1] \in Real /\ targets[c.args[1]].type # "UTILITY"
    /\ LET t == c.args[1]
       IN  /\ targets[t].type = "INTERFACE" \/ targets[t].imported
                => LinksFor(c, Now, {"PUBLIC", "PRIVATE"}) = {}
           /\ edges' = edges \o LinkRows(c, Now)
           /\ world' = [world EXCEPT
                            !.links[t] = @ \cup LinksFor(c, Now, {"PUBLIC", "PRIVATE"}),
                            !.ilinks[t] = @ \cup LinksFor(c, Now, {"PUBLIC", "INTERFACE"})]
    /\ Log(c)
    /\ UNCHANGED <<project, scopes, stack, targets, reqs>>

\* CMake refuses a value before the first visibility.
Requirement(c) ==
    /\ c.args # <<>>
    /\ \A i \in DOMAIN Tail(c.args) :
            Tail(c.args)[i] \notin Vis \cup OrderWords => KeywordBefore(Tail(c.args), i, Vis) # None
    /\ c.cmd \in DOMAIN ReqKind /\ ~InTry /\ ~c.scratch
    /\ c.args[1] \in Real /\ targets[c.args[1]].type # "UTILITY"
    /\ LET t == c.args[1]
       IN  /\ targets[t].type = "INTERFACE" \/ targets[t].imported
                => ReqItems(c, Now, {"PUBLIC", "PRIVATE"}) = {}
           /\ reqs' = reqs \o ReqRows(c, Now)
           /\ world' = [world EXCEPT
                            !.own[t] = @ \cup ReqItems(c, Now, {"PUBLIC", "PRIVATE"}),
                            !.iface[t] = @ \cup ReqItems(c, Now, {"PUBLIC", "INTERFACE"})]
    /\ Log(c)
    /\ UNCHANGED <<project, scopes, stack, targets, edges>>

\* Without APPEND the property loses what it had.
SetProperty(c) ==
    /\ c.cmd \in {"set_property", "set_target_properties"} /\ ~InTry /\ ~c.scratch
    /\ c.tgt \in Real
    /\ edges' = edges \o PropLinks(c, Now)
    /\ reqs' = reqs \o PropReqs(c, Now)
    /\ world' =
        IF c.prop = "INTERFACE_LINK_LIBRARIES"
        THEN [world EXCEPT !.ilinks[c.tgt] =
                (IF c.append THEN @ ELSE {}) \cup {[dst |-> w, ev |-> Now] : w \in ToSet(c.args)}]
        ELSE IF c.prop \in DOMAIN PropKind
        THEN [world EXCEPT !.iface[c.tgt] =
                {q \in @ : c.append \/ q.kind # PropKind[c.prop]} \cup PropItems(c, Now)]
        ELSE world
    /\ Log(c)
    /\ UNCHANGED <<project, scopes, stack, targets>>

\* Not collected: the passes read it off the events.
DirectoryCommand(c) ==
    /\ c.cmd \in DOMAIN DirKind
    /\ LET new == DirItems(c, Now, Here)
           hit == {t \in DOMAIN world.home :
                    /\ world.home[t] = Here /\ c.cmd \in Retroactive
                    /\ ~targets[t].imported /\ targets[t].type \notin {"INTERFACE", "UTILITY"}}
       IN  world' = [world EXCEPT !.props[Here] = @ \cup new,
                                  !.own = [t \in DOMAIN @ |-> IF t \in hit THEN @[t] \cup new ELSE @[t]]]
    /\ Log(c)
    /\ UNCHANGED <<project, scopes, stack, targets, edges, reqs>>

\* A call in a file of a scratch project leaves no rows.
Scratch(c) ==
    /\ InTry /\ c.scratch /\ c.cmd \notin DOMAIN DirKind
    /\ Log(c)
    /\ UNCHANGED <<project, scopes, stack, targets, edges, reqs, world>>

Next ==
    \/ \E c \in Doable : \/ AddTarget(c) \/ LinkLibraries(c) \/ Requirement(c)
                         \/ SetProperty(c) \/ DirectoryCommand(c) \/ Scratch(c)
    \/ \E kind \in project.kinds : Open(kind)
    \/ Close

Spec == Init /\ [][Next]_vars

\* A row whose link is made for the target, for those that link it, for either.
OwnLink(e) == e.vis # "INTERFACE" /\ [dst |-> e.dst, ev |-> e.ev] \in world.links[e.src]
ExportedLink(e) == e.vis # "PRIVATE" /\ [dst |-> e.dst, ev |-> e.ev] \in world.ilinks[e.src]
CurrentLink(e) == OwnLink(e) \/ ExportedLink(e)

\* One of these properties of t was set again after event ev.
ResetAfter(ev, t, props) ==
    \E i \in (ev + 1)..Len(events) :
        LET c == events[i].c
        IN  /\ c.cmd \in {"set_property", "set_target_properties"} /\ ~c.append
            /\ c.tgt = t /\ c.prop \in props

LinkReset(e) == ResetAfter(e.ev, e.src, {"INTERFACE_LINK_LIBRARIES"})
ReqReset(q) == ResetAfter(q.ev, q.tgt, {p \in DOMAIN PropKind : PropKind[p] = q.kind})

\* Whatever was exported still is.
AsWritten ==
    /\ \A e \in ToSet(Edges) : e.vis # "PRIVATE" => ~LinkReset(e)
    /\ \A q \in ToSet(Reqs) : q.vis # "PRIVATE" => ~ReqReset(q)

-----------------------------------------------------------------------------
(* What the passes ask about an event.                                     *)

InSource(ev) == events[ev].c.src
Site(ev) == <<events[ev].c.file, events[ev].c.line>>

\* A scope and those around it, which were entered before it.
Chain(s) ==
    LET up[x \in 0..Len(scopes)] == IF x = 0 THEN {} ELSE {x} \cup up[scopes[x].parent]
    IN  up[s]

HasTryCompile(s) == \E x \in Chain(s) : scopes[x].kind = "try_compile"
InTryCompile(ev) == HasTryCompile(events[ev].scope)

-----------------------------------------------------------------------------
(* What ingestion promises.                                                *)

\* Every link CMake makes from a call of the configure is a row of tgt_edges
\* with its visibility and with the target CMake will take, and every row is
\* such a link, except what a property that was set again has lost
\* (dataflow.rs:1302, 1411, 1477).
RowsCoverLinks ==
    LET Row(t, l, vis) == \E e \in ToSet(Edges) : /\ e.src = t /\ e.dst = l.dst /\ e.ev = l.ev
                                                  /\ e.vis \in {vis, "PUBLIC"} /\ e.to = Meant(l.dst)
    IN  /\ \A t \in Real :
            /\ \A l \in world.links[t] : Row(t, l, "PRIVATE")
            /\ \A l \in world.ilinks[t] : Row(t, l, "INTERFACE")
        /\ \A e \in ToSet(Edges) :
            /\ e.vis # "INTERFACE" => OwnLink(e)
            /\ e.vis # "PRIVATE" => ExportedLink(e) \/ LinkReset(e)

\* Every requirement CMake takes from a call about a target is a row of
\* usage_reqs with its kind, its visibility and its value as it is written, and
\* every row is such a requirement, except what a property that was set again
\* has lost (dataflow.rs:1324, 1432, 1514).
RowsCoverReqs ==
    LET Row(t, i, vis) == \E q \in ToSet(Reqs) : /\ q.tgt = t /\ q.kind = i.kind /\ q.value = i.value[2]
                                                 /\ q.ev = i.ev /\ q.vis \in {vis, "PUBLIC"}
        Held(items, q) == \E i \in items : i.kind = q.kind /\ i.value[2] = q.value /\ i.ev = q.ev
    IN  /\ \A t \in Real :
            /\ \A i \in world.own[t] : events[i.ev].c.cmd \in DOMAIN ReqKind => Row(t, i, "PRIVATE")
            /\ \A i \in world.iface[t] : Row(t, i, "INTERFACE")
        /\ \A q \in ToSet(Reqs) :
            /\ q.vis # "INTERFACE" => Held(world.own[q.tgt], q)
            /\ q.vis # "PRIVATE" => Held(world.iface[q.tgt], q) \/ ReqReset(q)

\* Both tables are CMake's.
RowsMatchCMake == RowsCoverLinks /\ RowsCoverReqs

=============================================================================
