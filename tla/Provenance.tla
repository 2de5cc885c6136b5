------------------------------ MODULE Provenance -----------------------------
(***************************************************************************)
(* How a library or a requirement reaches a target: why-links, and         *)
(* why-includes / why-flag (crates/cmakedb-passes/src/provenance.rs).      *)
(*                                                                         *)
(* The property compares them with CMake's own closure of the same         *)
(* configure.  Directory-level link_libraries is no part of it (why-links  *)
(* explains the calls that name the target), nor is $<LINK_ONLY:...> of a  *)
(* static library's PRIVATE links.                                         *)
(***************************************************************************)
EXTENDS GraphView

CONSTANT Stems      \* a library as written |-> the names it is asked for by (libz.so: z)

MaxPaths == 64
MaxDepth == 32

RowsOf(rows, t) == SelectSeq(rows, LAMBDA e : e.src = t)

-----------------------------------------------------------------------------
(* why-links                                                               *)

DstMatches(e, query) ==
    \/ query \in {e.dst, e.to}
    \/ e.dst \in DOMAIN Stems /\ query \in Stems[e.dst]

\* Slip: what an intermediate target keeps to itself is followed too.
SlipFollows(e, path) == TRUE

\* After the first hop only PUBLIC and INTERFACE links propagate.
Follows(e, path) ==
    path # <<>> => e.vis # "PRIVATE"

\* Simple paths, depth first; a path ends where the query matches.
RECURSIVE Explore(_, _, _, _, _, _)
Explore(rows, cur, query, path, visited, found) ==
    IF Len(found) >= MaxPaths \/ Len(path) >= MaxDepth THEN found
    ELSE FoldLeft(LAMBDA acc, e :
            IF ~Follows(e, path) THEN acc
            ELSE IF DstMatches(e, query) THEN Append(acc, Append(path, e))
            ELSE IF e.to # None /\ e.to \notin visited
                 THEN Explore(rows, e.to, query, Append(path, e), visited \cup {e.to}, acc)
                 ELSE acc,
            found, RowsOf(rows, cur))

WhyLinks(rows, name, query) ==
    LET t == TargetId(name)
    IN  IF t = None THEN {} ELSE ToSet(Explore(rows, t, query, <<>>, {t}, <<>>))

-----------------------------------------------------------------------------
(* why-includes, why-flag                                                  *)

\* Paths to the targets that declare it, each with its declaration last.
WhyRequirement(rows, t, kind, value) ==
    UNION {IF q.tgt = TargetId(t) THEN {<<q>>}
           ELSE IF q.vis = "PRIVATE" THEN {}
           ELSE {Append(p, q) : p \in WhyLinks(rows, t, q.tgt)} :
              q \in {r \in ToSet(Reqs) : r.kind = kind /\ r.value = value}}

-----------------------------------------------------------------------------
(* What they promise.                                                      *)

\* Every library and every requirement that propagation gives a target has a
\* path of calls that CMake still honours, and a path of such calls that does
\* not begin with an INTERFACE link is a way the library does reach the target;
\* `graph --target` keeps all of them (provenance.rs:117, 234; graph.rs:113).
LinksExplained ==
    LET rows == Edges
        names == {edges[i].dst : i \in DOMAIN edges}
        Holds(p) == \A i \in DOMAIN p : IF i = 1 THEN CurrentLink(p[i])
                                       ELSE p[i].vis # "PRIVATE" => ExportedLink(p[i])
        Ends(p, d) == Last(p).dst = d \/ (Meant(d) # None /\ Last(p).to = Meant(d))
    IN  /\ GraphKeepsClosure
        /\ \A name \in DOMAIN targets :
            LET t == Meant(name) IN
            /\ \A d \in names :
                LET paths == {p \in WhyLinks(rows, name, d) : Holds(p)}
                    there == \E n \in LinkNames(t) : n = d \/ (Meant(d) # None /\ Meant(n) = Meant(d))
                IN  /\ there => \E p \in paths : Ends(p, d)
                    /\ (\E p \in paths : Ends(p, d) /\ p[1].vis # "INTERFACE") => there
            /\ \A d \in Closure(t) : \A i \in world.iface[d] :
                LET given == {q \in ToSet(Reqs) : q.tgt = d /\ q.ev = i.ev /\ q.value = i.value[2]}
                IN  \E q \in given : \E p \in WhyRequirement(rows, name, i.kind, i.value[2]) :
                        /\ Last(p) = q
                        /\ d # t => Holds(Front(p)) /\ Front(p) # <<>> /\ Last(Front(p)).to = d

=============================================================================
