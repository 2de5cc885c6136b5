------------------------------ MODULE GraphView -------------------------------
(***************************************************************************)
(* The dependency graph of `graph` (crates/cmakedb-cli/src/graph.rs).      *)
(***************************************************************************)
EXTENDS Configure

\* The target a name on the command line stands for: aliases are followed, as
\* they are for the rows.
TargetId(name) == Resolve(name)

\* A target and what it depends on, whatever the visibility.
Reached(rows, t) ==
    LET grow[k \in 0..Cardinality(Real)] ==
            IF k = 0 THEN {t}
            ELSE LET some == grow[k-1]
                 IN  some \cup ({e.to : e \in {r \in rows : r.src \in some}} \ {None})
    IN  grow[Cardinality(Real)]

\* `paths` keeps the targets defined in one of these files.
Kept(rows, t, paths) ==
    {u \in IF t = None THEN Real ELSE Reached(rows, TargetId(t)) :
        paths # {} => events[targets[u].ev].c.file \in paths}

Graph(t, paths, external) ==
    LET rows  == ToSet(Edges)
        kept  == Kept(rows, t, paths)
        shown == {e \in rows : /\ e.src \in kept
                               /\ IF e.to = None THEN external ELSE e.to \in kept}
    IN  [nodes |-> kept, externals |-> {e.dst : e \in {f \in shown : f.to = None}}, edges |-> shown]

-----------------------------------------------------------------------------
(* What the command promises.                                              *)

\* `graph --target` shows every target whose interface the target compiles with
\* (graph.rs:113).
GraphKeepsClosure ==
    \A name \in DOMAIN targets : Closure(Meant(name)) \subseteq Graph(name, {}, TRUE).nodes

=============================================================================
