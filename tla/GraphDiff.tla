------------------------------ MODULE GraphDiff -------------------------------
(***************************************************************************)
(* The two comparisons of build graphs of cmakedb-db/src/diff.rs.  A graph *)
(* is what they read of a recording: the names of the targets that are no  *)
(* aliases, the link edges the trace shows, and per target its resolved    *)
(* requirements (File API rows, each a kind and a value).                  *)
(***************************************************************************)
EXTENDS FiniteSets

CONSTANTS
    Target,  \* names of targets
    Edge,    \* link edges as the trace spells them
    Req      \* resolved requirements

GraphOfTargets(ts) == [targets : {ts}, edges : SUBSET Edge, reqs : [ts -> SUBSET Req]]

BuildGraph == UNION {GraphOfTargets(ts) : ts \in SUBSET Target}

(***************************************************************************)
(* graph_isomorphism_diff: what a verified fix must leave alone.  Edges    *)
(* are the trace's and do not count.                                       *)
(***************************************************************************)
\* What a has of the requirements of a common target and b has not.
Missing(a, b) ==
    {p \in (a.targets \cap b.targets) \X Req : p[2] \in a.reqs[p[1]] \ b.reqs[p[1]]}

\* Slip: requirements the new graph gains are not looked for.
SlipProblems(a, b) ==
    [disappeared |-> a.targets \ b.targets, appeared |-> b.targets \ a.targets,
     lost        |-> Missing(a, b),          gained   |-> {}]

Problems(a, b) ==
    [disappeared |-> a.targets \ b.targets, appeared |-> b.targets \ a.targets,
     lost        |-> Missing(a, b),          gained   |-> Missing(b, a)]

NoProblems(a, b) ==
    LET p == Problems(a, b)
    IN  /\ p.disappeared = {} /\ p.appeared = {}
        /\ p.lost = {} /\ p.gained = {}

(***************************************************************************)
(* diff: the report of `cmakedb diff`.  Requirements are reported of the   *)
(* targets both recordings have.                                           *)
(***************************************************************************)
Changed(a, b) ==
    {t \in a.targets \cap b.targets :
        b.reqs[t] \ a.reqs[t] # {} \/ a.reqs[t] \ b.reqs[t] # {}}

Diff(a, b) ==
    [added_targets   |-> b.targets \ a.targets,
     removed_targets |-> a.targets \ b.targets,
     added_edges     |-> b.edges \ a.edges,
     removed_edges   |-> a.edges \ b.edges,
     changed_reqs    |-> {[target |-> t, added |-> b.reqs[t] \ a.reqs[t],
                           removed |-> a.reqs[t] \ b.reqs[t]] : t \in Changed(a, b)}]

IsEmpty(d) ==
    /\ d.added_targets = {} /\ d.removed_targets = {}
    /\ d.added_edges = {} /\ d.removed_edges = {}
    /\ d.changed_reqs = {}

\* What the two mean to those who use them.
Isomorphic(a, b) == a.targets = b.targets /\ a.reqs = b.reqs

=============================================================================
