------------------------------ MODULE LinkPasses ------------------------------
(***************************************************************************)
(* The passes over the link graph of a recording: duplicate-links and      *)
(* cyclic-links (crates/cmakedb-passes/src/linkgraph.rs).                  *)
(***************************************************************************)
EXTENDS RedundantLinks, FiniteSetsExt

-----------------------------------------------------------------------------
(* duplicate-links                                                         *)

\* Slip: a configuration keyword holds for the rest of the call.
SlipCallOccurrences(c, dst) ==
    FoldLeft(LAMBDA acc, w :
        IF w \in LinkKeys THEN [acc EXCEPT !.vis = LinkVis[w]]
        ELSE IF w \in ConfigWords THEN [acc EXCEPT !.slot = IF w = "general" THEN "all" ELSE w]
        ELSE [acc EXCEPT !.out = IF w = dst THEN Append(@, <<acc.vis, acc.slot>>) ELSE @],
        [vis |-> "PUBLIC", slot |-> "all", out |-> <<>>], Tail(c.args)).out

\* The call walked again: visibility and configuration of every item dst.
CallOccurrences(c, dst) ==
    FoldLeft(LAMBDA acc, w :
        IF w \in LinkKeys THEN [acc EXCEPT !.vis = LinkVis[w]]
        ELSE IF w \in ConfigWords THEN [acc EXCEPT !.slot = IF w = "general" THEN "all" ELSE w]
        ELSE [acc EXCEPT !.out = IF w = dst THEN Append(@, <<acc.vis, acc.slot>>) ELSE @,
                         !.slot = "all"],
        [vis |-> "PUBLIC", slot |-> "all", out |-> <<>>], Tail(c.args)).out

\* The walk is trusted when it finds as many as ingestion did.
Occurrences(rows) ==
    LET evs == SetToSortSeq({rows[i].ev : i \in DOMAIN rows}, <)
        Of(ev) ==
            LET mine == SelectSeq(rows, LAMBDA e : e.ev = ev)
                walk == IF events[ev].c.cmd = "target_link_libraries"
                        THEN CallOccurrences(events[ev].c, mine[1].dst) ELSE <<>>
            IN  IF Len(walk) = Len(mine)
                THEN [i \in DOMAIN walk |-> [vis |-> walk[i][1], slot |-> walk[i][2], ev |-> ev]]
                ELSE [i \in DOMAIN mine |-> [vis |-> mine[i].vis, slot |-> "all", ev |-> ev]]
    IN  FlattenSeq([k \in DOMAIN evs |-> Of(evs[k])])

\* The links from one target to one item, and those of them for which there is
\* another of the same configuration.
Grouped(rows) ==
    {[src |-> g[1], dst |-> g[2],
      occ |-> Occurrences(SelectSeq(rows, LAMBDA e : e.src = g[1] /\ e.dst = g[2]))] :
        g \in {<<rows[i].src, rows[i].dst>> : i \in DOMAIN rows}}

Repeated(g) ==
    [g EXCEPT !.occ = SelectSeq(g.occ, LAMBDA o :
        \E i, j \in DOMAIN g.occ : i # j /\ g.occ[i].slot = o.slot /\ g.occ[j].slot = o.slot)]

DuplicateLinks ==
    {[src |-> g.src, dst |-> g.dst, times |-> Len(g.occ),
      conflict |-> \E i, j \in DOMAIN g.occ : g.occ[i].vis # g.occ[j].vis,
      primary |-> SelectSeq(g.occ, LAMBDA o : InSource(o.ev))[1].ev] :
        g \in {h \in {Repeated(k) : k \in Grouped(Edges)} :
                  \E i \in DOMAIN h.occ : InSource(h.occ[i].ev)}}

-----------------------------------------------------------------------------
(* cyclic-links                                                            *)

FirstRow(rows, a, b) == SelectSeq(rows, LAMBDA e : e.src = a /\ e.to = b)[1]

\* Neighbours in the order of target ids.
Adjacent(rows, v) ==
    SetToSortSeq({rows[i].to : i \in {j \in DOMAIN rows : rows[j].src = v}} \ {None},
                 LAMBDA a, b : targets[a].ev < targets[b].ev)

Least(a, b) == IF a < b THEN a ELSE b

\* Slip: a finished component still lends its index.
SlipMeet(st, v, w) == [st EXCEPT !.low[v] = Least(@, st.index[w])]

\* An edge to a node already numbered.
Meet(st, v, w) ==
    IF w \in ToSet(st.stk) THEN [st EXCEPT !.low[v] = Least(@, st.index[w])] ELSE st

\* Tarjan's walk from v.
RECURSIVE StrongConnect(_, _, _)
StrongConnect(rows, v, st) ==
    LET entered == [st EXCEPT !.next = @ + 1, !.stk = Append(@, v),
                              !.index = @ @@ (v :> st.next), !.low = @ @@ (v :> st.next)]
        walked  == FoldLeft(LAMBDA s, w :
                        IF w \in DOMAIN s.index THEN Meet(s, v, w)
                        ELSE LET deep == StrongConnect(rows, w, s)
                             IN  [deep EXCEPT !.low[v] = Least(@, deep.low[w])],
                        entered, Adjacent(rows, v))
        at      == CHOOSE i \in DOMAIN walked.stk : walked.stk[i] = v
    IN  IF walked.low[v] # walked.index[v] THEN walked
        ELSE [walked EXCEPT !.stk = SubSeq(@, 1, at - 1),
                            !.comps = @ \cup {ToSet(SubSeq(walked.stk, at, Len(walked.stk)))}]

StronglyConnected(rows) ==
    LET nodes == {rows[i].src : i \in DOMAIN rows} \cup ({rows[i].to : i \in DOMAIN rows} \ {None})
        roots == SetToSortSeq(nodes, LAMBDA a, b : targets[a].ev < targets[b].ev)
    IN  FoldLeft(LAMBDA st, v : IF v \in DOMAIN st.index THEN st ELSE StrongConnect(rows, v, st),
                 [next |-> 0, index |-> <<>>, low |-> <<>>, stk |-> <<>>, comps |-> {}], roots).comps

RECURSIVE Ancestry(_, _, _)
Ancestry(parent, start, v) ==
    IF v = start THEN <<start>> ELSE Append(Ancestry(parent, start, parent[v]), v)

RECURSIVE CycleSearch(_, _, _, _, _)
CycleSearch(rows, start, allowed, queue, parent) ==
    IF queue = <<>> THEN <<>>
    ELSE LET u   == Head(queue)
             adj == Adjacent(rows, u)
             new == SelectSeq(adj, LAMBDA w : w \in allowed \ {start, u} /\ w \notin DOMAIN parent)
         IN  IF start \in ToSet(adj) THEN Append(Ancestry(parent, start, u), start)
             ELSE CycleSearch(rows, start, allowed, Tail(queue) \o new,
                              parent @@ [w \in ToSet(new) |-> u])

ShortestCycle(rows, start, allowed) ==
    IF start \in ToSet(Adjacent(rows, start)) THEN <<start, start>>
    ELSE CycleSearch(rows, start, allowed, <<start>>, <<>>)

\* A cycle is shown when a hop of the path shown is in the source tree.
CyclicLinks ==
    LET rows  == SelectSeq(Edges, LAMBDA e : e.to # None)
        comps == {c \in StronglyConnected(rows) :
                    /\ Cardinality(c) >= 2 \/ \E t \in c : t \in ToSet(Adjacent(rows, t))
                    /\ \A t \in c : ~targets[t].imported}
        Start(c) == CHOOSE t \in c : \A u \in c : Rank(t) <= Rank(u)
        found == {[group |-> c, path |-> ShortestCycle(rows, Start(c), c)] : c \in comps}
    IN  {f \in found : \E i \in 1..(Len(f.path) - 1) :
            InSource(FirstRow(rows, f.path[i], f.path[i+1]).ev)}

-----------------------------------------------------------------------------
(* What the passes promise.                                                *)

\* duplicate-links reports a pair exactly when two items of the calls name the
\* library for the same configuration, one of them in the source tree; the
\* number and the conflict of visibilities it states are theirs, keyword by
\* keyword (linkgraph.rs:56, 178).
DuplicatesExact ==
    LET Items(t, d) ==
            UNION {LET c == events[ev].c IN
                   CASE c.cmd = "target_link_libraries" /\ c.args[1] = t ->
                          LET it == LinkItems(c) IN
                          {[ev |-> ev, at |-> i, vis |-> it[i].vis, cfg |-> it[i].cfg] :
                             i \in {j \in DOMAIN it : it[j].dst = d}}
                     [] c.cmd \in {"set_property", "set_target_properties"} /\ c.tgt = t
                        /\ c.prop = "INTERFACE_LINK_LIBRARIES" ->
                          {[ev |-> ev, at |-> i, vis |-> "INTERFACE", cfg |-> "all"] :
                             i \in {j \in DOMAIN c.args : c.args[j] = d}}
                     [] OTHER -> {} : ev \in DOMAIN events}
        Twice(t, d) == {o \in Items(t, d) : \E p \in Items(t, d) : p # o /\ p.cfg = o.cfg}
        found == DuplicateLinks
    IN  \A t \in Real, d \in {edges[i].dst : i \in DOMAIN edges} :
            LET twice == Twice(t, d)
                mine  == {f \in found : f.src = t /\ f.dst = d}
            IN  IF \E o \in twice : InSource(o.ev)
                THEN \E f \in mine :
                        /\ mine = {f} /\ f.times = Cardinality(twice)
                        /\ f.conflict <=> Cardinality({o.vis : o \in twice}) > 1
                        /\ InSource(f.primary) /\ f.primary \in {o.ev : o \in twice}
                ELSE mine = {}

\* When every link is in the source tree, cyclic-links reports each group of
\* targets that reach one another once, with a shortest cycle through its
\* first name (linkgraph.rs:270, 418, 475).
CyclesExact ==
    LET rows == Edges
        links == {<<e.src, e.to>> : e \in {r \in ToSet(rows) : r.to # None}}
        Steps[k \in 1..Cardinality(Real)] ==   \* pairs joined by k links
            IF k = 1 THEN links
            ELSE {p \in Real \X Real :
                    \E m \in Real : <<p[1], m>> \in Steps[k-1] /\ <<m, p[2]>> \in links}
        reach == UNION {Steps[k] : k \in 1..Cardinality(Real)}
        Group(t) == {u \in Real : <<t, u>> \in reach /\ <<u, t>> \in reach}
        found == CyclicLinks
    IN  (\A i \in DOMAIN rows : InSource(rows[i].ev) /\ ~targets[rows[i].src].imported) =>
            /\ {f.group : f \in found} = {Group(t) : t \in {u \in Real : <<u, u>> \in reach}}
            /\ \A f \in found :
                LET p == f.path
                    n == Len(p) - 1
                IN  /\ p[1] = p[n+1] /\ \A u \in f.group : Rank(p[1]) <= Rank(u)
                    /\ \A i \in 1..n : <<p[i], p[i+1]>> \in links
                    /\ \A k \in 1..(n-1) : <<p[1], p[1]>> \notin Steps[k]

=============================================================================
