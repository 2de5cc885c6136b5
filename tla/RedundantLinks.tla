---------------------------- MODULE RedundantLinks ----------------------------
(***************************************************************************)
(* redundant-links (crates/cmakedb-passes/src/redundantlinks.rs): T links  *)
(* B, and A, which T links too, already brings B by links that propagate.  *)
(***************************************************************************)
EXTENDS Configure

CONSTANT Names     \* names of targets in alphabetical order

MAX_CHAIN_HOPS == 8

Rank(n) == CHOOSE i \in DOMAIN Names : Names[i] = n
Propagates(e) == e.vis \in {"PUBLIC", "INTERFACE"}
IsObject(t) == targets[t].type = "OBJECT"

\* Of the rows in ok the first of each pair.
FirstRows(rows, ok) ==
    FoldLeft(LAMBDA acc, e :
        IF e \in ok /\ ~\E i \in DOMAIN acc : acc[i].src = e.src /\ acc[i].to = e.to
        THEN Append(acc, e) ELSE acc, <<>>, rows)

\* Links of targets to other targets.
Resolvable(rows) == {e \in ToSet(rows) : e.to # None /\ e.to # e.src}

InterfaceRows(rows) == FirstRows(rows, {e \in Resolvable(rows) : Propagates(e)})
DirectRows(rows) == ToSet(FirstRows(rows, {e \in Resolvable(rows) : InSource(e.ev)}))

\* Call sites that link several targets are machinery: no edit there helps.
MultiTargetSite(rows, ev) ==
    Cardinality({e.src : e \in {r \in ToSet(rows) : Site(r.ev) = Site(ev)}}) > 1

\* Slip: the chain may lead back through the linking target.
SlipMayVisit(v, forbidden, chains) == ~IsObject(v) /\ v \notin DOMAIN chains

MayVisit(v, forbidden, chains) ==
    v # forbidden /\ ~IsObject(v) /\ v \notin DOMAIN chains

\* One target taken from the queue: those its rows lead to get its chain and
\* their row.
Visit(iface, forbidden, s) ==
    LET u   == Head(s.queue)
        new == IF Len(s.chains[u]) >= MAX_CHAIN_HOPS THEN <<>>
               ELSE KeptRows(iface, {e \in ToSet(iface) :
                                        e.src = u /\ MayVisit(e.to, forbidden, s.chains)})
        row == [v \in {e.to : e \in ToSet(new)} |-> CHOOSE e \in ToSet(new) : e.to = v]
    IN  [queue  |-> Tail(s.queue) \o [i \in DOMAIN new |-> new[i].to],
         chains |-> [v \in DOMAIN s.chains \cup DOMAIN row |->
                        IF v \in DOMAIN s.chains THEN s.chains[v] ELSE Append(s.chains[u], row[v])]]

\* Breadth first; each target is queued once.  The chain to a target does not
\* change once it is there.
Chains(iface, start, forbidden) ==
    LET after[k \in 0..Cardinality(Real)] ==
            IF k = 0 THEN [queue |-> <<start>>, chains |-> [v \in {start} |-> <<>>]]
            ELSE LET s == after[k-1]
                 IN  IF s.queue = <<>> THEN s ELSE Visit(iface, forbidden, s)
    IN  after[Cardinality(Real)].chains

InterfacePath(iface, start, goal, forbidden) ==
    IF start = forbidden \/ IsObject(start) THEN <<>>
    ELSE LET chains == Chains(iface, start, forbidden)
         IN  IF goal \in DOMAIN chains THEN chains[goal] ELSE <<>>

\* The best provider of a link has the shortest chain, and among these the
\* first name.
RedundantLinks ==
    LET rows   == Edges
        iface  == InterfaceRows(rows)
        direct == DirectRows(rows)
        Candidate(e) ==
            /\ ~targets[e.src].imported /\ targets[e.src].type \notin {"INTERFACE", "OBJECT"}
            /\ ~targets[e.to].imported /\ ~IsObject(e.to)
            /\ ~InTryCompile(e.ev) /\ ~MultiTargetSite(rows, e.ev)
        Via(e) == {[edge |-> e, head |-> h, chain |-> InterfacePath(iface, h.to, e.to, e.src)] :
                    h \in {g \in direct : g.src = e.src /\ g.to # e.to /\ ~IsObject(g.to)}}
        Works(e) == {v \in Via(e) : v.chain # <<>>}
        Better(v, u) == \/ Len(v.chain) < Len(u.chain)
                        \/ Len(v.chain) = Len(u.chain) /\ Rank(v.head.to) <= Rank(u.head.to)
    IN  UNION {{v \in Works(e) : \A u \in Works(e) : Better(v, u)} : e \in {f \in direct : Candidate(f)}}

-----------------------------------------------------------------------------
(* What the pass promises.                                                 *)

\* Without the direct link that redundant-links reports the target still
\* compiles and links with the library, provided the link to the provider is
\* not INTERFACE and no property was set again (redundantlinks.rs:1, 214, 309).
RedundantStillLinked ==
    AsWritten =>
    \A f \in RedundantLinks :
        LET t == f.edge.src
            b == f.edge.to
            kept == {Meant(l.dst) : l \in world.links[t]} \ {None, b}
            Export(d) == IF d = t THEN Exported(d) \ {b} ELSE Exported(d)
            grow[k \in 0..Cardinality(Real)] ==
                IF k = 0 THEN kept ELSE grow[k-1] \cup UNION {Export(d) : d \in grow[k-1]}
        IN  f.head.vis # "INTERFACE" => b \in grow[Cardinality(Real)]

=============================================================================
