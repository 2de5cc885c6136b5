------------------------------ MODULE Overshare -------------------------------
(***************************************************************************)
(* overshare (crates/cmakedb-passes/src/overshare.rs): include directories *)
(* a target exports, against the headers that compiling has used.          *)
(***************************************************************************)
EXTENDS Configure

\* Slip: a consumer re-exports nothing.
SlipReexports(e) == FALSE

\* A consumer passes on what it links PUBLIC or INTERFACE.
Reexports(e) == e.vis \in {"PUBLIC", "INTERFACE"}

\* The targets whose interface includes that of t.
Reexporters(rows, t) ==
    LET grow[k \in 0..Cardinality(Real)] ==
            IF k = 0 THEN {t}
            ELSE LET some == grow[k-1]
                 IN  some \cup {e.src : e \in {r \in rows : r.to \in some /\ Reexports(r)}}
    IN  grow[Cardinality(Real)]

Consumers(rows, t) == {e.src : e \in {r \in rows : r.to \in Reexporters(rows, t)}}

\* `uses`: pairs of a target and an include directory its headers came from.
Overshared(uses) ==
    LET rows == ToSet(Edges)
        oversharing == {q \in ToSet(Reqs) : q.kind = "include" /\ q.vis \in {"PUBLIC", "INTERFACE"}}
        Unused(q) == \A c \in Consumers(rows, q.tgt) : <<c, q.value>> \notin uses
    IN  {[req |-> q, advice |-> IF <<q.tgt, q.value>> \in uses THEN "PRIVATE" ELSE "remove"] :
            q \in {r \in oversharing :
                    /\ Unused(r)
                    /\ <<r.tgt, r.value>> \notin uses => Consumers(rows, r.tgt) # {} \/ r.vis # "INTERFACE"}}

-----------------------------------------------------------------------------
(* What the pass promises.                                                 *)

\* Whichever targets include a directory's headers: no target includes a header of a
\* directory that overshare says to stop exporting to it, and the directory it
\* says to remove is of no use to the target itself (overshare.rs:93, 116).
OvershareSafe ==
    \A value \in {q.value : q \in {r \in ToSet(reqs) : r.kind = "include"}} : \A users \in SUBSET Real :
        LET uses == users \X {value} IN
        \A f \in Overshared(uses) :
            f.req.value = value =>
            /\ \A c \in users \ {f.req.tgt} : f.req.tgt \notin Closure(c)
            /\ f.advice = "remove" => f.req.tgt \notin users

=============================================================================
