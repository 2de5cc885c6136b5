---------------------------- MODULE VariablePasses ----------------------------
(***************************************************************************)
(* Passes over the variables of a recording (crates/cmakedb-passes):       *)
(* clobbers, single-use-variables, alias-variables, scope-leaks,           *)
(* option-after-use and undefined-reads, as queries over the rows the      *)
(* replay wrote, against what CMake read when it executed the project.     *)
(*                                                                         *)
(* A command has a site of its own and runs there once, in no loop; all    *)
(* code of the project is executed; two values given are different; a file *)
(* that does not parse is not one of the source tree.  Without them the    *)
(* passes report less.                                                     *)
(***************************************************************************)
EXTENDS Recording, FiniteSets

-----------------------------------------------------------------------------
(* Rows.                                                                   *)

\* The scopes around a scope, itself included.
Around(s) ==
    LET up[n \in 0..Len(scopes)] == IF n = 0 THEN {} ELSE {n} \cup up[scopes[n].parent]
    IN  up[s]

ChainKinds(e) == {scopes[s].kind : s \in Around(log[e].scope)}

EventInTryCompile(e) == "try_compile" \in ChainKinds(e)
EventInFunctionOrMacro(e) == ChainKinds(e) \cap {"function", "macro"} # {}
EventInSource(e) == log[e].joined

RowsOf(x) == {w \in DOMAIN writes : x \in writes[w].names}
ReadsOf(x) == {e \in DOMAIN log : log[e].ref = x /\ log[e].joined}
Observers(w) == {e \in DOMAIN log : log[e].read = w}

\* A set() of one name in the source tree.
PlainSet(w) ==
    /\ writes[w].cmd = "set" /\ log[writes[w].event].cmd = "set"
    /\ EventInSource(writes[w].event)

\* Code of the project itself, in no body that may run elsewhere.
TopLevel(e) ==
    EventInSource(e) /\ ~EventInTryCompile(e) /\ ~EventInFunctionOrMacro(e)

-----------------------------------------------------------------------------
(* The passes.                                                             *)

HasValue(w) == log[writes[w].event].cmd \notin {"unset", "unset_cache"}

\* The next write of x to the same scope; none when cache or environment has x.
Overwrites(w2, w1, x) ==
    LET later == {w \in RowsOf(x) : /\ w > w1 /\ writes[w].scope = writes[w1].scope
                                    /\ writes[w].cmd \in {"set", "cache", "cache_soft", "unset_cache"}}
    IN  writes[w1].scope # NoRow /\ w2 \in later /\ \A w \in later : w2 <= w

Clobbers ==
    {c \in UNION {{x} \X RowsOf(x) \X RowsOf(x) : x \in Names} :
        LET w1 == c[2]
            w2 == c[3]
        IN  /\ writes[w1].cmd = "set" /\ Overwrites(w2, w1, c[1])
            /\ HasValue(w1) /\ HasValue(w2)
            /\ Observers(w1) = {}
            /\ EventInSource(writes[w1].event) /\ EventInSource(writes[w2].event)}

\* Slip: only the reads that found the write are counted.
SlipReadOnce(x, w, e) ==
    e \in ReadsOf(x) /\ Observers(w) = {e}

\* The one read of x there is, and it found w.
ReadOnce(x, w, e) ==
    ReadsOf(x) = {e} /\ Observers(w) = {e}

SingleUseVariables ==
    {u \in UNION {{x} \X RowsOf(x) \X ReadsOf(x) : x \in Names} :
        LET w == u[2] IN
        /\ RowsOf(u[1]) = {w} /\ ReadOnce(u[1], w, u[3])
        /\ PlainSet(w) /\ TopLevel(writes[w].event) /\ TopLevel(u[3])}

\* Slip: what happens to the other variable later does not matter.
SlipNotRewritten(source, e) == TRUE

\* Nothing writes the source of an alias after the event e.
NotRewritten(source, e) ==
    \A v \in RowsOf(source) : writes[v].event <= e

\* set(name ${source}), and name is never anything else.
PureAliases ==
    {w \in DOMAIN writes :
        LET e == writes[w].event
            name == log[e].name
            source == log[e].ref
        IN  /\ PlainSet(w) /\ RowsOf(name) = {w}
            /\ source \notin {name, None}
            /\ ReadsOf(name) # {} /\ ReadsOf(name) = Observers(w)
            /\ NotRewritten(source, e)
            /\ \A r \in {e} \cup ReadsOf(name) : TopLevel(r)}

\* set(V ${V} PARENT_SCOPE) in a function that has V from outside.
EnclosingFunctionScopes(e) == {s \in Around(log[e].scope) : scopes[s].kind = "function"}

ParentScopeRoundTrips ==
    {e \in DOMAIN log :
        /\ log[e].cmd = "parent_scope" /\ log[e].ref = log[e].name /\ EventInSource(e)
        /\ ~EventInTryCompile(e)
        /\ EnclosingFunctionScopes(e) # {}
        /\ log[e].read # NoRow
        /\ LET from == writes[log[e].read].scope
           IN  from # NoRow /\ MaxOf(EnclosingFunctionScopes(e)) \notin Around(from)}

\* What a macro sets in the scope of its caller.
ScopeLeaks ==
    {w \in DOMAIN writes :
        /\ writes[w].cmd = "set" /\ EventInSource(writes[w].event)
        /\ scopes[log[writes[w].event].scope].kind = "macro"}

\* The first option() or set(CACHE) of a name.
Declaration(x) ==
    {d \in DOMAIN log : /\ log[d].name = x /\ log[d].cmd \in {"cache", "cache_soft"}
                        /\ EventInSource(d)}

OptionAfterUse ==
    {o \in UNION {{x} \X Declaration(x) \X ReadsOf(x) : x \in Names} :
        /\ \A c \in Declaration(o[1]) : o[2] <= c
        /\ o[3] < o[2] /\ log[o[3]].read = NoRow /\ ~EventInTryCompile(o[3])}

UndefinedReads ==
    {e \in DOMAIN log : /\ log[e].ref # None /\ log[e].joined /\ log[e].read = NoRow
                        /\ RowsOf(log[e].ref) = {}}

-----------------------------------------------------------------------------
(* What CMake did.  Where the documented approximation of PARENT_SCOPE, or *)
(* a try_compile project, covers a read (`vague`), nothing is claimed.     *)

Saw(e, x, w) == x \in log[e].vague \/ log[e].sees[x] = w

\* Findings say truly what was read: a value said to be overwritten before any
\* read was read by nothing, one said to be read once is what that read saw and
\* the only thing any read of the name saw, and an early or undefined read saw
\* nothing (clobbers.rs:1, singleuse.rs:1, ordering.rs:1, undefined.rs:1).
FindingsTrue ==
    /\ \A c \in Clobbers : \A e \in ReadsOf(c[1]) : c[1] \in log[e].vague \/ ~Saw(e, c[1], c[2])
    /\ \A u \in SingleUseVariables : \A e \in ReadsOf(u[1]) : Saw(e, u[1], u[2])
    /\ \A o \in OptionAfterUse : Saw(o[3], o[1], NoRow)
    /\ \A e \in UndefinedReads : Saw(e, log[e].ref, NoRow)

\* What a finding advises changes nothing: each read of an alias would have seen
\* the same through the variable it stands for, a round trip writes the value
\* the outer scope has, and what a macro leaks did leave it (aliasvars.rs:1,
\* scope_leaks.rs:1).
AdviceHarmless ==
    /\ \A w \in PureAliases :
         LET e == writes[w].event IN
         \A r \in ReadsOf(log[e].name) : Saw(r, log[e].ref, log[e].sees[log[e].ref])
    /\ \A e \in ParentScopeRoundTrips : Saw(e, log[e].name, log[e].outer[log[e].name])
    /\ \A w \in ScopeLeaks : ~log[writes[w].event].inside

\* The findings of the variable passes are true of CMake's own execution, and
\* what they advise is harmless.
VariableFindingsHold == project.passes => FindingsTrue /\ AdviceHarmless

=============================================================================
