---------------------------- MODULE ScopeReplay ----------------------------
(***************************************************************************)
(* The streaming scope replay of crates/cmakedb-db/src/ingest/dataflow.rs: *)
(* `run` consumes the trace events of one configure in order and rebuilds, *)
(* from their call depth alone, the stack of runtime scopes, the variable  *)
(* table of each scope, the cache and the environment.  Every `${X}` that  *)
(* an event expands is resolved at that moment to the variable write that  *)
(* dominates it (a row of var_reads pointing at a row of var_writes).      *)
(*                                                                         *)
(* One action, Replay(e), is one call of the closure `run` hands to        *)
(* for_each_event; Finish is what follows the last event.  A write is      *)
(* known by its row number in var_writes, a scope by its row number in     *)
(* scopes; NoRow stands for None / SQL NULL.  The set of events is a       *)
(* parameter, so what is proved of this module holds of every trace whose  *)
(* depth never drops below the depth of its first event.                   *)
(***************************************************************************)
EXTENDS Naturals, Sequences, ProjectText

CONSTANTS
    Procs,      \* names of functions and macros the project may define
    Unparsed,   \* the files cmakedb could not parse: their events never join
    Preseeded,  \* names given on the command line with -D (cache-v2)
    Events,     \* the events a trace may hold
    MaxEvents,  \* bound on the length of a trace
    None        \* "no name / node / procedure / definition here"

NoRow == 0

\* The commands whose scoping effect the replay knows, besides Procs.
WriteCmds   == {"set", "unset", "parent_scope", "cache", "cache_soft",
                "unset_cache", "set_env", "unset_env"}
OpenerCmds  == {"add_subdirectory", "include", "try_compile", "cmake_language"}
BuiltinCmds == WriteCmds \cup OpenerCmds
                 \cup {"function", "macro", "block", "snapshot", "other"}

Kinds == {"root", "directory", "function", "macro", "include", "block",
          "try_compile", "unknown"}

Def == [kind : {"function", "macro"}, params : SUBSET Names]

\* The scope a command may have opened for the next event.
Pending == [depth : Nat, kind : Kinds, params : SUBSET Names, openedBy : Nat]

(***************************************************************************)
(* A trace event.  `at` is the set of block_def nodes whose byte range     *)
(* holds the event's own AST node, so "outside the range of node n" is     *)
(* n \notin e.at.  `node` is the block_def of a block() command, `name`    *)
(* the variable a command writes, `ref` a variable its arguments expand,   *)
(* `proc` the procedure of function() / macro() / cmake_language(CALL),    *)
(* `params` the parameters a definition declares.                          *)
(***************************************************************************)
Event == [cmd : BuiltinCmds \cup Procs, depth : Nat \ {0}, file : Files,
          at : SUBSET Nodes, node : Nodes \cup {None},
          name : Names \cup {None}, ref : Names \cup {None},
          proc : Procs \cup {None}, params : SUBSET Names]

ASSUME ReplayAssumption ==
    /\ Unparsed \subseteq Files
    /\ Preseeded \subseteq Names
    /\ MaxEvents \in Nat
    /\ Events \subseteq Event
    /\ \A e \in Events : /\ e.cmd = "block" => e.node \in e.at
                         /\ \A n \in e.at : NodeFile[n] = e.file
    /\ None \notin Names \cup Nodes \cup Procs \cup Def
    /\ None \notin Pending
    /\ Procs \cap {"add_subdirectory", "cmake_language", "function", "macro",
                   "block", "snapshot"} = {}

VARIABLES
    stack,      \* the open scopes, outermost first
    cacheVars,  \* name -> its dominating cache write
    envVars,    \* name -> its dominating set(ENV{}) write in this configure
    defs,       \* procedure -> its latest definition
    pending,    \* the scope the next event opens if it is one level deeper
    scopes,     \* rows of scopes: parent, kind, opened/closed by event
    writes,     \* rows of var_writes: name(s), scope, command
    nEvents,    \* rows of events inserted so far
    lastRead,   \* the reads the last event recorded
    mismatches, \* snapshot mismatches found so far
    outcome     \* "running", "ok" or "failed"

rvars == <<stack, cacheVars, envVars, defs, pending, scopes, writes, nEvents,
           lastRead, mismatches, outcome>>

Empty   == [x \in Names |-> NoRow]
NoRead  == [name |-> None, var |-> NoRow, env |-> NoRow]

Scope == [id : Nat, depth : Nat, kind : Kinds, transparent : BOOLEAN,
          vars : [Names -> Nat], params : [Names -> Nat],
          range : Nodes \cup {None}]

ScopeRow == [parent : Nat, kind : Kinds, openedBy : Nat, closedBy : Nat]
WriteRow == [names : SUBSET Names, scope : Nat, event : Nat,
             cmd : WriteCmds \cup {"synthetic"}]

-----------------------------------------------------------------------------
(* Closing the scopes execution has returned from.                         *)

Joined(e) == e.file \notin Unparsed

\* Slip: only the file is compared.
SlipOutside(s, e) == s.range # None /\ NodeFile[s.range] # e.file

\* The event lies outside the block_def range of a block scope.  A block
\* whose own event did not join has no range and is never left this way.
Outside(s, e) ==
    /\ s.range # None
    /\ IF Joined(e) THEN s.range \notin e.at
                    ELSE NodeFile[s.range] # e.file

\* Slip: off by one.
SlipClosesLate(s, e) ==
    \/ s.depth > e.depth + 1
    \/ s.kind = "block" /\ s.depth = e.depth /\ Outside(s, e)

Closes(s, e) ==
    \/ s.depth > e.depth
    \/ s.kind = "block" /\ s.depth = e.depth /\ Outside(s, e)

\* n scopes survive the close loop: it pops while the top closes and never
\* pops the root.
Keeps(st, e, n) ==
    /\ n \in 1..Len(st)
    /\ n = 1 \/ ~Closes(st[n], e)
    /\ \A m \in 1..Len(st) : m > n => Closes(st[m], e)

\* Slip: only the innermost scope is closed.
SlipCloseRows(rows, st, n, eid) ==
    [i \in 1..Len(rows) |->
        IF n < Len(st) /\ st[Len(st)].id = i
        THEN [rows[i] EXCEPT !.closedBy = eid] ELSE rows[i]]

\* closed_by_event of the scopes popped from st, all but the first n, is the
\* last event replayed before.
CloseRows(rows, st, n, eid) ==
    [i \in 1..Len(rows) |->
        IF \E m \in 1..Len(st) : m > n /\ st[m].id = i
        THEN [rows[i] EXCEPT !.closedBy = eid] ELSE rows[i]]

-----------------------------------------------------------------------------
(* Opening a scope.                                                        *)

Transparent(kind) == kind \in {"macro", "include", "unknown"}

NewScope(id, depth, kind) ==
    [id |-> id, depth |-> depth, kind |-> kind,
     transparent |-> Transparent(kind), vars |-> Empty, params |-> Empty,
     range |-> None]

Opens(e) == pending # None /\ pending.depth = e.depth

Synthesizes(e) == Opens(e) /\ pending.kind \in {"function", "macro"}

\* The callee's parameters, all bound to the one synthetic row w that stands
\* for the call: pseudo-variables of a macro, variables of a function.
OpenedScope(id, e, w) ==
    LET args == [x \in Names |-> IF x \in pending.params THEN w ELSE NoRow]
        new  == NewScope(id, e.depth, pending.kind)
    IN  CASE pending.kind = "macro"    -> [new EXCEPT !.params = args]
          [] pending.kind = "function" -> [new EXCEPT !.vars = args]
          [] OTHER                     -> new

\* Slip: a command nobody knows is kept under its own name.
SlipPendingKind(e, ds) ==
    IF e.cmd \in Procs /\ ds[e.cmd] # None THEN ds[e.cmd].kind ELSE e.cmd

\* What the next event opens if it is traced one level deeper.
PendingKind(e, ds) ==
    IF e.cmd = "add_subdirectory" THEN "directory"
    ELSE IF e.cmd = "cmake_language"
         THEN IF e.proc # None /\ ds[e.proc] # None THEN ds[e.proc].kind
              ELSE "unknown"
    ELSE IF e.cmd \in Procs /\ ds[e.cmd] # None THEN ds[e.cmd].kind
    ELSE IF e.cmd = "try_compile" THEN "try_compile"
    ELSE IF e.cmd = "include" THEN "include"
    ELSE "unknown"

PendingParams(e, ds) ==
    IF e.cmd = "cmake_language"
    THEN IF e.proc # None /\ ds[e.proc] # None THEN ds[e.proc].params ELSE {}
    ELSE IF e.cmd \in Procs /\ ds[e.cmd] # None THEN ds[e.cmd].params
    ELSE {}

ComputePending(e, ds, eid) ==
    [depth |-> e.depth + 1, kind |-> PendingKind(e, ds),
     params |-> PendingParams(e, ds), openedBy |-> eid]

-----------------------------------------------------------------------------
(* Reading: macro parameters and scope tables from the top of the stack    *)
(* down, then the cache.                                                   *)

Holds(s, x) == s.params[x] # NoRow \/ (~s.transparent /\ s.vars[x] # NoRow)

Held(s, x) == IF s.params[x] # NoRow THEN s.params[x] ELSE s.vars[x]

\* Slip: the outermost scope wins.
SlipOnStack(st, x, w) ==
    \/ /\ w = NoRow
       /\ \A i \in 1..Len(st) : ~Holds(st[i], x)
    \/ \E i \in 1..Len(st) :
          /\ Holds(st[i], x)
          /\ w = Held(st[i], x)
          /\ \A j \in 1..Len(st) : j < i => ~Holds(st[j], x)

\* w is what the scope stack alone gives for x.
OnStack(st, x, w) ==
    \/ /\ w = NoRow
       /\ \A i \in 1..Len(st) : ~Holds(st[i], x)
    \/ \E i \in 1..Len(st) :
          /\ Holds(st[i], x)
          /\ w = Held(st[i], x)
          /\ \A j \in 1..Len(st) : j > i => ~Holds(st[j], x)

\* w is what a read of x resolves to.
Resolves(st, cache, x, w) ==
    IF \E i \in 1..Len(st) : Holds(st[i], x) THEN OnStack(st, x, w)
    ELSE w = cache[x]

-----------------------------------------------------------------------------
(* Writing.                                                                *)

InTryCompile(st) == \E i \in 1..Len(st) : st[i].kind = "try_compile"

\* Slip: no containment.
SlipEffectiveCmd(st, cmd) == cmd

\* A cache write inside a try_compile configure is contained like a local.
EffectiveCmd(st, cmd) ==
    IF InTryCompile(st) /\ cmd \in {"cache", "cache_soft", "unset_cache"}
    THEN "set" ELSE cmd

Nearest(st, i) ==
    ~st[i].transparent /\ \A j \in 1..Len(st) : j > i => st[j].transparent

\* Slip: the scope below the top, transparent or not.
SlipSecondNearest(st, i) == i = Len(st) - 1

\* PARENT_SCOPE goes to the second opaque scope from the top, or to the only
\* one there is.
SecondNearest(st, i) ==
    /\ ~st[i].transparent
    /\ \/ \E k \in 1..Len(st) :
             /\ k > i /\ Nearest(st, k)
             /\ \A j \in 1..Len(st) : i < j /\ j < k => st[j].transparent
       \/ \A j \in 1..Len(st) : j # i => st[j].transparent

Target(st, cmd, i) ==
    CASE cmd \in {"set", "unset"} -> Nearest(st, i)
      [] cmd = "parent_scope"     -> SecondNearest(st, i)
      [] OTHER                    -> FALSE

Written(st, cmd, x, w) ==
    [i \in 1..Len(st) |->
        IF Target(st, cmd, i)
        THEN [st[i] EXCEPT !.vars[x] = IF cmd = "unset" THEN NoRow ELSE w]
        ELSE st[i]]

\* Slip: a default overwrites what is in the cache.
SlipCacheWritten(cache, cmd, x, w) ==
    IF cmd \in {"cache", "unset_cache", "cache_soft"}
    THEN [cache EXCEPT ![x] = w] ELSE cache

\* unset(X CACHE) leaves an entry too, for the unset itself.
CacheWritten(cache, cmd, x, w) ==
    IF cmd \in {"cache", "unset_cache"} \/ (cmd = "cache_soft" /\ cache[x] = NoRow)
    THEN [cache EXCEPT ![x] = w]
    ELSE cache

EnvWritten(st, env, cmd, x, w) ==
    IF InTryCompile(st) THEN env
    ELSE CASE cmd = "set_env"   -> [env EXCEPT ![x] = w]
           [] cmd = "unset_env" -> [env EXCEPT ![x] = NoRow]
           [] OTHER             -> env

\* Slip: the scope the event is in, transparent or not.
SlipRecordTop(st, cmd, sc) ==
    IF \E i \in 1..Len(st) : Target(st, cmd, i) THEN sc = st[Len(st)].id
    ELSE sc = NoRow

\* The scope a write row is recorded against: NULL for cache and env writes.
RecordScope(st, cmd, sc) ==
    IF \E i \in 1..Len(st) : Target(st, cmd, i)
    THEN \E i \in 1..Len(st) : Target(st, cmd, i) /\ sc = st[i].id
    ELSE sc = NoRow

-----------------------------------------------------------------------------
RInit ==
    /\ stack = <<>>
    /\ cacheVars = Empty
    /\ envVars = Empty
    /\ defs = [p \in Procs |-> None]
    /\ pending = None
    /\ scopes = <<>>
    /\ writes = <<>>
    /\ nEvents = 0
    /\ lastRead = NoRead
    /\ mismatches = {}
    /\ outcome = "running"

\* The trace as CMake writes it: the first event is at the outermost depth.
InTrace(e) == stack # <<>> => e.depth >= stack[1].depth

\* A snapshot dumps each visible normal variable, here by the write whose
\* value it holds (NoRow: not dumped).  The replay compares every dumped name
\* it can resolve on the stack; the cache is not consulted.
SnapshotMismatches(st, dump) ==
    {x \in Names : /\ dump[x] # NoRow
                   /\ ~OnStack(st, x, NoRow) /\ ~OnStack(st, x, dump[x])}

(***************************************************************************)
(* The steps of the closure called for each event, in its order.           *)
(***************************************************************************)

\* The first event makes the root scope.
BaseStack(e) ==
    IF stack = <<>> THEN <<NewScope(1, e.depth, "root")>> ELSE stack

BaseRows ==
    IF stack = <<>> THEN <<[parent |-> NoRow, kind |-> "root",
                            openedBy |-> NoRow, closedBy |-> NoRow]>>
    ELSE scopes

\* The pending scope opens if the event is one level below its opener.
Opened(st, e, sid) ==
    IF Opens(e) THEN Append(st, OpenedScope(sid, e, Len(writes) + 1)) ELSE st

OpenedRows(rows, st, e) ==
    IF Opens(e)
    THEN Append(rows, [parent |-> st[Len(st)].id, kind |-> pending.kind,
                       openedBy |-> pending.openedBy, closedBy |-> NoRow])
    ELSE rows

Synthesized(e, sid) ==
    IF Synthesizes(e)
    THEN Append(writes, [names |-> pending.params, scope |-> sid,
                         cmd |-> "synthetic", event |-> pending.openedBy])
    ELSE writes

\* The -D entries are rows of the first event.
Seeds == IF nEvents = 0 THEN Preseeded ELSE {}

SeededRows(ws) ==
    IF Seeds = {} THEN ws
    ELSE Append(ws, [names |-> Seeds, scope |-> NoRow, cmd |-> "cache",
                     event |-> nEvents + 1])

CacheWithSeeds(ws) ==
    [v \in Names |-> IF v \in Seeds THEN Len(ws) ELSE cacheVars[v]]

DefsAfter(e) ==
    IF e.cmd \in {"function", "macro"} /\ e.proc # None
    THEN [defs EXCEPT ![e.proc] = [kind |-> e.cmd, params |-> e.params]]
    ELSE defs

IsWrite(e) == e.cmd \in WriteCmds /\ e.name # None

BlockScope(e, sid) ==
    [NewScope(sid, e.depth, "block")
        EXCEPT !.transparent = ~NodeVars[e.node],
               !.range = IF Joined(e) THEN e.node ELSE None]

\* The reads come before the event's own write.
RecordReads(e, st, cache, nRows) ==
    IF Joined(e) /\ e.ref # None
    THEN \E w \in 0..nRows :
            /\ Resolves(st, cache, e.ref, w)
            /\ lastRead' = [name |-> e.ref, var |-> w, env |-> envVars[e.ref]]
    ELSE lastRead' = NoRead

(***************************************************************************)
(* The whole closure.  n scopes survive the close loop.                    *)
(***************************************************************************)
Replay(e, dump) ==
  /\ outcome = "running"
  /\ nEvents < MaxEvents
  /\ InTrace(e)
  /\ \E n \in 1..Len(BaseStack(e)) :
       LET eid  == nEvents + 1
           st1  == SubSeq(BaseStack(e), 1, n)
           sc1  == CloseRows(BaseRows, BaseStack(e), n, nEvents)
           sid  == Len(sc1) + 1
           st2  == Opened(st1, e, sid)
           sc2  == OpenedRows(sc1, st1, e)
           ws2  == SeededRows(Synthesized(e, sid))
           c2   == CacheWithSeeds(ws2)
           w    == Len(ws2) + 1
           cmd  == EffectiveCmd(st2, e.cmd)
           st3  == IF IsWrite(e) THEN Written(st2, cmd, e.name, w) ELSE st2
       IN
       /\ Keeps(BaseStack(e), e, n)
       /\ RecordReads(e, st2, c2, Len(ws2))
       /\ IF IsWrite(e)
          THEN /\ \E sc \in 0..Len(sc2) :
                     /\ RecordScope(st2, cmd, sc)
                     /\ writes' = Append(ws2, [names |-> {e.name}, scope |-> sc,
                                               cmd |-> cmd, event |-> eid])
               /\ cacheVars' = CacheWritten(c2, cmd, e.name, w)
               /\ envVars' = EnvWritten(st2, envVars, cmd, e.name, w)
          ELSE /\ writes' = ws2
               /\ cacheVars' = c2
               /\ envVars' = envVars
       /\ mismatches' = IF e.cmd = "snapshot"
                        THEN mismatches \cup SnapshotMismatches(st2, dump)
                        ELSE mismatches
       /\ stack' = IF e.cmd = "block"
                   THEN Append(st3, BlockScope(e, Len(sc2) + 1)) ELSE st3
       /\ scopes' = IF e.cmd = "block"
                    THEN Append(sc2, [parent |-> st2[Len(st2)].id,
                                      kind |-> "block", openedBy |-> eid,
                                      closedBy |-> NoRow])
                    ELSE sc2
       /\ pending' = ComputePending(e, DefsAfter(e), eid)
  /\ defs' = DefsAfter(e)
  /\ nEvents' = nEvents + 1
  /\ UNCHANGED outcome

\* After the last event every open scope is closed; a snapshot mismatch makes
\* the whole ingest fail.
Finish ==
    /\ outcome = "running"
    /\ stack' = <<>>
    /\ scopes' = CloseRows(scopes, stack, 0, nEvents)
    /\ outcome' = IF mismatches = {} THEN "ok" ELSE "failed"
    /\ UNCHANGED <<cacheVars, envVars, defs, pending, writes, nEvents,
                   lastRead, mismatches>>

RNext ==
    \/ \E e \in Events : \E dump \in [Names -> 0..Len(writes)] :
          /\ e.cmd # "snapshot" => dump = Empty
          /\ Replay(e, dump)
    \/ Finish

RSpec == RInit /\ [][RNext]_rvars

-----------------------------------------------------------------------------
TypeOK ==
    /\ stack \in Seq(Scope)
    /\ cacheVars \in [Names -> Nat]
    /\ envVars \in [Names -> Nat]
    /\ defs \in [Procs -> Def \cup {None}]
    /\ pending \in Pending \cup {None}
    /\ scopes \in Seq(ScopeRow)
    /\ writes \in Seq(WriteRow)
    /\ nEvents \in 0..MaxEvents
    /\ lastRead \in [name : Names \cup {None}, var : Nat, env : Nat]
    /\ mismatches \subseteq Names
    /\ outcome \in {"running", "ok", "failed"}

\* The stack mirrors the call stack: going up it the call depth never falls,
\* and only block scopes, which open no frame, share the depth below them.
StackMirrorsCalls ==
    \A i, j \in 1..Len(stack) : i < j =>
        /\ stack[i].depth <= stack[j].depth
        /\ stack[j].kind # "block" => stack[i].depth < stack[j].depth

\* No scope of a frame that has returned is open when an event has been
\* replayed: a write after the return of a function never reaches the
\* function's table, nor does a read.
NoReturnedScopeOpen ==
    outcome = "running" /\ nEvents > 0 =>
        \A i \in 1..Len(stack) : stack[i].depth < pending.depth

\* The scope stack is the part of the call stack that has not returned.
StackDisciplined == StackMirrorsCalls /\ NoReturnedScopeOpen

\* A variable table is exactly what var_writes says of its scope: an entry for
\* x is a row that writes x, recorded against the very scope whose table holds
\* it, and entries of the cache and the environment are rows recorded against no
\* scope.  (The dead-variable and clobber passes join on that scope_id.)
RowFor(w, x, sc) ==
    w # NoRow => /\ w \in 1..Len(writes)
                 /\ x \in writes[w].names
                 /\ writes[w].scope = sc

TablesMatchRows ==
    \A x \in Names :
        /\ RowFor(cacheVars[x], x, NoRow) /\ RowFor(envVars[x], x, NoRow)
        /\ \A i \in 1..Len(stack) : /\ RowFor(stack[i].vars[x], x, stack[i].id)
                                    /\ RowFor(stack[i].params[x], x, stack[i].id)

\* The scopes table is the tree of activations: a scope is open exactly while
\* it is on the stack, the scope below it is its parent, and a closed scope's
\* children are closed with it, inside its own span of events.
ScopeTreeNests ==
    /\ \A i \in 2..Len(stack) : scopes[stack[i].id].parent = stack[i - 1].id
    /\ outcome = "running" =>
        \A r \in 1..Len(scopes) :
            scopes[r].closedBy = NoRow <=> \E i \in 1..Len(stack) : stack[i].id = r
    /\ \A r \in 2..Len(scopes) :
        LET around == scopes[scopes[r].parent]
        IN  /\ around.openedBy <= scopes[r].openedBy
            /\ around.closedBy # NoRow =>
                 /\ scopes[r].closedBy # NoRow
                 /\ scopes[r].closedBy <= around.closedBy
                 /\ scopes[r].openedBy <= scopes[r].closedBy

\* What runs inside a try_compile configure stays there ("their writes never
\* leak into the caller's replayed scopes", dataflow.rs:62): while its scope is
\* open, everything held further out, in the cache and in the environment was
\* written no later than the command that started it.
TryCompileContained ==
    \A i \in 1..Len(stack) : stack[i].kind = "try_compile" =>
        LET start == scopes[stack[i].id].openedBy
            outer == {stack[j].vars[x] : j \in 1..(i - 1), x \in Names}
                       \cup {cacheVars[x] : x \in Names}
                       \cup {envVars[x] : x \in Names}
        IN  \A w \in outer \ {NoRow} : writes[w].event <= start

=============================================================================
