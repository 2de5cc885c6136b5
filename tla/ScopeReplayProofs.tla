-------------------------- MODULE ScopeReplayProofs --------------------------
(***************************************************************************)
(* What holds of the replay of every trace, of any length over any project *)
(* text.  The events of the trace are arbitrary: nothing of CMake is       *)
(* assumed but that the depth of an event is never below that of the first *)
(* (InTrace).                                                              *)
(* First the discipline of the stack; then its tables: what the stack, the *)
(* cache and the environment hold are the rows of var_writes they should   *)
(* be, and the scopes table is the tree of activations.                    *)
(***************************************************************************)
EXTENDS ScopeReplay, SequenceTheorems, TLAPS

-----------------------------------------------------------------------------
(* The steps of the replay and the type of the stack.                      *)

\* The table of a scope just opened maps every name to no write.
LEMMA EmptyType == Empty \in [Names -> Nat]
BY DEF Empty, NoRow

\* A scope as Scope::new makes it is a scope of the model.
LEMMA NewScopeType ==
    ASSUME NEW id \in Nat, NEW depth \in Nat, NEW kind \in Kinds
    PROVE  NewScope(id, depth, kind) \in Scope
BY EmptyType DEF NewScope, Scope, Transparent

\* The stack an event starts from is never empty: the first event pushes the root.
LEMMA BaseStackType ==
    ASSUME TypeOK, NEW e \in Event
    PROVE  /\ BaseStack(e) \in Seq(Scope)
           /\ Len(BaseStack(e)) \in Nat \ {0}
<1>1. CASE stack = <<>>
  <2>1. NewScope(1, e.depth, "root") \in Scope
    BY NewScopeType DEF Event, Kinds
  <2> QED BY <1>1, <2>1 DEF BaseStack
<1>2. CASE stack # <<>>
  BY <1>2, EmptySeq, LenProperties DEF BaseStack, TypeOK
<1> QED BY <1>1, <1>2

\* What truncate leaves is a prefix of the stack, entry by entry.
LEMMA KeptType ==
    ASSUME NEW st \in Seq(Scope), NEW n \in 1..Len(st)
    PROVE  /\ SubSeq(st, 1, n) \in Seq(Scope)
           /\ Len(SubSeq(st, 1, n)) = n
           /\ \A i \in 1..n : SubSeq(st, 1, n)[i] = st[i]
BY SubSeqProperties, LenProperties

\* The scope of a call sits at the depth of the first event of its body.
LEMMA OpenedScopeType ==
    ASSUME TypeOK, NEW e \in Event, Opens(e), NEW id \in Nat, NEW w \in Nat
    PROVE  /\ OpenedScope(id, e, w) \in Scope
           /\ OpenedScope(id, e, w).id = id
           /\ OpenedScope(id, e, w).depth = e.depth
           /\ OpenedScope(id, e, w).kind = pending.kind
<1> DEFINE args == [x \in Names |-> IF x \in pending.params THEN w ELSE NoRow]
           new  == NewScope(id, e.depth, pending.kind)
<1>1. pending \in Pending
  BY DEF Opens, TypeOK
<1>2. new \in Scope /\ new.id = id /\ new.depth = e.depth /\ new.kind = pending.kind
  BY <1>1, NewScopeType DEF Pending, Event, NewScope
<1>3. args \in [Names -> Nat]
  BY DEF NoRow
<1> HIDE DEF args, new
<1>4. OpenedScope(id, e, w) \in {new, [new EXCEPT !.params = args], [new EXCEPT !.vars = args]}
  BY DEF OpenedScope, args, new
<1> QED BY <1>2, <1>3, <1>4 DEF Scope

\* Opening the pending scope pushes one scope and touches no other.
LEMMA OpenedType ==
    ASSUME TypeOK, NEW e \in Event, NEW st \in Seq(Scope), NEW sid \in Nat
    PROVE  /\ Opened(st, e, sid) \in Seq(Scope)
           /\ ~Opens(e) => Opened(st, e, sid) = st
           /\ Opens(e) =>
                /\ Len(Opened(st, e, sid)) = Len(st) + 1
                /\ \A i \in 1..Len(st) : Opened(st, e, sid)[i] = st[i]
                /\ Opened(st, e, sid)[Len(st) + 1] = OpenedScope(sid, e, Len(writes) + 1)
<1>1. CASE ~Opens(e)
  BY <1>1 DEF Opened
<1>2. CASE Opens(e)
  <2>1. Len(writes) + 1 \in Nat
    BY LenProperties DEF TypeOK
  <2>2. OpenedScope(sid, e, Len(writes) + 1) \in Scope
    BY <1>2, <2>1, OpenedScopeType
  <2> QED BY <1>2, <2>2, AppendProperties DEF Opened
<1> QED BY <1>1, <1>2

\* A write changes the tables of open scopes and nothing else of the stack.
LEMMA WrittenEntry ==
    ASSUME NEW st \in Seq(Scope), NEW cmd, NEW x \in Names, NEW w \in Nat,
           NEW i \in 1..Len(st)
    PROVE  /\ Written(st, cmd, x, w)[i] \in Scope
           /\ Written(st, cmd, x, w)[i].id = st[i].id
           /\ Written(st, cmd, x, w)[i].depth = st[i].depth
           /\ Written(st, cmd, x, w)[i].kind = st[i].kind
           /\ Written(st, cmd, x, w)[i].params = st[i].params
<1> DEFINE new == Written(st, cmd, x, w)[i]
<1>1. st[i] \in Scope
  BY ElementOfSeq
<1>2. new = st[i] \/ \E v \in Nat : new = [st[i] EXCEPT !.vars = [@ EXCEPT ![x] = v]]
  <2>1. CASE Target(st, cmd, i)
    <3>1. new = [st[i] EXCEPT !.vars[x] = IF cmd = "unset" THEN NoRow ELSE w]
      BY <2>1 DEF Written
    <3>2. new = [st[i] EXCEPT !.vars = [@ EXCEPT ![x] = IF cmd = "unset" THEN NoRow ELSE w]]
      BY <3>1
    <3>3. (IF cmd = "unset" THEN NoRow ELSE w) \in Nat
      BY DEF NoRow
    <3> QED BY <3>2, <3>3
  <2>2. CASE ~Target(st, cmd, i)
    BY <2>2 DEF Written
  <2> QED BY <2>1, <2>2
<1> HIDE DEF new
<1>3. /\ new \in Scope
      /\ new.id = st[i].id
      /\ new.depth = st[i].depth
      /\ new.kind = st[i].kind
      /\ new.params = st[i].params
  <2>1. CASE new = st[i]
    BY <1>1, <2>1
  <2>2. ASSUME NEW v \in Nat, new = [st[i] EXCEPT !.vars = [@ EXCEPT ![x] = v]]
        PROVE  <1>3!1 /\ <1>3!2 /\ <1>3!3 /\ <1>3!4 /\ <1>3!5
    <3>1. [st[i].vars EXCEPT ![x] = v] \in [Names -> Nat]
      BY <1>1 DEF Scope
    <3> QED BY <1>1, <2>2, <3>1 DEF Scope
  <2> QED BY <1>2, <2>1, <2>2
<1> QED BY <1>3 DEF new

\* WrittenEntry for the whole stack: a write keeps its length and its scopes.
LEMMA WrittenShape ==
    \A st \in Seq(Scope) : \A cmd : \A x \in Names : \A w \in Nat :
        /\ Written(st, cmd, x, w) \in Seq(Scope)
        /\ Len(Written(st, cmd, x, w)) = Len(st)
        /\ \A i \in 1..Len(st) :
             /\ Written(st, cmd, x, w)[i].id = st[i].id
             /\ Written(st, cmd, x, w)[i].depth = st[i].depth
             /\ Written(st, cmd, x, w)[i].kind = st[i].kind
             /\ Written(st, cmd, x, w)[i].params = st[i].params
<1> TAKE st \in Seq(Scope)
<1> TAKE cmd
<1> TAKE x \in Names
<1> TAKE w \in Nat
<1> DEFINE new == Written(st, cmd, x, w)
<1>1. \A i \in 1..Len(st) : new[i] \in Scope
  BY WrittenEntry
<1>2. new = [i \in 1..Len(st) |-> new[i]]
  BY DEF Written
<1>3. new \in Seq(Scope) /\ Len(new) = Len(st)
  <2> HIDE DEF new
  <2>1. Len(st) \in Nat
    BY LenProperties
  <2> QED BY <1>1, <1>2, <2>1, IsASeq, LenProperties
<1>4. \A i \in 1..Len(st) : /\ new[i].id = st[i].id
                            /\ new[i].depth = st[i].depth
                            /\ new[i].kind = st[i].kind
                            /\ new[i].params = st[i].params
  BY WrittenEntry
<1> QED BY <1>3, <1>4

\* block() opens an empty scope at the depth of its own event.
LEMMA BlockScopeType ==
    ASSUME NEW e \in Event, e.node \in Nodes, NEW id \in Nat
    PROVE  /\ BlockScope(e, id) \in Scope
           /\ BlockScope(e, id).id = id
           /\ BlockScope(e, id).depth = e.depth
           /\ BlockScope(e, id).kind = "block"
           /\ BlockScope(e, id).vars = Empty
           /\ BlockScope(e, id).params = Empty
<1> DEFINE new == NewScope(id, e.depth, "block")
<1>1. new \in Scope
  BY NewScopeType DEF Kinds, Event
<1>2. (~NodeVars[e.node]) \in BOOLEAN
  BY ProjectAssumption DEF ProjectAssumption
<1>3. (IF Joined(e) THEN e.node ELSE None) \in Nodes \cup {None}
  OBVIOUS
<1>4. new.id = id /\ new.depth = e.depth /\ new.kind = "block"
      /\ new.vars = Empty /\ new.params = Empty
  BY DEF NewScope
<1> HIDE DEF new
<1> QED BY <1>1, <1>2, <1>3, <1>4 DEF BlockScope, new, Scope

-----------------------------------------------------------------------------
(* What one event does to the stack: it keeps a prefix, then at most opens *)
(* the pending scope, then at most opens a block.                          *)

Event2(e) == e \in Event /\ (e.cmd = "block" => e.node \in Nodes)

\* The assumption on the trace, in the form the steps below use.
LEMMA EventsAreEvents == \A e \in Events : Event2(e)
BY ReplayAssumption DEF ReplayAssumption, Event2, Event

Shape(e, n, new) ==
    /\ Keeps(BaseStack(e), e, n)
    /\ n <= Len(new)
    /\ \A i \in 1..n : /\ new[i].id = BaseStack(e)[i].id
                       /\ new[i].depth = BaseStack(e)[i].depth
                       /\ new[i].kind = BaseStack(e)[i].kind
    /\ \A i \in 1..Len(new) : i > n =>
          /\ new[i].depth = e.depth
          /\ new[i].kind # "block" => i = n + 1 /\ Opens(e)

\* Closing scopes fills in closed_by and keeps every row.
LEMMA CloseRowsType ==
    ASSUME NEW rows \in Seq(ScopeRow), NEW st, NEW n, NEW eid \in Nat
    PROVE  /\ CloseRows(rows, st, n, eid) \in Seq(ScopeRow)
           /\ Len(CloseRows(rows, st, n, eid)) = Len(rows)
<1>1. Len(rows) \in Nat /\ \A i \in 1..Len(rows) : rows[i] \in ScopeRow
  BY LenProperties, ElementOfSeq
<1>2. \A i \in 1..Len(rows) : [rows[i] EXCEPT !.closedBy = eid] \in ScopeRow
  BY <1>1 DEF ScopeRow
<1> QED BY <1>1, <1>2, LenProperties DEF CloseRows

\* The rows an event starts from include that of the root.
LEMMA BaseRowsType ==
    ASSUME TypeOK
    PROVE  BaseRows \in Seq(ScopeRow)
<1> DEFINE row == [parent |-> NoRow, kind |-> "root", openedBy |-> NoRow,
                   closedBy |-> NoRow]
<1>1. row \in ScopeRow
  BY DEF ScopeRow, NoRow, Kinds
<1>2. <<row>> \in Seq(ScopeRow)
  BY <1>1
<1> QED BY <1>2 DEF BaseRows, TypeOK

\* The last definition of a command is a function, a macro or none.
LEMMA DefsType ==
    ASSUME TypeOK, NEW e \in Event
    PROVE  DefsAfter(e) \in [Procs -> Def \cup {None}]
<1>1. CASE e.cmd \in {"function", "macro"} /\ e.proc # None
  <2>1. e.proc \in Procs /\ [kind |-> e.cmd, params |-> e.params] \in Def
    BY <1>1 DEF Event, Def
  <2> QED BY <1>1, <2>1 DEF DefsAfter, TypeOK
<1>2. CASE ~(e.cmd \in {"function", "macro"} /\ e.proc # None)
  BY <1>2 DEF DefsAfter, TypeOK
<1> QED BY <1>1, <1>2

\* The scope an event may open lies one frame below the event.
LEMMA PendingType ==
    ASSUME NEW e \in Event, NEW ds \in [Procs -> Def \cup {None}], NEW eid \in Nat
    PROVE  /\ ComputePending(e, ds, eid) \in Pending
           /\ ComputePending(e, ds, eid).depth = e.depth + 1
<1>1. \A p \in Procs : ds[p] # None => ds[p] \in Def
  OBVIOUS
<1>2. e.proc # None => e.proc \in Procs
  BY DEF Event
<1>3. PendingKind(e, ds) \in Kinds
  BY <1>1, <1>2 DEF PendingKind, Kinds, Def
<1>4. PendingParams(e, ds) \in SUBSET Names
  BY <1>1, <1>2 DEF PendingParams, Def
<1> QED BY <1>3, <1>4 DEF ComputePending, Pending, Event

\* The stages of one event, each from those before: n scopes survive (st1, sc1),
\* the pending one opens (st2, sc2), rows are added (ws2, c2), and the event
\* writes (cmd, st3).
Stages(e, n, st1, sc1, st2, sc2, ws2, c2, cmd, st3) ==
    /\ n \in 1..Len(BaseStack(e))
    /\ Keeps(BaseStack(e), e, n)
    /\ st1 = SubSeq(BaseStack(e), 1, n)
    /\ sc1 = CloseRows(BaseRows, BaseStack(e), n, nEvents)
    /\ st2 = Opened(st1, e, Len(sc1) + 1)
    /\ sc2 = OpenedRows(sc1, st1, e)
    /\ ws2 = SeededRows(Synthesized(e, Len(sc1) + 1))
    /\ c2 = CacheWithSeeds(ws2)
    /\ cmd = EffectiveCmd(st2, e.cmd)
    /\ st3 = IF IsWrite(e) THEN Written(st2, cmd, e.name, Len(ws2) + 1) ELSE st2

BlockRow(st) ==
    [parent |-> st[Len(st)].id, kind |-> "block", openedBy |-> nEvents + 1, closedBy |-> NoRow]

\* What they leave in the variables.
Results(e, dump, st2, sc2, ws2, c2, cmd, st3) ==
    /\ RecordReads(e, st2, c2, Len(ws2))
    /\ IF IsWrite(e)
       THEN /\ \E sc \in 0..Len(sc2) :
                  /\ RecordScope(st2, cmd, sc)
                  /\ writes' = Append(ws2, [names |-> {e.name}, scope |-> sc, cmd |-> cmd,
                                            event |-> nEvents + 1])
            /\ cacheVars' = CacheWritten(c2, cmd, e.name, Len(ws2) + 1)
            /\ envVars' = EnvWritten(st2, envVars, cmd, e.name, Len(ws2) + 1)
       ELSE writes' = ws2 /\ cacheVars' = c2 /\ envVars' = envVars
    /\ mismatches' \in {mismatches, mismatches \cup SnapshotMismatches(st2, dump)}
    /\ stack' = IF e.cmd = "block" THEN Append(st3, BlockScope(e, Len(sc2) + 1)) ELSE st3
    /\ scopes' = IF e.cmd = "block" THEN Append(sc2, BlockRow(st2)) ELSE sc2
    /\ pending' = ComputePending(e, DefsAfter(e), nEvents + 1)
    /\ nEvents' = nEvents + 1

\* Every event goes through them.
LEMMA ReplayStages ==
    ASSUME NEW e, NEW dump, Replay(e, dump)
    PROVE  \E n, st1, sc1, st2, sc2, ws2, c2, cmd, st3 :
              /\ Stages(e, n, st1, sc1, st2, sc2, ws2, c2, cmd, st3)
              /\ Results(e, dump, st2, sc2, ws2, c2, cmd, st3)
<1> DEFINE eid == nEvents + 1
           st1(n) == SubSeq(BaseStack(e), 1, n)
           sc1(n) == CloseRows(BaseRows, BaseStack(e), n, nEvents)
           st2(n) == Opened(st1(n), e, Len(sc1(n)) + 1)
           sc2(n) == OpenedRows(sc1(n), st1(n), e)
           ws2(n) == SeededRows(Synthesized(e, Len(sc1(n)) + 1))
           c2(n)  == CacheWithSeeds(ws2(n))
           cmd(n) == EffectiveCmd(st2(n), e.cmd)
           st3(n) == IF IsWrite(e) THEN Written(st2(n), cmd(n), e.name, Len(ws2(n)) + 1)
                     ELSE st2(n)
<1>1. PICK n \in 1..Len(BaseStack(e)) :
         /\ Keeps(BaseStack(e), e, n)
         /\ Results(e, dump, st2(n), sc2(n), ws2(n), c2(n), cmd(n), st3(n))
  BY DEF Replay, Results, BlockRow
<1>2. Stages(e, n, st1(n), sc1(n), st2(n), sc2(n), ws2(n), c2(n), cmd(n), st3(n))
  BY <1>1 DEF Stages
<1> HIDE DEF st1, sc1, st2, sc2, ws2, c2, cmd, st3
<1> QED BY <1>1, <1>2

\* The stages keep the types; the stack keeps a prefix and gets the new scope.
LEMMA StageTypes ==
    ASSUME TypeOK, NEW e, Event2(e), NEW n, NEW st1, NEW sc1, NEW st2, NEW sc2, NEW ws2,
           NEW c2, NEW cmd, NEW st3, Stages(e, n, st1, sc1, st2, sc2, ws2, c2, cmd, st3)
    PROVE  /\ st1 \in Seq(Scope) /\ Len(st1) = n /\ \A i \in 1..n : st1[i] = BaseStack(e)[i]
           /\ sc1 \in Seq(ScopeRow) /\ Len(sc1) \in Nat
           /\ sc2 \in Seq(ScopeRow) /\ Len(sc2) \in Nat
           /\ ws2 \in Seq(WriteRow) /\ Len(ws2) \in Nat
           /\ c2 \in [Names -> Nat]
           /\ st2 \in Seq(Scope)
           /\ ~Opens(e) => st2 = st1
           /\ Opens(e) => /\ Len(st2) = n + 1
                          /\ \A i \in 1..n : st2[i] = st1[i]
                          /\ st2[n + 1] = OpenedScope(Len(sc1) + 1, e, Len(writes) + 1)
                          /\ st2[n + 1].depth = e.depth
           /\ st3 \in Seq(Scope) /\ Len(st3) = Len(st2)
           /\ \A i \in 1..Len(st2) : /\ st3[i].id = st2[i].id
                                     /\ st3[i].depth = st2[i].depth
                                     /\ st3[i].kind = st2[i].kind
                                     /\ st3[i].params = st2[i].params
<1> DEFINE base == BaseStack(e)
<1>e. e \in Event
  BY DEF Event2
<1>b. base \in Seq(Scope) /\ n \in 1..Len(base)
  BY <1>e, BaseStackType DEF Stages
<1>1. st1 \in Seq(Scope) /\ Len(st1) = n /\ \A i \in 1..n : st1[i] = base[i]
  <2> HIDE DEF base
  <2>1. st1 = SubSeq(base, 1, n)
    BY DEF Stages, base
  <2> QED BY <1>b, <2>1, KeptType
<1>2. sc1 \in Seq(ScopeRow) /\ Len(sc1) \in Nat
  <2>1. nEvents \in Nat
    BY ReplayAssumption DEF ReplayAssumption, TypeOK
  <2> QED BY <2>1, BaseRowsType, CloseRowsType, LenProperties DEF Stages
<1>3. sc2 \in Seq(ScopeRow) /\ Len(sc2) \in Nat
  <2>0. sc2 = OpenedRows(sc1, st1, e)
    BY DEF Stages
  <2>1. CASE Opens(e)
    <3>1. st1[Len(st1)].id \in Nat
      <4>1. Len(st1) \in 1..Len(st1) /\ st1[Len(st1)] \in Scope
        BY <1>1, <1>b, ElementOfSeq, LenProperties
      <4> QED BY <4>1 DEF Scope
    <3>2. [parent |-> st1[Len(st1)].id, kind |-> pending.kind,
           openedBy |-> pending.openedBy, closedBy |-> NoRow] \in ScopeRow
      BY <2>1, <3>1 DEF ScopeRow, Opens, TypeOK, Pending, NoRow
    <3> QED BY <1>2, <2>0, <2>1, <3>2, AppendProperties, LenProperties DEF OpenedRows
  <2>2. CASE ~Opens(e)
    BY <1>2, <2>0, <2>2 DEF OpenedRows
  <2> QED BY <2>1, <2>2
<1>4. ws2 \in Seq(WriteRow) /\ Len(ws2) \in Nat
  <2>1. Synthesized(e, Len(sc1) + 1) \in Seq(WriteRow)
    <3>1. CASE Synthesizes(e)
      <4>0. pending \in Pending
        BY <3>1 DEF Synthesizes, Opens, TypeOK
      <4>1. [names |-> pending.params, scope |-> Len(sc1) + 1, cmd |-> "synthetic",
             event |-> pending.openedBy] \in WriteRow
        BY <1>2, <4>0 DEF Pending, WriteRow, WriteCmds
      <4> QED BY <3>1, <4>1, AppendProperties DEF Synthesized, TypeOK
    <3>2. CASE ~Synthesizes(e)
      BY <3>2 DEF Synthesized, TypeOK
    <3> QED BY <3>1, <3>2
  <2>2. [names |-> Seeds, scope |-> NoRow, cmd |-> "cache", event |-> nEvents + 1] \in WriteRow
    BY ReplayAssumption DEF ReplayAssumption, Seeds, WriteRow, WriteCmds, NoRow, TypeOK
  <2>3. ws2 \in Seq(WriteRow)
    BY <2>1, <2>2, AppendProperties DEF SeededRows, Stages
  <2> QED BY <2>3, LenProperties
<1>5. /\ st2 \in Seq(Scope)
      /\ ~Opens(e) => st2 = st1
      /\ Opens(e) => /\ Len(st2) = n + 1
                     /\ \A i \in 1..n : st2[i] = st1[i]
                     /\ st2[n + 1] = OpenedScope(Len(sc1) + 1, e, Len(writes) + 1)
                     /\ st2[n + 1].depth = e.depth
  <2>1. Len(writes) + 1 \in Nat /\ Len(sc1) + 1 \in Nat
    BY <1>2, LenProperties DEF TypeOK
  <2>2. st2 = Opened(st1, e, Len(sc1) + 1)
    BY DEF Stages
  <2>3. st2 \in Seq(Scope) /\ (~Opens(e) => st2 = st1)
    BY <1>1, <1>e, <2>1, <2>2, OpenedType
  <2>4. ASSUME Opens(e)
        PROVE  /\ Len(st2) = n + 1
               /\ \A i \in 1..n : st2[i] = st1[i]
               /\ st2[n + 1] = OpenedScope(Len(sc1) + 1, e, Len(writes) + 1)
    BY <1>1, <1>e, <2>1, <2>2, <2>4, OpenedType
  <2>5. Opens(e) => OpenedScope(Len(sc1) + 1, e, Len(writes) + 1).depth = e.depth
    BY <1>e, <2>1, OpenedScopeType
  <2> QED BY <2>3, <2>4, <2>5
<1>6. /\ st3 \in Seq(Scope) /\ Len(st3) = Len(st2)
      /\ \A i \in 1..Len(st2) : /\ st3[i].id = st2[i].id
                                /\ st3[i].depth = st2[i].depth
                                /\ st3[i].kind = st2[i].kind
                                /\ st3[i].params = st2[i].params
  <2>1. CASE IsWrite(e)
    <3>1. e.name \in Names /\ Len(ws2) + 1 \in Nat
      BY <1>4, <1>e, <2>1 DEF IsWrite, Event
    <3>2. st3 = Written(st2, cmd, e.name, Len(ws2) + 1)
      BY <2>1 DEF Stages
    <3> QED BY <1>5, <3>1, <3>2, WrittenShape
  <2>2. CASE ~IsWrite(e)
    BY <1>5, <2>2 DEF Stages
  <2> QED BY <2>1, <2>2
<1>7. c2 \in [Names -> Nat]
  BY <1>4 DEF Stages, CacheWithSeeds, TypeOK
<1> QED BY <1>1, <1>2, <1>3, <1>4, <1>5, <1>6, <1>7

\* One event keeps a prefix of the stack and pushes at its own depth; types are kept.
LEMMA StackStep ==
    ASSUME TypeOK, NEW e, Event2(e), NEW dump, Replay(e, dump)
    PROVE  /\ stack' \in Seq(Scope)
           /\ \E n \in 1..Len(BaseStack(e)) : Shape(e, n, stack')
           /\ TypeOK'
<1> DEFINE base == BaseStack(e)
<1>e. e \in Event
  BY DEF Event2
<1>b. base \in Seq(Scope) /\ Len(base) \in Nat \ {0}
  BY <1>e, BaseStackType
<1>n. PICK n, st1, sc1, st2, sc2, ws2, c2, cmd, st3 :
         /\ Stages(e, n, st1, sc1, st2, sc2, ws2, c2, cmd, st3)
         /\ Results(e, dump, st2, sc2, ws2, c2, cmd, st3)
  BY ReplayStages
<1>1. /\ n \in 1..Len(base) /\ n \in Nat
      /\ st1 \in Seq(Scope) /\ Len(st1) = n /\ \A i \in 1..n : st1[i] = base[i]
  <2>1. n \in 1..Len(base) /\ n \in Nat
    BY <1>b, <1>n DEF Stages
  <2> QED BY <1>n, <2>1, StageTypes
<1>3. sc2 \in Seq(ScopeRow) /\ Len(sc2) + 1 \in Nat
  BY <1>n, StageTypes
<1>4. ws2 \in Seq(WriteRow) /\ Len(ws2) \in Nat /\ c2 \in [Names -> Nat]
  BY <1>n, StageTypes
<1>5. /\ st2 \in Seq(Scope)
      /\ ~Opens(e) => st2 = st1
      /\ Opens(e) => /\ Len(st2) = n + 1
                     /\ \A i \in 1..n : st2[i] = st1[i]
                     /\ st2[n + 1].depth = e.depth
  BY <1>n, StageTypes
<1>6. /\ st3 \in Seq(Scope)
      /\ Len(st3) = Len(st2)
      /\ \A i \in 1..Len(st2) : /\ st3[i].id = st2[i].id
                                /\ st3[i].depth = st2[i].depth
                                /\ st3[i].kind = st2[i].kind
  BY <1>n, StageTypes
<1>7. /\ stack' \in Seq(Scope)
      /\ Len(st3) <= Len(stack')
      /\ \A i \in 1..Len(st3) : stack'[i] = st3[i]
      /\ \A i \in 1..Len(stack') : i > Len(st3) =>
            stack'[i].depth = e.depth /\ stack'[i].kind = "block"
  <2>1. CASE e.cmd = "block"
    <3>1. e.node \in Nodes
      BY <2>1 DEF Event2
    <3>2. BlockScope(e, Len(sc2) + 1) \in Scope
      BY <1>3, <1>e, <3>1, BlockScopeType
    <3>3. stack' = Append(st3, BlockScope(e, Len(sc2) + 1))
      BY <1>n, <2>1 DEF Results
    <3>4. /\ BlockScope(e, Len(sc2) + 1).depth = e.depth
          /\ BlockScope(e, Len(sc2) + 1).kind = "block"
      BY <1>3, <1>e, <3>1, BlockScopeType
    <3> QED BY <1>6, <3>2, <3>3, <3>4, AppendProperties, LenProperties
  <2>2. CASE e.cmd # "block"
    <3>1. stack' = st3
      BY <1>n, <2>2 DEF Results
    <3> QED BY <1>6, <3>1, LenProperties
  <2> QED BY <2>1, <2>2
<1>8. Shape(e, n, stack')
  <2>1. n <= Len(stack') /\ Len(st2) \in {n, n + 1} /\ (Len(st2) = n + 1 => Opens(e))
    BY <1>1, <1>5, <1>6, <1>7, <1>b, LenProperties
  <2>2. ASSUME NEW i \in 1..n
        PROVE  /\ stack'[i].id = base[i].id
               /\ stack'[i].depth = base[i].depth
               /\ stack'[i].kind = base[i].kind
    <3>1. i \in 1..Len(st2) /\ i \in 1..Len(st3)
      BY <1>1, <1>6, <2>1
    <3>2. st2[i] = st1[i]
      BY <1>5
    <3> QED BY <1>1, <1>6, <1>7, <3>1, <3>2
  <2>3. ASSUME NEW i \in 1..Len(stack'), i > n
        PROVE  /\ stack'[i].depth = e.depth
               /\ stack'[i].kind # "block" => i = n + 1 /\ Opens(e)
    <3>1. CASE i > Len(st3)
      BY <1>7, <2>3, <3>1
    <3>2. CASE i <= Len(st3)
      <4>1. i = n + 1 /\ Len(st2) = n + 1 /\ Opens(e)
        BY <1>1, <1>6, <2>1, <2>3, <3>2
      <4>2. i \in 1..Len(st3) /\ i \in 1..Len(st2)
        BY <1>6, <2>3, <3>2, <4>1
      <4>3. stack'[i].depth = st2[n + 1].depth
        BY <1>6, <1>7, <4>1, <4>2
      <4> QED BY <1>5, <4>1, <4>3
    <3>3. Len(st3) \in Nat
      BY <1>6, LenProperties
    <3> QED BY <3>1, <3>2, <3>3
  <2>4. Keeps(base, e, n)
    BY <1>n DEF Stages
  <2> QED BY <2>1, <2>2, <2>3, <2>4 DEF Shape
<1>9. nEvents + 1 \in Nat
  BY ReplayAssumption DEF ReplayAssumption, TypeOK
<1>10. writes' \in Seq(WriteRow)
  <2>1. CASE IsWrite(e)
    <3>1. PICK sc \in 0..Len(sc2) :
            writes' = Append(ws2, [names |-> {e.name}, scope |-> sc, cmd |-> cmd,
                                   event |-> nEvents + 1])
      BY <1>n, <2>1 DEF Results
    <3>2. e.name \in Names /\ cmd \in WriteCmds
      BY <1>e, <1>n, <2>1 DEF IsWrite, Event, Stages, EffectiveCmd, WriteCmds
    <3>3. sc \in Nat
      BY <1>3
    <3>4. [names |-> {e.name}, scope |-> sc, cmd |-> cmd, event |-> nEvents + 1] \in WriteRow
      BY <1>9, <3>2, <3>3 DEF WriteRow
    <3> QED BY <1>4, <3>1, <3>4, AppendProperties
  <2>2. CASE ~IsWrite(e)
    BY <1>n, <1>4, <2>2 DEF Results
  <2> QED BY <2>1, <2>2
<1>11. cacheVars' \in [Names -> Nat] /\ envVars' \in [Names -> Nat]
  <2> DEFINE w == Len(ws2) + 1
  <2>1. CASE IsWrite(e)
    <3>1. /\ cacheVars' = CacheWritten(c2, cmd, e.name, w)
          /\ envVars' = EnvWritten(st2, envVars, cmd, e.name, w)
      BY <1>n, <2>1 DEF Results
    <3>2. e.name \in Names /\ w \in Nat
      BY <1>4, <1>e, <2>1 DEF IsWrite, Event
    <3> HIDE DEF w
    <3>3. [c2 EXCEPT ![e.name] = w] \in [Names -> Nat]
      BY <1>4, <3>2
    <3>4. cacheVars' \in [Names -> Nat]
      BY <1>4, <3>1, <3>3 DEF CacheWritten
    <3>5. /\ [envVars EXCEPT ![e.name] = w] \in [Names -> Nat]
          /\ [envVars EXCEPT ![e.name] = NoRow] \in [Names -> Nat]
          /\ envVars \in [Names -> Nat]
      BY <3>2 DEF TypeOK, NoRow
    <3>6. envVars' \in [Names -> Nat]
      BY <3>1, <3>5 DEF EnvWritten
    <3> QED BY <3>4, <3>6
  <2>2. CASE ~IsWrite(e)
    BY <1>n, <1>4, <2>2 DEF Results, TypeOK
  <2> QED BY <2>1, <2>2
<1>12. defs' \in [Procs -> Def \cup {None}] /\ pending' \in Pending
  <2>1. defs' = DefsAfter(e) /\ pending' = ComputePending(e, DefsAfter(e), nEvents + 1)
    BY <1>n DEF Results, Replay
  <2> QED BY <1>9, <1>e, <2>1, DefsType, PendingType
<1>13. scopes' \in Seq(ScopeRow)
  <2>1. st2[Len(st2)].id \in Nat
    <3>1. Len(st2) \in 1..Len(st2)
      BY <1>1, <1>5, <1>b, LenProperties
    <3>2. st2[Len(st2)] \in Scope
      BY <1>5, <3>1, ElementOfSeq
    <3> QED BY <3>2 DEF Scope
  <2>2. BlockRow(st2) \in ScopeRow
    BY <1>9, <2>1 DEF BlockRow, ScopeRow, Kinds, NoRow
  <2>3. scopes' \in {sc2, Append(sc2, BlockRow(st2))}
    BY <1>n DEF Results
  <2> QED BY <1>3, <2>2, <2>3, AppendProperties
<1>14. lastRead' \in [name : Names \cup {None}, var : Nat, env : Nat]
  <2>1. RecordReads(e, st2, c2, Len(ws2))
    BY <1>n DEF Results
  <2>2. CASE Joined(e) /\ e.ref # None
    <3>1. PICK v \in 0..Len(ws2) : lastRead' = [name |-> e.ref, var |-> v, env |-> envVars[e.ref]]
      BY <2>1, <2>2 DEF RecordReads
    <3>2. v \in Nat
      BY <1>4
    <3>3. e.ref \in Names /\ envVars[e.ref] \in Nat
      BY <1>e, <2>2 DEF Event, TypeOK
    <3> QED BY <3>1, <3>2, <3>3
  <2>3. CASE ~(Joined(e) /\ e.ref # None)
    BY <2>1, <2>3 DEF RecordReads, NoRead, NoRow
  <2> QED BY <2>2, <2>3
<1>15. mismatches' \subseteq Names
  <2>1. SnapshotMismatches(st2, dump) \subseteq Names
    BY DEF SnapshotMismatches
  <2> QED BY <1>n, <2>1 DEF TypeOK, Results
<1>16. nEvents' \in 0..MaxEvents /\ outcome' \in {"running", "ok", "failed"}
  BY ReplayAssumption DEF ReplayAssumption, Replay, TypeOK
<1>17. TypeOK'
  BY <1>7, <1>10, <1>11, <1>12, <1>13, <1>14, <1>15, <1>16 DEF TypeOK
<1> QED BY <1>1, <1>7, <1>8, <1>17

\* The end of the trace closes the scopes still open and changes no type.
LEMMA FinishType ==
    ASSUME TypeOK, Finish
    PROVE  TypeOK'
<1>1. scopes' \in Seq(ScopeRow)
  <2>1. nEvents \in Nat
    BY ReplayAssumption DEF ReplayAssumption, TypeOK
  <2> QED BY <2>1, CloseRowsType DEF Finish, TypeOK
<1>2. stack' \in Seq(Scope) /\ outcome' \in {"running", "ok", "failed"}
  BY EmptySeq DEF Finish
<1> QED BY <1>1, <1>2 DEF Finish, TypeOK

\* The types: the tables, rows and stack of the replay stay well formed on any
\* trace.
THEOREM ReplayTypeOK == RSpec => []TypeOK
<1>1. RInit => TypeOK
  <2> SUFFICES ASSUME RInit PROVE TypeOK
    OBVIOUS
  <2>1. stack \in Seq(Scope) /\ scopes \in Seq(ScopeRow) /\ writes \in Seq(WriteRow)
    BY EmptySeq DEF RInit
  <2>2. lastRead \in [name : Names \cup {None}, var : Nat, env : Nat]
    BY DEF RInit, NoRead, NoRow
  <2>3. nEvents \in 0..MaxEvents
    BY ReplayAssumption DEF RInit, ReplayAssumption
  <2> QED BY EmptyType, <2>1, <2>2, <2>3 DEF RInit, TypeOK
<1>2. TypeOK /\ [RNext]_rvars => TypeOK'
  <2> SUFFICES ASSUME TypeOK, [RNext]_rvars PROVE TypeOK'
    OBVIOUS
  <2>1. ASSUME NEW e \in Events, NEW dump, Replay(e, dump)
        PROVE  TypeOK'
    BY <2>1, EventsAreEvents, StackStep
  <2>2. CASE Finish
    BY <2>2, FinishType
  <2>3. CASE UNCHANGED rvars
    BY <2>3 DEF rvars, TypeOK
  <2> QED BY <2>1, <2>2, <2>3 DEF RNext
<1> QED BY <1>1, <1>2, PTL DEF RSpec

-----------------------------------------------------------------------------
(* The stack mirrors the call stack.  Neither property is inductive alone: *)
(* that a newly opened frame lies strictly above the scopes below it rests *)
(* on every open scope being shallower than the pending frame, and the     *)
(* latter on the depths being sorted, so that the close loop, which stops  *)
(* at the first survivor, leaves nothing too deep under it.                *)

Started ==
    outcome = "running" =>
        /\ nEvents > 0 => pending # None
        /\ pending # None => nEvents > 0 /\ stack # <<>>

DisciplineInv ==
    TypeOK /\ Started /\ StackMirrorsCalls /\ NoReturnedScopeOpen

\* One event keeps the stack in step with the call depth of the trace.
LEMMA ReplayKeepsDiscipline ==
    ASSUME DisciplineInv, NEW e, Event2(e), NEW dump, Replay(e, dump)
    PROVE  DisciplineInv'
<1> DEFINE base == BaseStack(e)
<1>e. e \in Event /\ e.depth \in Nat
  BY DEF Event2, Event
<1>t. TypeOK /\ Started /\ StackMirrorsCalls /\ NoReturnedScopeOpen
  BY DEF DisciplineInv
<1>r. /\ outcome = "running" /\ outcome' = "running"
      /\ nEvents \in Nat /\ nEvents' = nEvents + 1
      /\ InTrace(e)
  BY <1>t, ReplayAssumption DEF Replay, TypeOK, ReplayAssumption
<1>b. /\ base \in Seq(Scope) /\ Len(base) \in Nat \ {0}
      /\ \A i \in 1..Len(base) : base[i].depth \in Nat
  <2>1. base \in Seq(Scope) /\ Len(base) \in Nat \ {0}
    BY <1>e, <1>t, BaseStackType
  <2>2. \A i \in 1..Len(base) : base[i] \in Scope
    BY <2>1, ElementOfSeq
  <2> QED BY <2>1, <2>2 DEF Scope
<1>s. /\ stack' \in Seq(Scope)
      /\ \E n \in 1..Len(base) : Shape(e, n, stack')
      /\ TypeOK'
  BY <1>t, StackStep
<1>n. PICK n \in 1..Len(base) : Shape(e, n, stack')
  BY <1>s
<1>p. pending' # None /\ pending'.depth = e.depth + 1
  <2>1. pending' = ComputePending(e, DefsAfter(e), nEvents + 1)
    BY DEF Replay
  <2>2. DefsAfter(e) \in [Procs -> Def \cup {None}] /\ nEvents + 1 \in Nat
    BY <1>e, <1>t, <1>r, DefsType
  <2>3. pending' \in Pending /\ pending'.depth = e.depth + 1
    BY <1>e, <2>1, <2>2, PendingType
  <2> QED BY <2>3, ReplayAssumption DEF ReplayAssumption
\* The base: the depths are sorted, and no deeper than a frame about to open.
<1>1. \A i, j \in 1..Len(base) : i < j =>
         /\ base[i].depth <= base[j].depth
         /\ base[j].kind # "block" => base[i].depth < base[j].depth
  <2>1. CASE stack = <<>>
    BY <2>1 DEF BaseStack
  <2>2. CASE stack # <<>>
    BY <1>t, <2>2 DEF BaseStack, StackMirrorsCalls
  <2> QED BY <2>1, <2>2
<1>2. Opens(e) => \A i \in 1..Len(base) : base[i].depth < e.depth
  BY <1>t, <1>r DEF Opens, Started, NoReturnedScopeOpen, BaseStack
\* What survives the close loop is no deeper than the event.
<1>3. \A i \in 1..n : base[i].depth <= e.depth
  <2>1. base[n].depth <= e.depth
    <3>1. CASE n = 1
      <4>1. CASE stack = <<>>
        BY <3>1, <4>1, <1>e DEF BaseStack, NewScope
      <4>2. CASE stack # <<>>
        BY <1>r, <1>b, <1>e, <3>1, <4>2 DEF BaseStack, InTrace
      <4> QED BY <4>1, <4>2
    <3>2. CASE n # 1
      BY <1>n, <1>b, <1>e, <3>2 DEF Shape, Keeps, Closes
    <3> QED BY <3>1, <3>2
  <2>2. ASSUME NEW i \in 1..n, i # n
        PROVE  base[i].depth <= base[n].depth
    BY <1>1, <1>b, <2>2
  <2>3. \A i \in 1..n : base[i].depth \in Nat
    BY <1>b
  <2> QED BY <1>e, <2>1, <2>2, <2>3
<1>4. /\ n <= Len(stack') /\ Len(stack') \in Nat
      /\ \A i \in 1..n : /\ stack'[i].depth = base[i].depth
                         /\ stack'[i].kind = base[i].kind
      /\ \A i \in 1..Len(stack') : i > n =>
            /\ stack'[i].depth = e.depth
            /\ stack'[i].kind # "block" => i = n + 1 /\ Opens(e)
  BY <1>n, <1>s, LenProperties DEF Shape
<1>5. StackMirrorsCalls'
  <2> SUFFICES ASSUME NEW i \in 1..Len(stack'), NEW j \in 1..Len(stack'), i < j
               PROVE  /\ stack'[i].depth <= stack'[j].depth
                      /\ stack'[j].kind # "block" => stack'[i].depth < stack'[j].depth
    BY DEF StackMirrorsCalls
  <2>1. CASE j <= n
    BY <1>1, <1>4, <1>b, <2>1
  <2>2. CASE j > n /\ i <= n
    BY <1>2, <1>3, <1>4, <1>b, <1>e, <2>2
  <2>3. CASE i > n
    BY <1>4, <1>e, <2>3
  <2> QED BY <2>1, <2>2, <2>3, <1>4
<1>6. NoReturnedScopeOpen'
  BY <1>3, <1>4, <1>b, <1>e, <1>p, SMTT(30) DEF NoReturnedScopeOpen
<1>7. Started'
  <2>1. stack' # <<>>
    BY <1>4, <1>b, EmptySeq
  <2> QED BY <1>p, <1>r, <2>1 DEF Started
<1> QED BY <1>5, <1>6, <1>7, <1>s DEF DisciplineInv

\* On any trace the scope stack mirrors the call stack: depths never fall going
\* up it, only block scopes share a depth, and no scope of a frame that has
\* returned is still open when an event has been replayed.
THEOREM StackDiscipline == RSpec => []StackDisciplined
<1>1. RInit /\ TypeOK => DisciplineInv
  BY DEF RInit, DisciplineInv, Started, StackMirrorsCalls, NoReturnedScopeOpen
<1>2. DisciplineInv /\ [RNext]_rvars => DisciplineInv'
  <2> SUFFICES ASSUME DisciplineInv, [RNext]_rvars PROVE DisciplineInv'
    OBVIOUS
  <2>1. ASSUME NEW e \in Events, NEW dump, Replay(e, dump)
        PROVE  DisciplineInv'
    BY <2>1, EventsAreEvents, ReplayKeepsDiscipline
  <2>2. CASE Finish
    <3>1. TypeOK'
      BY <2>2, FinishType DEF DisciplineInv
    <3>2. stack' = <<>> /\ outcome' # "running"
      BY <2>2 DEF Finish
    <3> QED BY <3>1, <3>2 DEF DisciplineInv, Started, StackMirrorsCalls, NoReturnedScopeOpen
  <2>3. CASE UNCHANGED rvars
    BY <2>3 DEF rvars, DisciplineInv, TypeOK, Started, StackMirrorsCalls, NoReturnedScopeOpen
  <2> QED BY <2>1, <2>2, <2>3 DEF RNext
<1>3. DisciplineInv => StackDisciplined
  BY DEF DisciplineInv, StackDisciplined
<1> QED BY <1>1, <1>2, <1>3, ReplayTypeOK, PTL DEF RSpec

-----------------------------------------------------------------------------
(* Entries and rows.                                                       *)

\* Entry w for x in the table of scope sc is one of the rows ws.
Row(ws, w, x, sc) ==
    w # NoRow => /\ w \in 1..Len(ws)
                 /\ x \in ws[w].names
                 /\ ws[w].scope = sc

\* All the entries of a stack, a cache and an environment are.
Match(st, ws, cache, env) ==
    \A x \in Names :
        /\ Row(ws, cache[x], x, NoRow) /\ Row(ws, env[x], x, NoRow)
        /\ \A i \in 1..Len(st) : /\ Row(ws, st[i].vars[x], x, st[i].id)
                                 /\ Row(ws, st[i].params[x], x, st[i].id)

LEMMA RowGrows ==
    ASSUME NEW ws \in Seq(WriteRow), NEW r \in WriteRow, NEW w, NEW x, NEW sc, Row(ws, w, x, sc)
    PROVE  Row(Append(ws, r), w, x, sc)
<1>1. /\ Len(ws) \in Nat /\ Len(Append(ws, r)) = Len(ws) + 1
      /\ \A i \in 1..Len(ws) : Append(ws, r)[i] = ws[i]
  BY AppendProperties, LenProperties
<1> QED BY <1>1 DEF Row

\* The last row is the one appended.
LEMMA LastRow ==
    ASSUME NEW ws \in Seq(WriteRow), NEW r \in WriteRow
    PROVE  \A x \in r.names : Row(Append(ws, r), Len(ws) + 1, x, r.scope)
<1>1. /\ Len(ws) \in Nat /\ Len(Append(ws, r)) = Len(ws) + 1
      /\ Append(ws, r)[Len(ws) + 1] = r
  BY AppendProperties, LenProperties
<1> QED BY <1>1 DEF Row

\* A new scope holds the row of its arguments, under their names.
LEMMA OpenedTables ==
    ASSUME TypeOK, NEW e \in Event, Opens(e), NEW id \in Nat, NEW w \in Nat, NEW x \in Names
    PROVE  LET s == OpenedScope(id, e, w)
           IN  /\ s.vars[x] # NoRow => /\ s.vars[x] = w /\ x \in pending.params
                                       /\ Synthesizes(e)
               /\ s.params[x] # NoRow => /\ s.params[x] = w /\ x \in pending.params
                                         /\ Synthesizes(e)
<1> DEFINE args == [y \in Names |-> IF y \in pending.params THEN w ELSE NoRow]
           new  == NewScope(id, e.depth, pending.kind)
<1>1. new \in Scope /\ new.vars = Empty /\ new.params = Empty
  BY NewScopeType DEF Opens, TypeOK, Pending, Event, NewScope
<1>2. Empty[x] = NoRow /\ (args[x] # NoRow => args[x] = w /\ x \in pending.params)
  BY DEF Empty
<1>3. OpenedScope(id, e, w) = CASE pending.kind = "macro"    -> [new EXCEPT !.params = args]
                                [] pending.kind = "function" -> [new EXCEPT !.vars = args]
                                [] OTHER                     -> new
  BY DEF OpenedScope
<1> HIDE DEF args, new
<1>4. CASE pending.kind = "macro"
  BY <1>1, <1>2, <1>3, <1>4 DEF Scope, Synthesizes
<1>5. CASE pending.kind = "function"
  BY <1>1, <1>2, <1>3, <1>5 DEF Scope, Synthesizes
<1>6. CASE pending.kind \notin {"macro", "function"}
  BY <1>1, <1>2, <1>3, <1>6 DEF Scope
<1> QED BY <1>4, <1>5, <1>6

\* A write goes to one scope at most.
LEMMA OneTarget ==
    ASSUME NEW st \in Seq(Scope), NEW cmd, NEW i \in 1..Len(st), NEW k \in 1..Len(st),
           Target(st, cmd, i), Target(st, cmd, k)
    PROVE  i = k
<1>1. Len(st) \in Nat
  BY LenProperties
<1>2. ASSUME NEW a \in 1..Len(st), NEW b \in 1..Len(st), Nearest(st, a), Nearest(st, b)
      PROVE  a = b
  BY <1>1, <1>2 DEF Nearest
<1>3. ASSUME NEW a \in 1..Len(st), NEW b \in 1..Len(st), a < b,
             SecondNearest(st, a), SecondNearest(st, b)
      PROVE  FALSE
  <2>1. ~st[a].transparent /\ ~st[b].transparent
    BY <1>3 DEF SecondNearest
  <2>2. PICK l \in 1..Len(st) : /\ l > a /\ Nearest(st, l)
                                /\ \A j \in 1..Len(st) : a < j /\ j < l => st[j].transparent
    BY <1>3, <2>1 DEF SecondNearest
  <2>3. PICK m \in 1..Len(st) : m > b /\ Nearest(st, m)
    BY <1>3, <2>1 DEF SecondNearest
  <2> QED BY <1>1, <1>2, <1>3, <2>1, <2>2, <2>3
<1>4. CASE cmd \in {"set", "unset"}
  BY <1>2, <1>4 DEF Target
<1>5. CASE cmd = "parent_scope"
  <2>1. SecondNearest(st, i) /\ SecondNearest(st, k)
    BY <1>5 DEF Target
  <2> QED BY <1>1, <1>3, <2>1
<1> QED BY <1>4, <1>5 DEF Target

\* What a write changes in the tables.
LEMMA WrittenTables ==
    ASSUME NEW st \in Seq(Scope), NEW cmd, NEW x \in Names, NEW w \in Nat,
           NEW i \in 1..Len(st), NEW y \in Names
    PROVE  LET new == Written(st, cmd, x, w)[i]
           IN  /\ new.vars[y] \in {st[i].vars[y], NoRow, w}
               /\ new.vars[y] # st[i].vars[y] => Target(st, cmd, i) /\ y = x
               /\ new.vars[y] # st[i].vars[y] /\ new.vars[y] # NoRow => cmd # "unset"
<1> DEFINE v == IF cmd = "unset" THEN NoRow ELSE w
           new == Written(st, cmd, x, w)[i]
<1>1. st[i] \in Scope /\ st[i].vars \in [Names -> Nat]
  <2>1. st[i] \in Scope
    BY ElementOfSeq
  <2> QED BY <2>1 DEF Scope
<1>2. new = IF Target(st, cmd, i) THEN [st[i] EXCEPT !.vars[x] = v] ELSE st[i]
  BY DEF Written
<1>3. Target(st, cmd, i) => new.vars = [st[i].vars EXCEPT ![x] = v]
  <2> HIDE DEF v, new
  <2> QED BY <1>1, <1>2 DEF Scope
<1>4. v \in {NoRow, w} /\ (v # NoRow => cmd # "unset")
  OBVIOUS
<1> HIDE DEF v
<1>5. CASE Target(st, cmd, i)
  <2> HIDE DEF new
  <2> QED BY <1>1, <1>3, <1>4, <1>5 DEF new
<1>6. CASE ~Target(st, cmd, i)
  BY <1>2, <1>6
<1> QED BY <1>5, <1>6

\* The scopes that survive and the one that opens hold rows; the synthetic row
\* is recorded against the scope that holds it.
LEMMA MatchOpened ==
    ASSUME TypeOK, NEW e, Event2(e), NEW n, NEW st1, NEW sc1, NEW st2, NEW sc2, NEW ws2,
           NEW c2, NEW cmd, NEW st3, Stages(e, n, st1, sc1, st2, sc2, ws2, c2, cmd, st3),
           Match(stack, writes, cacheVars, envVars)
    PROVE  LET ws == Synthesized(e, Len(sc1) + 1)
           IN  ws \in Seq(WriteRow) /\ Match(st2, ws, cacheVars, envVars)
<1> DEFINE ws  == Synthesized(e, Len(sc1) + 1)
           row == [names |-> pending.params, scope |-> Len(sc1) + 1, cmd |-> "synthetic",
                   event |-> pending.openedBy]
<1>1. e \in Event /\ Len(sc1) + 1 \in Nat /\ Len(writes) + 1 \in Nat
  BY StageTypes, LenProperties DEF Event2, TypeOK
<1>2. /\ ~Synthesizes(e) => ws = writes
      /\ Synthesizes(e) => ws = Append(writes, row) /\ row \in WriteRow /\ Opens(e)
  BY <1>1 DEF Synthesized, Synthesizes, Opens, TypeOK, Pending, WriteRow
<1>3. writes \in Seq(WriteRow)
  BY DEF TypeOK
<1>4. row.names = pending.params /\ row.scope = Len(sc1) + 1
  OBVIOUS
<1> HIDE DEF row, ws
<1>5. ws \in Seq(WriteRow)
  BY <1>2, <1>3, AppendProperties
<1>6. \A w, x, sc : Row(writes, w, x, sc) => Row(ws, w, x, sc)
  BY <1>2, <1>3, RowGrows
<1>7. Synthesizes(e) => \A x \in pending.params : Row(ws, Len(writes) + 1, x, Len(sc1) + 1)
  BY <1>2, <1>3, <1>4, LastRow
\* The surviving scopes.
<1>8. /\ BaseStack(e) \in Seq(Scope) /\ n \in 1..Len(BaseStack(e)) /\ n \in Nat
      /\ \A i \in 1..n : st1[i] = BaseStack(e)[i]
  <2>1. BaseStack(e) \in Seq(Scope) /\ Len(BaseStack(e)) \in Nat
    BY <1>1, BaseStackType
  <2>2. n \in 1..Len(BaseStack(e)) /\ n \in Nat
    BY <2>1 DEF Stages
  <2> QED BY <2>1, <2>2, StageTypes
<1>9. ASSUME NEW x \in Names, NEW i \in 1..Len(BaseStack(e))
      PROVE  LET s == BaseStack(e)[i]
             IN  Row(writes, s.vars[x], x, s.id) /\ Row(writes, s.params[x], x, s.id)
  <2>1. CASE stack = <<>>
    <3>1. BaseStack(e)[i] = NewScope(1, e.depth, "root")
      BY <2>1 DEF BaseStack
    <3> QED BY <3>1 DEF NewScope, Empty, Row
  <2>2. CASE stack # <<>>
    BY <2>2 DEF BaseStack, Match
  <2> QED BY <2>1, <2>2
<1>10. ASSUME NEW x \in Names, NEW i \in 1..Len(st2)
       PROVE  Row(ws, st2[i].vars[x], x, st2[i].id) /\ Row(ws, st2[i].params[x], x, st2[i].id)
  <2>1. /\ ~Opens(e) => Len(st2) = n /\ st2[i] = st1[i]
        /\ Opens(e) => Len(st2) = n + 1 /\ (i # n + 1 => st2[i] = st1[i])
    <3>1. /\ ~Opens(e) => st2 = st1 /\ Len(st2) = n
          /\ Opens(e) => Len(st2) = n + 1 /\ \A k \in 1..n : st2[k] = st1[k]
      BY StageTypes
    <3> QED BY <1>8, <3>1
  <2>2. CASE i \in 1..n
    <3>1. i # n + 1 /\ i \in 1..Len(BaseStack(e))
      BY <1>8, <2>2
    <3>2. st2[i] = BaseStack(e)[i]
      BY <1>8, <2>1, <2>2, <3>1
    <3> QED BY <1>6, <1>9, <3>1, <3>2
  <2>3. CASE i \notin 1..n
    <3>1. Opens(e) /\ i = n + 1
      BY <1>8, <2>1, <2>3
    <3>2. st2[i] = OpenedScope(Len(sc1) + 1, e, Len(writes) + 1)
      BY <3>1, StageTypes
    <3>3. st2[i].id = Len(sc1) + 1
      BY <1>1, <3>1, <3>2, OpenedScopeType
    <3>4. /\ st2[i].vars[x] # NoRow => /\ st2[i].vars[x] = Len(writes) + 1
                                       /\ x \in pending.params /\ Synthesizes(e)
          /\ st2[i].params[x] # NoRow => /\ st2[i].params[x] = Len(writes) + 1
                                         /\ x \in pending.params /\ Synthesizes(e)
      BY <1>1, <3>1, <3>2, OpenedTables
    <3> QED BY <1>7, <3>3, <3>4 DEF Row
  <2> QED BY <2>2, <2>3
<1> QED BY <1>5, <1>6, <1>10 DEF Match, ws

\* So do the -D entries.
LEMMA MatchSeeded ==
    ASSUME TypeOK, NEW st, NEW ws \in Seq(WriteRow), Match(st, ws, cacheVars, envVars)
    PROVE  Match(st, SeededRows(ws), CacheWithSeeds(SeededRows(ws)), envVars)
<1> DEFINE row == [names |-> Seeds, scope |-> NoRow, cmd |-> "cache", event |-> nEvents + 1]
           new == SeededRows(ws)
<1>1. row \in WriteRow /\ row.names = Seeds /\ row.scope = NoRow
  BY ReplayAssumption DEF ReplayAssumption, Seeds, WriteRow, WriteCmds, NoRow, TypeOK
<1>2. new = (IF Seeds = {} THEN ws ELSE Append(ws, row))
  BY DEF SeededRows
<1> HIDE DEF row, new
<1>3. \A w, x, sc : Row(ws, w, x, sc) => Row(new, w, x, sc)
  BY <1>1, <1>2, RowGrows
<1>4. \A x \in Seeds : Row(new, Len(new), x, NoRow)
  <2>1. Seeds # {} => Len(new) = Len(ws) + 1
    BY <1>1, <1>2, AppendProperties
  <2> QED BY <1>1, <1>2, <2>1, LastRow
<1>5. \A x \in Names : CacheWithSeeds(new)[x] = IF x \in Seeds THEN Len(new) ELSE cacheVars[x]
  BY DEF CacheWithSeeds
<1> QED BY <1>3, <1>4, <1>5 DEF Match, new

\* And so does what the event writes: a table gets the row recorded against its
\* scope, the cache and the environment one recorded against none.
LEMMA MatchWritten ==
    ASSUME NEW st \in Seq(Scope), NEW ws \in Seq(WriteRow), NEW cache \in [Names -> Nat],
           NEW env \in [Names -> Nat], Match(st, ws, cache, env),
           NEW cmd \in WriteCmds, NEW x \in Names, NEW sc \in Nat, NEW eid \in Nat,
           RecordScope(st, cmd, sc)
    PROVE  LET w   == Len(ws) + 1
               row == [names |-> {x}, scope |-> sc, cmd |-> cmd, event |-> eid]
           IN  Match(Written(st, cmd, x, w), Append(ws, row), CacheWritten(cache, cmd, x, w),
                     EnvWritten(st, env, cmd, x, w))
<1> DEFINE w   == Len(ws) + 1
           row == [names |-> {x}, scope |-> sc, cmd |-> cmd, event |-> eid]
           all == Append(ws, row)
           new == Written(st, cmd, x, w)
<1>1. row \in WriteRow /\ w \in Nat /\ row.names = {x} /\ row.scope = sc
  BY LenProperties DEF WriteRow
<1>2. \A v, y, s : Row(ws, v, y, s) => Row(all, v, y, s)
  <2> HIDE DEF row
  <2> QED BY <1>1, RowGrows
<1>3. Row(all, w, x, sc)
  <2> HIDE DEF row
  <2>1. x \in row.names
    BY <1>1
  <2> QED BY <1>1, <2>1, LastRow
<1>4. \A y, s : Row(all, NoRow, y, s)
  BY DEF Row
<1>5. Len(new) = Len(st) /\ \A i \in 1..Len(st) : new[i].id = st[i].id /\ new[i].params = st[i].params
  <2> HIDE DEF w
  <2> QED BY <1>1, WrittenShape
<1>6. ASSUME NEW y \in Names, NEW i \in 1..Len(st)
      PROVE  Row(all, new[i].vars[y], y, new[i].id)
  <2>1. /\ new[i].vars[y] \in {st[i].vars[y], NoRow, w}
        /\ new[i].vars[y] # st[i].vars[y] => Target(st, cmd, i) /\ y = x
    <3> HIDE DEF w
    <3> QED BY <1>1, WrittenTables
  <2>2. Row(all, st[i].vars[y], y, new[i].id)
    BY <1>2, <1>5 DEF Match
  <2>3. Target(st, cmd, i) => sc = new[i].id
    BY <1>5, OneTarget DEF RecordScope
  <2> HIDE DEF w, all, new
  <2> QED BY <1>3, <1>4, <2>1, <2>2, <2>3
<1>7. (\A i \in 1..Len(st) : ~Target(st, cmd, i)) => sc = NoRow
  BY DEF RecordScope
<1>8. cmd \notin {"set", "unset", "parent_scope"} => \A i \in 1..Len(st) : ~Target(st, cmd, i)
  BY DEF Target
<1>9. ASSUME NEW y \in Names PROVE Row(all, CacheWritten(cache, cmd, x, w)[y], y, NoRow)
  <2>1. \/ CacheWritten(cache, cmd, x, w)[y] = cache[y]
        \/ CacheWritten(cache, cmd, x, w)[y] = w /\ y = x
              /\ cmd \in {"cache", "unset_cache", "cache_soft"}
    <3> HIDE DEF w
    <3> QED BY DEF CacheWritten
  <2>2. Row(all, cache[y], y, NoRow)
    BY <1>2 DEF Match
  <2> HIDE DEF w, all
  <2> QED BY <1>3, <1>7, <1>8, <2>1, <2>2
<1>10. ASSUME NEW y \in Names PROVE Row(all, EnvWritten(st, env, cmd, x, w)[y], y, NoRow)
  <2>1. \/ EnvWritten(st, env, cmd, x, w)[y] \in {env[y], NoRow}
        \/ EnvWritten(st, env, cmd, x, w)[y] = w /\ y = x /\ cmd = "set_env"
    <3> HIDE DEF w
    <3> QED BY DEF EnvWritten
  <2>2. Row(all, env[y], y, NoRow)
    BY <1>2 DEF Match
  <2> HIDE DEF w, all
  <2> QED BY <1>3, <1>4, <1>7, <1>8, <2>1, <2>2
<1>11. \A y \in Names : \A i \in 1..Len(st) : Row(all, new[i].params[y], y, new[i].id)
  BY <1>2, <1>5 DEF Match
<1> HIDE DEF w, all, new, row
<1>12. Match(new, all, CacheWritten(cache, cmd, x, w), EnvWritten(st, env, cmd, x, w))
  BY <1>5, <1>6, <1>9, <1>10, <1>11 DEF Match
<1> QED BY <1>12 DEF w, all, new, row

\* A block opens with empty tables.
LEMMA MatchBlock ==
    ASSUME NEW st \in Seq(Scope), NEW ws, NEW cache, NEW env, Match(st, ws, cache, env),
           NEW s \in Scope, s.vars = Empty, s.params = Empty
    PROVE  Match(Append(st, s), ws, cache, env)
<1>1. /\ Len(st) \in Nat /\ Len(Append(st, s)) = Len(st) + 1
      /\ \A i \in 1..Len(st) : Append(st, s)[i] = st[i]
      /\ Append(st, s)[Len(st) + 1] = s
  BY AppendProperties, LenProperties
<1>2. \A x \in Names : \A sc : Row(ws, s.vars[x], x, sc) /\ Row(ws, s.params[x], x, sc)
  BY DEF Empty, Row
<1>3. \A i \in 1..(Len(st) + 1) : i \in 1..Len(st) \/ i = Len(st) + 1
  BY <1>1
<1> QED BY <1>1, <1>2, <1>3 DEF Match

\* One event leaves rows in every table.
LEMMA MatchReplay ==
    ASSUME TypeOK, NEW e, Event2(e), NEW dump, Replay(e, dump),
           Match(stack, writes, cacheVars, envVars)
    PROVE  Match(stack', writes', cacheVars', envVars')
<1>n. PICK n, st1, sc1, st2, sc2, ws2, c2, cmd, st3 :
         /\ Stages(e, n, st1, sc1, st2, sc2, ws2, c2, cmd, st3)
         /\ Results(e, dump, st2, sc2, ws2, c2, cmd, st3)
  BY ReplayStages
<1>1. Match(st2, ws2, c2, envVars)
  <2>1. /\ Synthesized(e, Len(sc1) + 1) \in Seq(WriteRow)
        /\ Match(st2, Synthesized(e, Len(sc1) + 1), cacheVars, envVars)
    BY <1>n, MatchOpened
  <2>2. ws2 = SeededRows(Synthesized(e, Len(sc1) + 1)) /\ c2 = CacheWithSeeds(ws2)
    BY <1>n DEF Stages
  <2> QED BY <2>1, <2>2, MatchSeeded
<1>2. /\ st2 \in Seq(Scope) /\ ws2 \in Seq(WriteRow) /\ c2 \in [Names -> Nat]
      /\ st3 \in Seq(Scope) /\ Len(sc2) \in Nat /\ envVars \in [Names -> Nat]
  BY <1>n, StageTypes DEF TypeOK
<1>3. Match(st3, writes', cacheVars', envVars')
  <2>1. CASE IsWrite(e)
    <3>1. PICK sc \in 0..Len(sc2) :
             /\ RecordScope(st2, cmd, sc)
             /\ writes' = Append(ws2, [names |-> {e.name}, scope |-> sc, cmd |-> cmd,
                                       event |-> nEvents + 1])
      BY <1>n, <2>1 DEF Results
    <3>2. /\ cacheVars' = CacheWritten(c2, cmd, e.name, Len(ws2) + 1)
          /\ envVars' = EnvWritten(st2, envVars, cmd, e.name, Len(ws2) + 1)
      BY <1>n, <2>1 DEF Results
    <3>3. /\ e.name \in Names /\ cmd \in WriteCmds /\ sc \in Nat /\ nEvents + 1 \in Nat
          /\ st3 = Written(st2, cmd, e.name, Len(ws2) + 1)
      BY <1>n, <1>2, <2>1, ReplayAssumption
      DEF ReplayAssumption, IsWrite, Event2, Event, Stages, EffectiveCmd, WriteCmds, TypeOK
    <3> QED BY <1>1, <1>2, <3>1, <3>2, <3>3, MatchWritten
  <2>2. CASE ~IsWrite(e)
    BY <1>n, <1>1, <2>2 DEF Results, Stages
  <2> QED BY <2>1, <2>2
<1>4. CASE e.cmd = "block"
  <2>1. e \in Event /\ e.node \in Nodes /\ Len(sc2) + 1 \in Nat
    BY <1>2, <1>4 DEF Event2
  <2>2. /\ BlockScope(e, Len(sc2) + 1) \in Scope
        /\ BlockScope(e, Len(sc2) + 1).vars = Empty
        /\ BlockScope(e, Len(sc2) + 1).params = Empty
    BY <2>1, BlockScopeType
  <2>3. stack' = Append(st3, BlockScope(e, Len(sc2) + 1))
    BY <1>n, <1>4 DEF Results
  <2> QED BY <1>2, <1>3, <2>2, <2>3, MatchBlock
<1>5. CASE e.cmd # "block"
  BY <1>n, <1>3, <1>5 DEF Results
<1> QED BY <1>4, <1>5

\* After every event of any trace the variable tables, the cache and the
\* environment hold rows of var_writes that write that name and are recorded
\* against that very scope (dataflow.rs:559-626).
THEOREM TablesAreRows == RSpec => []TablesMatchRows
<1> DEFINE Inv == Match(stack, writes, cacheVars, envVars)
<1>1. RInit => Inv
  <2> SUFFICES ASSUME RInit PROVE Inv
    OBVIOUS
  <2>1. stack = <<>> /\ cacheVars = Empty /\ envVars = Empty /\ 1..Len(stack) = {}
    BY DEF RInit
  <2>2. \A x \in Names : cacheVars[x] = NoRow /\ envVars[x] = NoRow
    BY <2>1 DEF Empty
  <2>3. \A x : Row(writes, NoRow, x, NoRow)
    BY DEF Row
  <2> QED BY <2>1, <2>2, <2>3 DEF Match
<1>2. TypeOK /\ Inv /\ [RNext]_rvars => Inv'
  <2> SUFFICES ASSUME TypeOK, Inv, [RNext]_rvars PROVE Inv'
    OBVIOUS
  <2>1. ASSUME NEW e \in Events, NEW dump, Replay(e, dump) PROVE Inv'
    BY <2>1, EventsAreEvents, MatchReplay
  <2>2. CASE Finish
    <3>1. stack' = <<>> /\ UNCHANGED <<writes, cacheVars, envVars>>
      BY <2>2 DEF Finish
    <3> QED BY <3>1 DEF Match
  <2>3. CASE UNCHANGED rvars
    BY <2>3 DEF rvars
  <2> QED BY <2>1, <2>2, <2>3 DEF RNext
<1>3. Inv => TablesMatchRows
  BY DEF Match, Row, TablesMatchRows, RowFor
<1> QED BY <1>1, <1>2, <1>3, ReplayTypeOK, PTL DEF RSpec

-----------------------------------------------------------------------------
(* The tree of scopes.                                                     *)

\* Row r lies within the span of its parent.
Nested(rows, r) ==
    LET around == rows[rows[r].parent]
    IN  /\ around.openedBy <= rows[r].openedBy
        /\ around.closedBy # NoRow => /\ rows[r].closedBy # NoRow
                                      /\ rows[r].closedBy <= around.closedBy
                                      /\ rows[r].openedBy <= rows[r].closedBy

\* The scopes on the stack are the open rows, each the child of the one below,
\* and no row is from after event k.  That children close with their parent
\* rests on the ids growing up the stack, so that an open child of a scope is
\* the very next one.
Tree(st, rows, k) ==
    /\ \A i \in 1..Len(st) : st[i].id \in 1..Len(rows)
    /\ \A i, j \in 1..Len(st) : i < j => st[i].id < st[j].id
    /\ Len(st) > 0 => st[1].id = 1
    /\ \A i \in 2..Len(st) : rows[st[i].id].parent = st[i - 1].id
    /\ \A r \in 1..Len(rows) :
          /\ rows[r].closedBy = NoRow <=> \E i \in 1..Len(st) : st[i].id = r
          /\ rows[r].openedBy <= k /\ rows[r].closedBy <= k
          /\ rows[r].closedBy # NoRow => rows[r].openedBy <= rows[r].closedBy
    /\ \A r \in 2..Len(rows) : rows[r].parent \in 1..Len(rows) /\ Nested(rows, r)

\* What is pending was seen by the last event.
Paced ==
    /\ pending # None => pending.openedBy = nEvents /\ nEvents > 0
    /\ outcome = "running" => /\ stack = <<>> => scopes = <<>>
                              /\ stack # <<>> <=> nEvents > 0

TreeInv == Tree(stack, scopes, nEvents) /\ Paced

\* Closing the scopes above n closes their rows and their children's.
LEMMA TreeClose ==
    ASSUME NEW st \in Seq(Scope), NEW rows \in Seq(ScopeRow), NEW k \in Nat,
           NEW n \in 0..Len(st), n < Len(st) => k > 0, Tree(st, rows, k),
           NEW kept \in Seq(Scope), Len(kept) = n, \A i \in 1..n : kept[i] = st[i]
    PROVE  Tree(kept, CloseRows(rows, st, n, k), k)
<1> DEFINE new == CloseRows(rows, st, n, k)
           Closed(r) == \E m \in 1..Len(st) : m > n /\ st[m].id = r
<1>1. /\ Len(st) \in Nat /\ Len(rows) \in Nat
      /\ \A r \in 1..Len(rows) : rows[r] \in ScopeRow
      /\ \A i \in 1..Len(st) : st[i] \in Scope
  BY LenProperties, ElementOfSeq
<1>2. Len(new) = Len(rows)
  BY CloseRowsType
<1>3. ASSUME NEW r \in 1..Len(rows)
      PROVE  /\ new[r].parent = rows[r].parent /\ new[r].openedBy = rows[r].openedBy
             /\ new[r].closedBy = IF Closed(r) THEN k ELSE rows[r].closedBy
  BY <1>1 DEF CloseRows, ScopeRow
<1>4. \A i \in 1..Len(st) : st[i].id \in 1..Len(rows) /\ st[i].id \in Nat
  BY <1>1 DEF Tree
<1>5. ASSUME NEW i \in 1..Len(st), NEW j \in 1..Len(st), st[i].id = st[j].id
      PROVE  i = j
  BY <1>1, <1>4, <1>5 DEF Tree
<1>6. \A i \in 1..n : i \in 1..Len(st)
  BY <1>1
<1>7. ASSUME NEW r \in 1..Len(rows)
      PROVE  rows[r].closedBy = NoRow <=> \E i \in 1..Len(st) : st[i].id = r
  BY DEF Tree
<1>8. \A r \in 1..Len(rows) : Closed(r) => k > 0 /\ rows[r].closedBy = NoRow
  BY <1>1, <1>7
<1> HIDE DEF new
<1>9. ASSUME NEW r \in 1..Len(rows)
      PROVE  /\ new[r].closedBy = NoRow <=> \E i \in 1..n : kept[i].id = r
             /\ new[r].openedBy <= k /\ new[r].closedBy <= k
             /\ new[r].closedBy # NoRow => new[r].openedBy <= new[r].closedBy
  <2>1. rows[r].openedBy <= k /\ rows[r].closedBy <= k
        /\ (rows[r].closedBy # NoRow => rows[r].openedBy <= rows[r].closedBy)
    BY DEF Tree
  <2>2. CASE Closed(r)
    <3>1. PICK m \in 1..Len(st) : m > n /\ st[m].id = r
      BY <2>2
    <3>2. ~\E i \in 1..n : kept[i].id = r
      BY <1>1, <1>5, <1>6, <3>1
    <3>3. /\ new[r].closedBy = k /\ k > 0 /\ k # NoRow
          /\ new[r].openedBy = rows[r].openedBy
      BY <1>3, <1>8, <2>2 DEF NoRow
    <3> QED BY <2>1, <3>2, <3>3
  <2>3. CASE ~Closed(r)
    <3>1. ASSUME NEW i \in 1..Len(st), st[i].id = r PROVE \E j \in 1..n : kept[j].id = r
      <4>1. i \in 1..n
        BY <1>1, <2>3, <3>1
      <4> QED BY <3>1, <4>1
    <3>2. ASSUME NEW j \in 1..n, kept[j].id = r PROVE \E i \in 1..Len(st) : st[i].id = r
      BY <1>6, <3>2
    <3>3. new[r].closedBy = rows[r].closedBy /\ new[r].openedBy = rows[r].openedBy
      BY <1>3, <2>3
    <3> QED BY <1>7, <2>1, <3>1, <3>2, <3>3
  <2> QED BY <2>2, <2>3
<1>10. ASSUME NEW r \in 2..Len(rows)
       PROVE  new[r].parent \in 1..Len(rows) /\ Nested(new, r)
  <2> DEFINE p == rows[r].parent
  <2>1. r \in 1..Len(rows) /\ p \in 1..Len(rows) /\ Nested(rows, r)
    BY <1>1 DEF Tree
  <2>2. /\ new[r].parent = p /\ new[r].openedBy = rows[r].openedBy
        /\ new[p].openedBy = rows[p].openedBy
    BY <1>3, <2>1
  <2>3. CASE Closed(p)
    <3>1. PICK m \in 1..Len(st) : m > n /\ st[m].id = p
      BY <2>3
    <3>2. new[p].closedBy = k
      BY <1>3, <2>1, <2>3
    <3>3. new[r].closedBy # NoRow
      <4>1. CASE rows[r].closedBy # NoRow
        BY <1>3, <1>8, <2>1, <4>1
      <4>2. CASE rows[r].closedBy = NoRow
        <5>1. PICK i \in 1..Len(st) : st[i].id = r
          BY <1>7, <2>1, <4>2
        <5>2. i # 1
          BY <5>1 DEF Tree
        <5>3. i \in 2..Len(st) /\ i - 1 \in 1..Len(st)
          BY <1>1, <5>1, <5>2
        <5>4. st[i - 1].id = p
          BY <5>1, <5>3 DEF Tree
        <5>5. i - 1 = m
          BY <1>5, <3>1, <5>3, <5>4
        <5>6. Closed(r)
          BY <1>1, <3>1, <5>1, <5>3, <5>5
        <5> QED BY <1>3, <1>8, <2>1, <5>6 DEF NoRow
      <4> QED BY <4>1, <4>2
    <3>4. new[r].closedBy <= k /\ new[r].openedBy <= new[r].closedBy
      BY <1>9, <2>1, <3>3
    <3> HIDE DEF p
    <3> QED BY <2>1, <2>2, <3>2, <3>3, <3>4 DEF Nested, p
  <2>4. CASE ~Closed(p)
    <3>1. new[p].closedBy = rows[p].closedBy
      BY <1>3, <2>1, <2>4
    <3>2. rows[p].closedBy # NoRow => rows[r].closedBy # NoRow
      BY <2>1 DEF Nested
    <3>3. rows[p].closedBy # NoRow => new[r].closedBy = rows[r].closedBy
      BY <1>3, <1>8, <2>1, <3>2
    <3> HIDE DEF p
    <3> QED BY <2>1, <2>2, <3>1, <3>2, <3>3 DEF Nested, p
  <2> QED BY <2>1, <2>2, <2>3, <2>4
<1>11. \A i \in 1..n : kept[i].id \in 1..Len(new)
  BY <1>2, <1>4, <1>6
<1>12. \A i, j \in 1..n : i < j => kept[i].id < kept[j].id
  BY <1>6 DEF Tree
<1>13. n > 0 => kept[1].id = 1
  BY <1>1 DEF Tree
<1>14. ASSUME NEW i \in 2..n PROVE new[kept[i].id].parent = kept[i - 1].id
  <2>1. i \in 2..Len(st) /\ i - 1 \in 1..n /\ i \in 1..n
    BY <1>1
  <2>2. rows[st[i].id].parent = st[i - 1].id /\ st[i].id \in 1..Len(rows)
    BY <1>4, <1>6, <2>1 DEF Tree
  <2> QED BY <1>3, <2>1, <2>2
<1>15. Tree(kept, new, k)
  BY <1>2, <1>9, <1>10, <1>11, <1>12, <1>13, <1>14 DEF Tree
<1> QED BY <1>15 DEF new

\* A scope opened on top of the stack is a child of the scope below it.
LEMMA TreePush ==
    ASSUME NEW st \in Seq(Scope), st # <<>>, NEW rows \in Seq(ScopeRow), NEW k \in Nat,
           NEW b \in Nat, k <= b, Tree(st, rows, k),
           NEW s \in Scope, s.id = Len(rows) + 1, NEW row \in ScopeRow,
           row.parent = st[Len(st)].id, row.openedBy = b, row.closedBy = NoRow
    PROVE  Tree(Append(st, s), Append(rows, row), b)
<1> DEFINE new == Append(st, s)
           all == Append(rows, row)
<1>1. /\ Len(st) \in Nat \ {0} /\ Len(new) = Len(st) + 1
      /\ \A i \in 1..Len(st) : new[i] = st[i]
      /\ new[Len(st) + 1] = s
  BY AppendProperties, LenProperties, EmptySeq
<1>2. /\ Len(rows) \in Nat /\ Len(all) = Len(rows) + 1
      /\ \A r \in 1..Len(rows) : all[r] = rows[r]
      /\ all[Len(rows) + 1] = row
  BY AppendProperties, LenProperties
<1>3. \A r \in 1..Len(rows) : rows[r].openedBy \in Nat /\ rows[r].closedBy \in Nat
  <2>1. \A r \in 1..Len(rows) : rows[r] \in ScopeRow
    BY ElementOfSeq
  <2> QED BY <2>1 DEF ScopeRow
<1>4. \A i \in 1..Len(st) : st[i].id \in 1..Len(rows)
  BY DEF Tree
<1> HIDE DEF new, all
<1>5. \A i \in 1..Len(new) : (i \in 1..Len(st) /\ new[i] = st[i]) \/ (i = Len(st) + 1 /\ new[i] = s)
  BY <1>1
<1>6. \A r \in 1..Len(all) : (r \in 1..Len(rows) /\ all[r] = rows[r])
                            \/ (r = Len(rows) + 1 /\ all[r] = row)
  BY <1>2
<1>7. \A i \in 1..Len(new) : new[i].id \in 1..Len(all)
  BY <1>2, <1>4, <1>5
<1>8. \A i, j \in 1..Len(new) : i < j => new[i].id < new[j].id
  <2> SUFFICES ASSUME NEW i \in 1..Len(new), NEW j \in 1..Len(new), i < j
               PROVE  new[i].id < new[j].id
    OBVIOUS
  <2>1. i \in 1..Len(st) /\ new[i] = st[i]
    BY <1>1, <1>5
  <2>2. CASE j \in 1..Len(st)
    BY <1>1, <2>1, <2>2 DEF Tree
  <2>3. CASE j = Len(st) + 1
    BY <1>1, <1>2, <1>4, <2>1, <2>3
  <2> QED BY <1>5, <2>2, <2>3
<1>9. new[1].id = 1
  BY <1>1 DEF Tree
<1>10. ASSUME NEW i \in 2..Len(new) PROVE all[new[i].id].parent = new[i - 1].id
  <2>1. i - 1 \in 1..Len(st) /\ i \in 1..Len(new) /\ new[i - 1] = st[i - 1]
    BY <1>1
  <2>2. CASE i \in 1..Len(st)
    <3>1. rows[st[i].id].parent = st[i - 1].id
      BY <1>1, <2>2 DEF Tree
    <3> QED BY <1>1, <1>2, <1>4, <2>1, <2>2, <3>1
  <2>3. CASE i = Len(st) + 1
    <3>1. i - 1 = Len(st)
      BY <1>1, <2>3
    <3> QED BY <1>1, <1>2, <2>1, <2>3, <3>1
  <2> QED BY <1>5, <2>1, <2>2, <2>3
<1>11. ASSUME NEW r \in 1..Len(all)
       PROVE  /\ all[r].closedBy = NoRow <=> \E i \in 1..Len(new) : new[i].id = r
              /\ all[r].openedBy <= b /\ all[r].closedBy <= b
              /\ all[r].closedBy # NoRow => all[r].openedBy <= all[r].closedBy
  <2>1. CASE r \in 1..Len(rows)
    <3>1. all[r] = rows[r] /\ r # Len(rows) + 1
      BY <1>2, <2>1
    <3>2. (\E i \in 1..Len(new) : new[i].id = r) <=> \E i \in 1..Len(st) : st[i].id = r
      BY <1>1, <1>5, <3>1, SMTT(30)
    <3>3. /\ rows[r].closedBy = NoRow <=> \E i \in 1..Len(st) : st[i].id = r
          /\ rows[r].openedBy <= k /\ rows[r].closedBy <= k
          /\ rows[r].closedBy # NoRow => rows[r].openedBy <= rows[r].closedBy
      BY <2>1 DEF Tree
    <3>4. rows[r].openedBy <= b /\ rows[r].closedBy <= b
      BY <1>3, <2>1, <3>3
    <3> QED BY <3>1, <3>2, <3>3, <3>4
  <2>2. CASE r = Len(rows) + 1
    <3>1. Len(st) + 1 \in 1..Len(new) /\ new[Len(st) + 1].id = r
      BY <1>1, <2>2
    <3> QED BY <1>2, <2>2, <3>1 DEF NoRow
  <2> QED BY <1>6, <2>1, <2>2
<1>12. ASSUME NEW r \in 2..Len(all) PROVE all[r].parent \in 1..Len(all) /\ Nested(all, r)
  <2>1. CASE r \in 1..Len(rows)
    <3>1. r \in 2..Len(rows)
      BY <1>2, <2>1
    <3>2. rows[r].parent \in 1..Len(rows) /\ Nested(rows, r)
      BY <3>1 DEF Tree
    <3>3. all[r] = rows[r] /\ all[rows[r].parent] = rows[rows[r].parent]
      BY <1>2, <2>1, <3>2
    <3> QED BY <1>2, <3>2, <3>3 DEF Nested
  <2>2. CASE r = Len(rows) + 1
    <3> DEFINE p == st[Len(st)].id
    <3>1. Len(st) \in 1..Len(st) /\ p \in 1..Len(rows)
      BY <1>1, <1>4
    <3>2. rows[p].closedBy = NoRow /\ rows[p].openedBy <= k
      BY <3>1 DEF Tree
    <3>3. all[r] = row /\ all[p] = rows[p] /\ rows[p].openedBy \in Nat
      BY <1>2, <1>3, <2>2, <3>1
    <3> HIDE DEF p
    <3>4. row.parent = p
      BY DEF p
    <3> QED BY <1>2, <3>1, <3>2, <3>3, <3>4 DEF Nested
  <2>3. r \in 1..Len(all)
    BY <1>2
  <2> QED BY <1>6, <2>1, <2>2, <2>3
<1>13. Tree(new, all, b)
  BY <1>7, <1>8, <1>9, <1>10, <1>11, <1>12 DEF Tree
<1> QED BY <1>13 DEF new, all

\* Only the ids of the stack count, and later events leave the tree a tree.
LEMMA TreeLater ==
    ASSUME NEW st, NEW rows \in Seq(ScopeRow), NEW k \in Nat, NEW b \in Nat, k <= b, Tree(st, rows, k),
           NEW new, Len(new) = Len(st), Len(st) \in Nat, \A i \in 1..Len(st) : new[i].id = st[i].id
    PROVE  Tree(new, rows, b)
<1>1. \A r \in 1..Len(rows) : rows[r].openedBy \in Nat /\ rows[r].closedBy \in Nat
  <2>1. \A r \in 1..Len(rows) : rows[r] \in ScopeRow
    BY ElementOfSeq
  <2> QED BY <2>1 DEF ScopeRow
<1>2. \A i \in 1..Len(new) : new[i].id \in 1..Len(rows)
  BY DEF Tree
<1>3. \A i, j \in 1..Len(new) : i < j => new[i].id < new[j].id
  BY DEF Tree
<1>4. Len(new) > 0 => new[1].id = 1
  BY DEF Tree
<1>5. ASSUME NEW i \in 2..Len(new) PROVE rows[new[i].id].parent = new[i - 1].id
  <2>1. i \in 1..Len(st) /\ i - 1 \in 1..Len(st)
    OBVIOUS
  <2> QED BY <2>1 DEF Tree
<1>6. ASSUME NEW r \in 1..Len(rows)
      PROVE  /\ rows[r].closedBy = NoRow <=> \E i \in 1..Len(new) : new[i].id = r
             /\ rows[r].openedBy <= b /\ rows[r].closedBy <= b
             /\ rows[r].closedBy # NoRow => rows[r].openedBy <= rows[r].closedBy
  <2>1. /\ rows[r].closedBy = NoRow <=> \E i \in 1..Len(st) : st[i].id = r
        /\ rows[r].openedBy <= k /\ rows[r].closedBy <= k
        /\ rows[r].closedBy # NoRow => rows[r].openedBy <= rows[r].closedBy
    BY DEF Tree
  <2>2. (\E i \in 1..Len(new) : new[i].id = r) <=> \E i \in 1..Len(st) : st[i].id = r
    OBVIOUS
  <2> QED BY <1>1, <2>1, <2>2
<1>7. \A r \in 2..Len(rows) : rows[r].parent \in 1..Len(rows) /\ Nested(rows, r)
  BY DEF Tree
<1> QED BY <1>2, <1>3, <1>4, <1>5, <1>6, <1>7 DEF Tree

\* The tree an event starts from: the root alone, or what there is.
LEMMA TreeBase ==
    ASSUME TypeOK, TreeInv, outcome = "running", NEW e, Event2(e)
    PROVE  /\ Tree(BaseStack(e), BaseRows, nEvents) /\ nEvents \in Nat
           /\ \A n \in 1..Len(BaseStack(e)) : n < Len(BaseStack(e)) => nEvents > 0
<1>1. nEvents \in Nat
  BY ReplayAssumption DEF ReplayAssumption, TypeOK
<1>2. CASE stack # <<>>
  BY <1>1, <1>2 DEF TreeInv, Paced, BaseStack, BaseRows
<1>3. CASE stack = <<>>
  <2> DEFINE root == NewScope(1, e.depth, "root")
             row  == [parent |-> NoRow, kind |-> "root", openedBy |-> NoRow, closedBy |-> NoRow]
  <2>1. BaseStack(e) = <<root>> /\ BaseRows = <<row>> /\ root.id = 1
    BY <1>3 DEF BaseStack, BaseRows, NewScope
  <2>2. row.openedBy = 0 /\ row.closedBy = 0
    BY DEF NoRow
  <2> HIDE DEF root, row
  <2>3. Tree(<<root>>, <<row>>, nEvents)
    <3> DEFINE st == <<root>>
               rows == <<row>>
    <3>1. Len(st) = 1 /\ Len(rows) = 1 /\ st[1] = root /\ rows[1] = row
      OBVIOUS
    <3> HIDE DEF st, rows
    <3>2. /\ \A i \in 1..Len(st) : i = 1 /\ st[i].id = 1
          /\ \A r \in 1..Len(rows) : r = 1
          /\ 2..Len(st) = {} /\ 2..Len(rows) = {}
      BY <2>1, <3>1
    <3>3. \A r \in 1..Len(rows) :
            /\ rows[r].closedBy = NoRow <=> \E i \in 1..Len(st) : st[i].id = r
            /\ rows[r].openedBy <= nEvents /\ rows[r].closedBy <= nEvents
            /\ rows[r].closedBy # NoRow => rows[r].openedBy <= rows[r].closedBy
      BY <1>1, <2>1, <2>2, <3>1, <3>2 DEF NoRow
    <3>4. Tree(st, rows, nEvents)
      BY <3>1, <3>2, <3>3 DEF Tree
    <3> QED BY <3>4 DEF st, rows
  <2> QED BY <1>1, <2>1, <2>3
<1> QED BY <1>2, <1>3

\* One event leaves a tree.
LEMMA TreeReplay ==
    ASSUME TypeOK, TreeInv, NEW e, Event2(e), NEW n, NEW st1, NEW sc1, NEW st2, NEW sc2, NEW ws2,
           NEW c2, NEW cmd, NEW st3, Stages(e, n, st1, sc1, st2, sc2, ws2, c2, cmd, st3),
           NEW dump, Results(e, dump, st2, sc2, ws2, c2, cmd, st3), outcome = "running"
    PROVE  /\ Tree(st2, sc2, nEvents)
           /\ Tree(stack', scopes', nEvents') /\ stack' # <<>>
           /\ Opens(e) => sc2[st2[Len(st2)].id].openedBy = nEvents
           /\ \A r \in 1..Len(sc2) : scopes'[r].openedBy = sc2[r].openedBy
           /\ \A r \in 1..Len(BaseRows) : /\ r \in 1..Len(sc2)
                                           /\ sc2[r].openedBy = BaseRows[r].openedBy
<1>e. e \in Event
  BY DEF Event2
<1>n. nEvents \in Nat /\ nEvents' = nEvents + 1
  BY TreeBase DEF Results
<1>b. /\ BaseStack(e) \in Seq(Scope) /\ n \in 1..Len(BaseStack(e)) /\ n \in 0..Len(BaseStack(e))
      /\ BaseRows \in Seq(ScopeRow) /\ n \in Nat \ {0}
  BY <1>e, BaseStackType, BaseRowsType DEF Stages
<1>1. Tree(st1, sc1, nEvents)
  <2>1. /\ sc1 = CloseRows(BaseRows, BaseStack(e), n, nEvents)
        /\ st1 \in Seq(Scope) /\ Len(st1) = n /\ \A i \in 1..n : st1[i] = BaseStack(e)[i]
    <3>1. sc1 = CloseRows(BaseRows, BaseStack(e), n, nEvents)
      BY DEF Stages
    <3> QED BY <3>1, StageTypes
  <2>2. Tree(BaseStack(e), BaseRows, nEvents) /\ (n < Len(BaseStack(e)) => nEvents > 0)
    BY <1>b, TreeBase
  <2> QED BY <1>b, <1>n, <2>1, <2>2, TreeClose
<1>2. /\ st1 \in Seq(Scope) /\ sc1 \in Seq(ScopeRow) /\ Len(sc1) \in Nat /\ st1 # <<>> /\ Len(st1) = n
  BY <1>b, StageTypes, EmptySeq
<1>3. Tree(st2, sc2, nEvents) /\ (Opens(e) => sc2[st2[Len(st2)].id].openedBy = nEvents)
      /\ \A r \in 1..Len(sc1) : r \in 1..Len(sc2) /\ sc2[r] = sc1[r]
  <2>1. CASE Opens(e)
    <3> DEFINE s   == OpenedScope(Len(sc1) + 1, e, Len(writes) + 1)
               row == [parent |-> st1[Len(st1)].id, kind |-> pending.kind,
                       openedBy |-> pending.openedBy, closedBy |-> NoRow]
    <3>1. st2 = Append(st1, s) /\ sc2 = Append(sc1, row)
      BY <2>1 DEF Stages, Opened, OpenedRows
    <3>2. s \in Scope /\ s.id = Len(sc1) + 1
      <4>1. Len(writes) + 1 \in Nat
        BY LenProperties DEF TypeOK
      <4> QED BY <1>e, <1>2, <2>1, <4>1, OpenedScopeType
    <3>3. row \in ScopeRow /\ row.openedBy = nEvents
      <4>1. Len(st1) \in 1..Len(st1)
        BY <1>2, <1>b
      <4>2. st1[Len(st1)] \in Scope
        BY <1>2, <4>1, ElementOfSeq
      <4>3. st1[Len(st1)].id \in Nat /\ pending \in Pending /\ pending.openedBy = nEvents
        BY <2>1, <4>2 DEF Scope, TypeOK, Opens, TreeInv, Paced
      <4> QED BY <1>n, <4>3 DEF ScopeRow, Pending, NoRow
    <3>4. row.parent = st1[Len(st1)].id /\ row.closedBy = NoRow
      OBVIOUS
    <3> HIDE DEF s, row
    <3>5. Tree(Append(st1, s), Append(sc1, row), nEvents)
      BY <1>1, <1>2, <1>n, <3>2, <3>3, <3>4, TreePush
    <3>6. Append(st1, s)[Len(Append(st1, s))] = s /\ Append(sc1, row)[Len(sc1) + 1] = row
          /\ \A r \in 1..Len(sc1) : r \in 1..Len(Append(sc1, row)) /\ Append(sc1, row)[r] = sc1[r]
      BY <1>2, <3>2, <3>3, AppendProperties, LenProperties
    <3> QED BY <3>1, <3>2, <3>3, <3>5, <3>6
  <2>2. CASE ~Opens(e)
    BY <1>1, <2>2 DEF Stages, Opened, OpenedRows
  <2> QED BY <2>1, <2>2
<1>4. \A r \in 1..Len(BaseRows) : r \in 1..Len(sc1) /\ sc1[r].openedBy = BaseRows[r].openedBy
  <2>1. sc1 = CloseRows(BaseRows, BaseStack(e), n, nEvents)
    BY DEF Stages
  <2>2. \A r \in 1..Len(BaseRows) : BaseRows[r] \in ScopeRow
    BY <1>b, ElementOfSeq
  <2>3. Len(sc1) = Len(BaseRows)
    BY <1>b, <1>n, <2>1, CloseRowsType
  <2> QED BY <2>1, <2>2, <2>3 DEF CloseRows, ScopeRow
<1>5. /\ st2 \in Seq(Scope) /\ sc2 \in Seq(ScopeRow) /\ Len(sc2) \in Nat
      /\ st3 \in Seq(Scope) /\ Len(st3) = Len(st2) /\ Len(st2) \in Nat
      /\ \A i \in 1..Len(st2) : st3[i].id = st2[i].id
  BY StageTypes, LenProperties
<1>6. Len(st2) \in Nat \ {0} /\ st3 # <<>>
  <2>1. Len(st2) \in {n, n + 1}
    BY <1>2, StageTypes
  <2> QED BY <1>b, <1>5, <2>1, EmptySeq
<1>7. Tree(stack', scopes', nEvents') /\ stack' # <<>>
      /\ \A r \in 1..Len(sc2) : scopes'[r] = sc2[r]
  <2>1. CASE e.cmd = "block"
    <3> DEFINE s   == BlockScope(e, Len(sc2) + 1)
               row == BlockRow(st2)
    <3>1. stack' = Append(st3, s) /\ scopes' = Append(sc2, row)
      BY <2>1 DEF Results
    <3>2. s \in Scope /\ s.id = Len(sc2) + 1
      BY <1>e, <1>5, <2>1, BlockScopeType DEF Event2
    <3>3. Len(st2) \in 1..Len(st2)
      BY <1>6
    <3>4. st2[Len(st2)] \in Scope
      BY <1>5, <3>3, ElementOfSeq
    <3>5. /\ row \in ScopeRow /\ row.openedBy = nEvents + 1 /\ row.closedBy = NoRow
          /\ row.parent = st3[Len(st3)].id
      BY <1>5, <1>n, <3>3, <3>4 DEF BlockRow, ScopeRow, Scope, Kinds, NoRow
    <3>6. Tree(st3, sc2, nEvents)
      <4>1. Tree(st2, sc2, nEvents) /\ nEvents \in Nat /\ nEvents <= nEvents
        BY <1>3, <1>n
      <4> QED BY <1>5, <4>1, TreeLater
    <3> HIDE DEF s, row
    <3>7. Tree(Append(st3, s), Append(sc2, row), nEvents + 1)
      BY <1>5, <1>6, <1>n, <3>2, <3>5, <3>6, TreePush
    <3>8. Append(st3, s) # <<>> /\ \A r \in 1..Len(sc2) : Append(sc2, row)[r] = sc2[r]
      BY <1>5, <3>2, <3>5, AppendProperties, EmptySeq
    <3> QED BY <1>n, <3>1, <3>7, <3>8
  <2>2. CASE e.cmd # "block"
    <3>1. stack' = st3 /\ scopes' = sc2
      BY <2>2 DEF Results
    <3>2. Tree(st3, sc2, nEvents + 1)
      <4>1. Tree(st2, sc2, nEvents) /\ nEvents \in Nat /\ nEvents + 1 \in Nat /\ nEvents <= nEvents + 1
        BY <1>3, <1>n
      <4> QED BY <1>5, <4>1, TreeLater
    <3> QED BY <1>6, <1>n, <3>1, <3>2
  <2> QED BY <2>1, <2>2
<1>8. \A r \in 1..Len(BaseRows) : r \in 1..Len(sc2) /\ sc2[r].openedBy = BaseRows[r].openedBy
  BY <1>3, <1>4
<1> QED BY <1>3, <1>7, <1>8

\* The end of the trace closes every scope.
LEMMA TreeFinish ==
    ASSUME TypeOK, TreeInv, Finish
    PROVE  TreeInv'
<1>1. /\ stack' = <<>> /\ scopes' = CloseRows(scopes, stack, 0, nEvents)
      /\ UNCHANGED <<pending, nEvents>> /\ outcome = "running" /\ outcome' # "running"
  BY DEF Finish
<1>2. nEvents \in Nat /\ (stack # <<>> => nEvents > 0)
  BY <1>1, ReplayAssumption DEF ReplayAssumption, TypeOK, TreeInv, Paced
<1>3. stack \in Seq(Scope) /\ scopes \in Seq(ScopeRow) /\ Len(stack) \in Nat
      /\ 0 \in 0..Len(stack) /\ (0 < Len(stack) => nEvents > 0)
  BY <1>2, LenProperties, EmptySeq DEF TypeOK
<1>4. <<>> \in Seq(Scope) /\ Len(<<>>) = 0 /\ \A i \in 1..0 : <<>>[i] = stack[i]
  BY EmptySeq
<1>5. Tree(<<>>, CloseRows(scopes, stack, 0, nEvents), nEvents)
  BY <1>2, <1>3, <1>4, TreeClose DEF TreeInv
<1> QED BY <1>1, <1>5 DEF TreeInv, Paced

\* The scopes of any trace form the tree of activations: a scope is open exactly
\* while it is on the stack, under the scope below it, and what was opened in it
\* is closed with it, within its own span of events (dataflow.rs:418-482, 640-659).
THEOREM ScopesNest == RSpec => []ScopeTreeNests
<1>1. RInit => TreeInv
  <2> SUFFICES ASSUME RInit PROVE TreeInv
    OBVIOUS
  <2>1. stack = <<>> /\ scopes = <<>> /\ nEvents = 0 /\ pending = None
    BY DEF RInit
  <2>2. Tree(<<>>, <<>>, 0)
    BY DEF Tree
  <2> QED BY <2>1, <2>2 DEF TreeInv, Paced
<1>2. TypeOK /\ TreeInv /\ [RNext]_rvars => TreeInv'
  <2> SUFFICES ASSUME TypeOK, TreeInv, [RNext]_rvars PROVE TreeInv'
    OBVIOUS
  <2>1. ASSUME NEW e \in Events, NEW dump, Replay(e, dump) PROVE TreeInv'
    <3>1. PICK n, st1, sc1, st2, sc2, ws2, c2, cmd, st3 :
             /\ Stages(e, n, st1, sc1, st2, sc2, ws2, c2, cmd, st3)
             /\ Results(e, dump, st2, sc2, ws2, c2, cmd, st3)
      BY <2>1, ReplayStages
    <3>2. Event2(e) /\ outcome = "running"
      BY <2>1, EventsAreEvents DEF Replay
    <3>3. Tree(stack', scopes', nEvents') /\ stack' # <<>>
      BY <3>1, <3>2, TreeReplay
    <3>4. pending'.openedBy = nEvents' /\ nEvents' > 0
      <4>1. nEvents \in Nat
        BY ReplayAssumption DEF ReplayAssumption, TypeOK
      <4> QED BY <3>1, <4>1 DEF Results, ComputePending
    <3> QED BY <3>3, <3>4 DEF TreeInv, Paced
  <2>2. CASE Finish
    BY <2>2, TreeFinish
  <2>3. CASE UNCHANGED rvars
    BY <2>3 DEF rvars, TreeInv, Paced
  <2> QED BY <2>1, <2>2, <2>3 DEF RNext
<1>3. TypeOK /\ TreeInv => ScopeTreeNests
  <2> SUFFICES ASSUME TypeOK, TreeInv PROVE ScopeTreeNests
    OBVIOUS
  <2>1. Tree(stack, scopes, nEvents)
    BY DEF TreeInv
  <2> QED BY <2>1 DEF Tree, Nested, ScopeTreeNests
<1> QED BY <1>1, <1>2, <1>3, ReplayTypeOK, PTL DEF RSpec

-----------------------------------------------------------------------------
(* The containment of try_compile.                                         *)

\* No event raises a variable out of an open try_compile configure: a
\* PARENT_SCOPE write that is recorded while one is open is recorded against its
\* scope or a scope within.  (A set(... PARENT_SCOPE) at the top of the project
\* try_compile configures is the one write that escapes; CMake runs that project
\* in a scope of its own and the variable is never seen by the caller.)
RaisesWithin ==
    Len(writes') > Len(writes) /\ writes'[Len(writes')].cmd = "parent_scope" =>
        \A i \in 1..Len(stack') : stack'[i].kind = "try_compile" =>
            writes'[Len(writes')].scope >= stack'[i].id

\* No row is from after event k.
Dated(ws, k) == \A w \in 1..Len(ws) : ws[w].event <= k

\* A try_compile scope holds the variables set in it.
OpaqueTries(st) == \A i \in 1..Len(st) : st[i].kind = "try_compile" => ~st[i].transparent

\* Entry w is a row written by event `start` or before.
Old(ws, w, start) == w # NoRow => w \in 1..Len(ws) /\ ws[w].event <= start

\* What a try_compile scope of the stack shuts out is older than its start.
Sealed(st, rows, ws, cache, env) ==
    \A i \in 1..Len(st) : st[i].kind = "try_compile" =>
        \A x \in Names :
            /\ Old(ws, cache[x], rows[st[i].id].openedBy)
            /\ Old(ws, env[x], rows[st[i].id].openedBy)
            /\ \A j \in 1..Len(st) : j < i => Old(ws, st[j].vars[x], rows[st[i].id].openedBy)

ContainInv ==
    /\ TypeOK /\ TreeInv
    /\ Match(stack, writes, cacheVars, envVars)
    /\ Dated(writes, nEvents)
    /\ OpaqueTries(stack)
    /\ Sealed(stack, scopes, writes, cacheVars, envVars)

\* Appending a row of this event or an earlier one.
LEMMA RowAppended ==
    ASSUME NEW ws \in Seq(WriteRow), NEW r \in WriteRow, NEW k \in Nat, Dated(ws, k), r.event <= k
    PROVE  /\ Append(ws, r) \in Seq(WriteRow) /\ Dated(Append(ws, r), k)
           /\ Len(Append(ws, r)) = Len(ws) + 1 /\ Append(ws, r)[Len(ws) + 1] = r
           /\ \A w \in 1..Len(ws) : Append(ws, r)[w] = ws[w]
<1>1. /\ Append(ws, r) \in Seq(WriteRow) /\ Len(ws) \in Nat
      /\ Len(Append(ws, r)) = Len(ws) + 1 /\ Append(ws, r)[Len(ws) + 1] = r
      /\ \A w \in 1..Len(ws) : Append(ws, r)[w] = ws[w]
  BY AppendProperties, LenProperties
<1>2. \A w \in 1..(Len(ws) + 1) : w \in 1..Len(ws) \/ w = Len(ws) + 1
  BY <1>1
<1> QED BY <1>1, <1>2 DEF Dated

\* The rows of one event are added at the end, none from after it, and that of
\* its own write is the last.
LEMMA WritesGrow ==
    ASSUME TypeOK, TreeInv, Dated(writes, nEvents), NEW e, Event2(e), NEW n, NEW st1, NEW sc1,
           NEW st2, NEW sc2, NEW ws2, NEW c2, NEW cmd, NEW st3,
           Stages(e, n, st1, sc1, st2, sc2, ws2, c2, cmd, st3),
           NEW dump, Results(e, dump, st2, sc2, ws2, c2, cmd, st3)
    PROVE  /\ Dated(writes', nEvents')
           /\ \A w \in 1..Len(writes) : w \in 1..Len(writes') /\ writes'[w] = writes[w]
           /\ IsWrite(e) => /\ Len(writes') > Len(writes)
                            /\ writes'[Len(writes')].cmd = cmd
                            /\ RecordScope(st2, cmd, writes'[Len(writes')].scope)
<1> DEFINE k == nEvents + 1
           ws == Synthesized(e, Len(sc1) + 1)
           syn == [names |-> pending.params, scope |-> Len(sc1) + 1, cmd |-> "synthetic",
                   event |-> pending.openedBy]
           seed == [names |-> Seeds, scope |-> NoRow, cmd |-> "cache", event |-> nEvents + 1]
<1>1. nEvents \in Nat /\ k \in Nat /\ nEvents' = k /\ writes \in Seq(WriteRow) /\ Len(writes) \in Nat
      /\ Len(sc1) \in Nat /\ Len(sc2) \in Nat
  <2>1. Len(sc1) \in Nat /\ Len(sc2) \in Nat
    BY StageTypes
  <2>2. nEvents' = k
    BY DEF Results
  <2> QED BY <2>1, <2>2, ReplayAssumption, LenProperties DEF ReplayAssumption, TypeOK
<1>2. Dated(writes, k)
  <2>1. \A w \in 1..Len(writes) : writes[w].event \in Nat
    <3>1. \A w \in 1..Len(writes) : writes[w] \in WriteRow
      BY <1>1, ElementOfSeq
    <3> QED BY <3>1 DEF WriteRow
  <2> QED BY <1>1, <2>1 DEF Dated
<1>3. /\ ws \in Seq(WriteRow) /\ Dated(ws, k) /\ Len(ws) \in Nat /\ Len(ws) >= Len(writes)
      /\ \A w \in 1..Len(writes) : ws[w] = writes[w]
  <2>1. Synthesizes(e) => syn \in WriteRow /\ syn.event <= k
    BY <1>1 DEF Synthesizes, Opens, TypeOK, Pending, WriteRow, TreeInv, Paced
  <2>2. ws = IF Synthesizes(e) THEN Append(writes, syn) ELSE writes
    BY DEF Synthesized
  <2> HIDE DEF syn, ws, k
  <2>3. CASE Synthesizes(e)
    <3>1. ws = Append(writes, syn) /\ syn \in WriteRow /\ syn.event <= k
      BY <2>1, <2>2, <2>3
    <3> QED BY <1>1, <1>2, <3>1, RowAppended
  <2>4. CASE ~Synthesizes(e)
    BY <1>1, <1>2, <2>2, <2>4
  <2> QED BY <2>3, <2>4
<1>4. /\ ws2 \in Seq(WriteRow) /\ Dated(ws2, k) /\ Len(ws2) \in Nat /\ Len(ws2) >= Len(writes)
      /\ \A w \in 1..Len(writes) : ws2[w] = writes[w]
  <2>1. seed \in WriteRow /\ seed.event <= k
    BY <1>1, ReplayAssumption DEF ReplayAssumption, Seeds, WriteRow, WriteCmds, NoRow
  <2>2. ws2 = IF Seeds = {} THEN ws ELSE Append(ws, seed)
    BY DEF Stages, SeededRows
  <2> HIDE DEF seed, ws, k
  <2>3. CASE Seeds # {}
    <3>1. ws2 = Append(ws, seed)
      BY <2>2, <2>3
    <3>2. /\ ws2 \in Seq(WriteRow) /\ Dated(ws2, k) /\ Len(ws2) = Len(ws) + 1
          /\ \A w \in 1..Len(ws) : ws2[w] = ws[w]
      BY <1>1, <1>3, <2>1, <3>1, RowAppended
    <3> QED BY <1>1, <1>3, <3>2
  <2>4. CASE Seeds = {}
    BY <1>3, <2>2, <2>4
  <2> QED BY <2>3, <2>4
<1>5. CASE IsWrite(e)
  <2>1. PICK sc \in 0..Len(sc2) :
           /\ RecordScope(st2, cmd, sc)
           /\ writes' = Append(ws2, [names |-> {e.name}, scope |-> sc, cmd |-> cmd,
                                     event |-> nEvents + 1])
    BY <1>5 DEF Results
  <2> DEFINE r == [names |-> {e.name}, scope |-> sc, cmd |-> cmd, event |-> nEvents + 1]
  <2>2. r \in WriteRow /\ r.event <= k /\ r.cmd = cmd /\ r.scope = sc
    <3>1. e.name \in Names /\ cmd \in WriteCmds
      BY <1>5 DEF IsWrite, Event2, Event, Stages, EffectiveCmd, WriteCmds
    <3>2. sc \in Nat
      BY <1>1
    <3> QED BY <1>1, <3>1, <3>2 DEF WriteRow
  <2>3. writes' = Append(ws2, r)
    BY <2>1
  <2> HIDE DEF r, k
  <2>4. /\ Dated(writes', k) /\ Len(writes') = Len(ws2) + 1 /\ writes'[Len(ws2) + 1] = r
        /\ \A w \in 1..Len(ws2) : writes'[w] = ws2[w]
    BY <1>1, <1>4, <2>2, <2>3, RowAppended
  <2> QED BY <1>1, <1>4, <2>1, <2>2, <2>4
<1>6. CASE ~IsWrite(e)
  <2>1. writes' = ws2
    BY <1>6 DEF Results
  <2> QED BY <1>1, <1>4, <1>6, <2>1
<1> QED BY <1>5, <1>6

\* A write leaves every scope it is not aimed at as it is.
LEMMA WrittenElsewhere ==
    ASSUME NEW st \in Seq(Scope), NEW cmd, NEW x \in Names, NEW w \in Nat, NEW i \in 1..Len(st)
    PROVE  /\ Written(st, cmd, x, w)[i].transparent = st[i].transparent
           /\ ~Target(st, cmd, i) => Written(st, cmd, x, w)[i] = st[i]
<1> DEFINE v == IF cmd = "unset" THEN NoRow ELSE w
           new == Written(st, cmd, x, w)[i]
<1>1. st[i] \in Scope
  BY ElementOfSeq
<1>2. new = IF Target(st, cmd, i) THEN [st[i] EXCEPT !.vars = [@ EXCEPT ![x] = v]] ELSE st[i]
  BY DEF Written
<1> HIDE DEF v, new
<1>3. new.transparent = st[i].transparent
  BY <1>1, <1>2 DEF Scope
<1> QED BY <1>2, <1>3 DEF new

\* A scope that opens for a try_compile is opaque.
LEMMA OpenedOpaque ==
    ASSUME TypeOK, NEW e, NEW id, NEW w, pending.kind = "try_compile"
    PROVE  ~OpenedScope(id, e, w).transparent
<1>1. OpenedScope(id, e, w) = NewScope(id, e.depth, pending.kind)
  BY DEF OpenedScope
<1>2. Transparent(pending.kind) = FALSE
  BY DEF Transparent
<1>3. NewScope(id, e.depth, pending.kind).transparent = Transparent(pending.kind)
  BY Zenon DEF NewScope
<1> QED BY <1>1, <1>2, <1>3

\* While a try_compile scope is open, an event changes nothing outside it: set
\* and unset go to it or a scope within, a cache write is contained like them,
\* the environment is left alone, and RaisesWithin says where PARENT_SCOPE goes.
LEMMA Frozen ==
    ASSUME ContainInv, RaisesWithin, outcome = "running", NEW e, Event2(e), NEW n, NEW st1, NEW sc1,
           NEW st2, NEW sc2, NEW ws2, NEW c2, NEW cmd, NEW st3,
           Stages(e, n, st1, sc1, st2, sc2, ws2, c2, cmd, st3),
           NEW dump, Results(e, dump, st2, sc2, ws2, c2, cmd, st3),
           NEW i \in 1..Len(stack'), stack'[i].kind = "try_compile"
    PROVE  /\ stack # <<>> /\ ~stack'[i].transparent
           /\ \/ i \in 1..Len(stack) /\ stack[i].kind = "try_compile" /\ stack'[i].id = stack[i].id
              \/ Opens(e) /\ i = Len(st2) /\ stack'[i].id = st2[i].id
           /\ \A x \in Names : cacheVars'[x] = cacheVars[x] /\ envVars'[x] = envVars[x]
           /\ \A j \in 1..Len(stack') : j < i => j \in 1..Len(stack) /\ stack'[j].vars = stack[j].vars
<1>i. TypeOK /\ TreeInv /\ OpaqueTries(stack) /\ Dated(writes, nEvents)
  BY DEF ContainInv
<1>e. e \in Event /\ nEvents \in Nat
  BY <1>i, TreeBase DEF Event2
<1>1. /\ st2 \in Seq(Scope) /\ st3 \in Seq(Scope) /\ Len(st3) = Len(st2) /\ Len(st2) \in Nat
      /\ \A j \in 1..Len(st2) : st3[j].id = st2[j].id /\ st3[j].kind = st2[j].kind
      /\ Len(sc2) \in Nat /\ Len(ws2) \in Nat
  BY <1>i, StageTypes, LenProperties
\* It is not a block that the event opens.
<1>2. i \in 1..Len(st2) /\ \A j \in 1..Len(stack') : j <= i => j \in 1..Len(st2) /\ stack'[j] = st3[j]
  <2>1. CASE e.cmd = "block"
    <3>1. BlockScope(e, Len(sc2) + 1) \in Scope /\ BlockScope(e, Len(sc2) + 1).kind = "block"
      BY <1>1, <1>e, <2>1, BlockScopeType DEF Event2
    <3>2. stack' = Append(st3, BlockScope(e, Len(sc2) + 1))
      BY <2>1 DEF Results
    <3>3. /\ Len(stack') = Len(st2) + 1 /\ \A j \in 1..Len(st2) : stack'[j] = st3[j]
          /\ stack'[Len(st2) + 1].kind = "block"
      BY <1>1, <3>1, <3>2, AppendProperties
    <3> QED BY <1>1, <3>3
  <2>2. CASE e.cmd # "block"
    BY <1>1, <2>2 DEF Results
  <2> QED BY <2>1, <2>2
<1>3. /\ stack'[i] = st3[i] /\ st2[i].kind = "try_compile" /\ stack'[i].id = st2[i].id
      /\ i \in Nat
  BY <1>1, <1>2
\* The root is no try_compile scope, so the trace is under way.
<1>4. /\ n \in 1..Len(BaseStack(e)) /\ n \in Nat
      /\ ~Opens(e) => Len(st2) = n
      /\ Opens(e) => Len(st2) = n + 1
      /\ \A j \in 1..n : j \in 1..Len(BaseStack(e)) /\ st2[j] = BaseStack(e)[j]
  <2>1. BaseStack(e) \in Seq(Scope) /\ Len(BaseStack(e)) \in Nat
    BY <1>e, <1>i, BaseStackType
  <2>2. n \in 1..Len(BaseStack(e)) /\ n \in Nat
    BY <2>1 DEF Stages
  <2>3. /\ Len(st1) = n /\ \A j \in 1..n : st1[j] = BaseStack(e)[j]
        /\ ~Opens(e) => st2 = st1
        /\ Opens(e) => Len(st2) = n + 1 /\ \A j \in 1..n : st2[j] = st1[j]
    BY <1>i, StageTypes
  <2> QED BY <2>1, <2>2, <2>3
<1>5. stack # <<>> /\ nEvents > 0
  <2>1. CASE Opens(e)
    BY <1>i, <2>1 DEF Opens, TreeInv, Paced
  <2>2. CASE ~Opens(e)
    <3>1. BaseStack(e)[i].kind = "try_compile" /\ i \in 1..Len(BaseStack(e))
      BY <1>2, <1>3, <1>4, <2>2
    <3>2. stack = <<>> => BaseStack(e)[i].kind = "root"
      BY <3>1 DEF BaseStack, NewScope
    <3>3. stack # <<>>
      BY <3>1, <3>2
    <3> QED BY <1>i, <3>3 DEF TreeInv, Paced
  <2>3. nEvents > 0
    BY <2>1, <2>2
  <2> QED BY <1>i, <2>3 DEF TreeInv, Paced
<1>6. BaseStack(e) = stack /\ Seeds = {} /\ c2 = CacheWithSeeds(ws2)
  BY <1>5 DEF BaseStack, Seeds, Stages
<1>7. \/ i \in 1..Len(stack) /\ stack[i].kind = "try_compile" /\ stack'[i].id = stack[i].id
         /\ st2[i] = stack[i]
      \/ Opens(e) /\ i = Len(st2) /\ i = n + 1
  BY <1>2, <1>3, <1>4, <1>6
<1>8. ~st2[i].transparent
  <2>1. CASE i \in 1..Len(stack) /\ st2[i] = stack[i]
    BY <1>i, <1>3, <2>1 DEF OpaqueTries
  <2>2. CASE Opens(e) /\ i = n + 1
    <3>1. st2[i] = OpenedScope(Len(sc1) + 1, e, Len(writes) + 1) /\ Len(sc1) + 1 \in Nat
      BY <1>i, <2>2, StageTypes
    <3>2. pending.kind = "try_compile"
      <4>1. Len(writes) + 1 \in Nat
        BY <1>i, LenProperties DEF TypeOK
      <4> QED BY <1>e, <1>i, <1>3, <2>2, <3>1, <4>1, OpenedScopeType
    <3> QED BY <1>i, <3>1, <3>2, OpenedOpaque
  <2> QED BY <1>7, <2>1, <2>2
\* Where the event's write goes.
<1>9. InTryCompile(st2)
  BY <1>2, <1>3 DEF InTryCompile
<1>10. IsWrite(e) => \A j \in 1..Len(st2) : j < i => ~Target(st2, cmd, j)
  <2> SUFFICES ASSUME IsWrite(e), NEW j \in 1..Len(st2), j < i, Target(st2, cmd, j) PROVE FALSE
    OBVIOUS
  <2>1. CASE cmd \in {"set", "unset"}
    BY <1>2, <1>8, <2>1 DEF Target, Nearest
  <2>2. CASE cmd = "parent_scope"
    <3>1. /\ Len(writes') > Len(writes)
          /\ writes'[Len(writes')].cmd = cmd
          /\ RecordScope(st2, cmd, writes'[Len(writes')].scope)
      BY <1>i, WritesGrow
    <3>2. writes'[Len(writes')].scope >= st2[i].id
      BY <1>3, <2>2, <3>1 DEF RaisesWithin
    <3>3. PICK m \in 1..Len(st2) : Target(st2, cmd, m) /\ writes'[Len(writes')].scope = st2[m].id
      BY <3>1 DEF RecordScope
    <3>4. m = j
      BY <1>1, <3>3, OneTarget
    <3>5. st2[j].id < st2[i].id /\ st2[j].id \in 1..Len(sc2) /\ st2[i].id \in 1..Len(sc2)
      <4>1. Tree(st2, sc2, nEvents)
        BY <1>i, TreeReplay
      <4> QED BY <1>2, <4>1 DEF Tree
    <3> QED BY <1>1, <3>2, <3>3, <3>4, <3>5
  <2> QED BY <2>1, <2>2 DEF Target
<1>11. \A j \in 1..Len(stack') : j < i => j \in 1..Len(stack) /\ stack'[j].vars = stack[j].vars
  <2> SUFFICES ASSUME NEW j \in 1..Len(stack'), j < i
               PROVE  j \in 1..Len(stack) /\ stack'[j].vars = stack[j].vars
    OBVIOUS
  <2>1. j \in 1..Len(st2) /\ stack'[j] = st3[j]
    BY <1>2, <1>3
  <2>2. j \in 1..n
    BY <1>2, <1>3, <1>4, <2>1
  <2>3. j \in 1..Len(stack) /\ st2[j] = stack[j]
    BY <1>4, <1>6, <2>2
  <2>4. st3[j] = st2[j]
    <3>1. CASE IsWrite(e)
      <4>1. e.name \in Names /\ Len(ws2) + 1 \in Nat /\ st3 = Written(st2, cmd, e.name, Len(ws2) + 1)
        BY <1>1, <1>e, <3>1 DEF IsWrite, Event, Stages
      <4> QED BY <1>1, <1>10, <2>1, <3>1, <4>1, WrittenElsewhere
    <3>2. CASE ~IsWrite(e)
      BY <3>2 DEF Stages
    <3> QED BY <3>1, <3>2
  <2> QED BY <2>1, <2>3, <2>4
<1>12. ~stack'[i].transparent
  <2>1. CASE IsWrite(e)
    <3>1. e.name \in Names /\ Len(ws2) + 1 \in Nat /\ st3 = Written(st2, cmd, e.name, Len(ws2) + 1)
      BY <1>1, <1>e, <2>1 DEF IsWrite, Event, Stages
    <3> QED BY <1>1, <1>2, <1>3, <1>8, <3>1, WrittenElsewhere
  <2>2. CASE ~IsWrite(e)
    <3>1. st3 = st2
      BY <2>2 DEF Stages
    <3> QED BY <1>3, <1>8, <3>1
  <2> QED BY <2>1, <2>2
<1>13. \A x \in Names : cacheVars'[x] = cacheVars[x] /\ envVars'[x] = envVars[x]
  <2>1. \A x \in Names : c2[x] = cacheVars[x]
    BY <1>6 DEF CacheWithSeeds
  <2>2. CASE IsWrite(e)
    <3>1. /\ cacheVars' = CacheWritten(c2, cmd, e.name, Len(ws2) + 1)
          /\ envVars' = EnvWritten(st2, envVars, cmd, e.name, Len(ws2) + 1)
      BY <2>2 DEF Results
    <3>2. cmd \notin {"cache", "cache_soft", "unset_cache"}
      BY <1>9 DEF Stages, EffectiveCmd
    <3>3. cacheVars' = c2 /\ envVars' = envVars
      BY <1>9, <3>1, <3>2 DEF CacheWritten, EnvWritten
    <3> QED BY <2>1, <3>3
  <2>3. CASE ~IsWrite(e)
    BY <2>1, <2>3 DEF Results
  <2> QED BY <2>2, <2>3
<1> QED BY <1>3, <1>5, <1>7, <1>11, <1>12, <1>13

\* A prefix of the rows keeps its place.
LEMMA OldGrows ==
    ASSUME NEW ws, NEW all, \A w \in 1..Len(ws) : w \in 1..Len(all) /\ all[w] = ws[w]
    PROVE  \A w, start : Old(ws, w, start) => Old(all, w, start)
BY DEF Old

\* One event keeps try_compile sealed.
LEMMA ContainReplay ==
    ASSUME ContainInv, RaisesWithin, NEW e, Event2(e), NEW dump, Replay(e, dump)
    PROVE  ContainInv'
<1>r. outcome = "running" /\ outcome' = "running"
  BY DEF Replay
<1>i. TypeOK /\ TreeInv /\ Match(stack, writes, cacheVars, envVars) /\ Dated(writes, nEvents)
      /\ Sealed(stack, scopes, writes, cacheVars, envVars) /\ nEvents \in Nat
  BY <1>r, TreeBase DEF ContainInv
<1>n. PICK n, st1, sc1, st2, sc2, ws2, c2, cmd, st3 :
         /\ Stages(e, n, st1, sc1, st2, sc2, ws2, c2, cmd, st3)
         /\ Results(e, dump, st2, sc2, ws2, c2, cmd, st3)
  BY ReplayStages
<1>1. TypeOK' /\ Match(stack', writes', cacheVars', envVars')
  BY <1>i, StackStep, MatchReplay
<1>2. /\ Tree(st2, sc2, nEvents)
      /\ Tree(stack', scopes', nEvents') /\ stack' # <<>>
      /\ Opens(e) => sc2[st2[Len(st2)].id].openedBy = nEvents
      /\ \A r \in 1..Len(sc2) : scopes'[r].openedBy = sc2[r].openedBy
      /\ \A r \in 1..Len(BaseRows) : r \in 1..Len(sc2) /\ sc2[r].openedBy = BaseRows[r].openedBy
  BY <1>i, <1>n, <1>r, TreeReplay
<1>3. TreeInv'
  BY <1>i, <1>n, <1>2 DEF Results, ComputePending, TreeInv, Paced
<1>4. /\ Dated(writes', nEvents')
      /\ \A w \in 1..Len(writes) : w \in 1..Len(writes') /\ writes'[w] = writes[w]
  BY <1>i, <1>n, WritesGrow
<1>5. ASSUME NEW i \in 1..Len(stack'), stack'[i].kind = "try_compile"
      PROVE  /\ stack # <<>> /\ ~stack'[i].transparent
             /\ \/ i \in 1..Len(stack) /\ stack[i].kind = "try_compile" /\ stack'[i].id = stack[i].id
                \/ Opens(e) /\ i = Len(st2) /\ stack'[i].id = st2[i].id
             /\ \A x \in Names : cacheVars'[x] = cacheVars[x] /\ envVars'[x] = envVars[x]
             /\ \A j \in 1..Len(stack') : j < i => j \in 1..Len(stack) /\ stack'[j].vars = stack[j].vars
  BY <1>n, <1>r, <1>5, Frozen
<1>6. OpaqueTries(stack')
  BY <1>5 DEF OpaqueTries
<1>7. \A w, start : Old(writes, w, start) => Old(writes', w, start)
  BY <1>4, OldGrows
<1>8. Sealed(stack', scopes', writes', cacheVars', envVars')
  <2> SUFFICES ASSUME NEW i \in 1..Len(stack'), stack'[i].kind = "try_compile", NEW x \in Names
               PROVE  LET start == scopes'[stack'[i].id].openedBy
                      IN  /\ Old(writes', cacheVars'[x], start)
                          /\ Old(writes', envVars'[x], start)
                          /\ \A j \in 1..Len(stack') : j < i => Old(writes', stack'[j].vars[x], start)
    BY DEF Sealed
  <2> DEFINE start == scopes'[stack'[i].id].openedBy
  <2>1. /\ cacheVars'[x] = cacheVars[x] /\ envVars'[x] = envVars[x]
        /\ \A j \in 1..Len(stack') : j < i => j \in 1..Len(stack) /\ stack'[j].vars[x] = stack[j].vars[x]
    BY <1>5
  <2>2. /\ Old(writes, cacheVars[x], start) /\ Old(writes, envVars[x], start)
        /\ \A j \in 1..Len(stack') : j < i => Old(writes, stack[j].vars[x], start)
    <3>1. CASE i \in 1..Len(stack) /\ stack[i].kind = "try_compile" /\ stack'[i].id = stack[i].id
      <4>1. stack[i].id \in 1..Len(scopes) /\ BaseRows = scopes
        BY <1>5, <1>i, <3>1 DEF TreeInv, Tree, BaseRows
      <4>2. stack[i].id \in 1..Len(sc2)
        BY <1>2, <4>1
      <4>3. start = scopes[stack[i].id].openedBy
        BY <1>2, <3>1, <4>1, <4>2
      <4> HIDE DEF start
      <4> QED BY <1>i, <2>1, <3>1, <4>3 DEF Sealed
    <3>2. CASE Opens(e) /\ i = Len(st2) /\ stack'[i].id = st2[i].id
      <4>1. start = nEvents
        <5>1. st2[i].id \in 1..Len(sc2)
          <6>1. Len(st2) \in Nat /\ i \in Nat
            BY <1>1, <1>i, <1>n, StageTypes, LenProperties DEF TypeOK
          <6> QED BY <1>2, <3>2, <6>1 DEF Tree
        <5> QED BY <1>2, <3>2, <5>1
      <4>2. ASSUME NEW w, NEW sc, Row(writes, w, x, sc) PROVE Old(writes, w, nEvents)
        BY <1>i, <4>2 DEF Row, Old, Dated
      <4> HIDE DEF start
      <4> QED BY <1>i, <2>1, <4>1, <4>2 DEF Match
    <3> QED BY <1>5, <3>1, <3>2
  <2> HIDE DEF start
  <2>3. /\ Old(writes', cacheVars'[x], start) /\ Old(writes', envVars'[x], start)
        /\ \A j \in 1..Len(stack') : j < i => Old(writes', stack'[j].vars[x], start)
    BY <1>7, <2>1, <2>2
  <2> QED BY <2>3 DEF start
<1> QED BY <1>1, <1>3, <1>4, <1>6, <1>8 DEF ContainInv

\* On any trace that raises no variable out of a try_compile, what is held
\* outside its scope, in the cache and in the environment while the scope is
\* open dates from before it: the opaque scope keeps the writes of the project
\* it configures from leaking (dataflow.rs:62-64, 540-626).
THEOREM TryCompileIsContained == RSpec /\ [][RaisesWithin]_rvars => []TryCompileContained
<1>1. RInit /\ TypeOK => ContainInv
  <2> SUFFICES ASSUME RInit, TypeOK PROVE ContainInv
    OBVIOUS
  <2>1. /\ stack = <<>> /\ scopes = <<>> /\ writes = <<>> /\ nEvents = 0 /\ pending = None
        /\ cacheVars = Empty /\ envVars = Empty
    BY DEF RInit
  <2>2. \A x \in Names : Empty[x] = NoRow
    BY DEF Empty
  <2>3. Len(stack) = 0 /\ Len(writes) = 0 /\ Len(scopes) = 0
    BY <2>1
  <2>4. TreeInv
    BY <2>1, <2>3 DEF TreeInv, Tree, Paced
  <2>5. Match(stack, writes, cacheVars, envVars)
    <3>1. \A x : Row(writes, NoRow, x, NoRow)
      BY DEF Row
    <3>2. 1..Len(stack) = {} /\ \A x \in Names : cacheVars[x] = NoRow /\ envVars[x] = NoRow
      BY <2>1, <2>2, <2>3
    <3> QED BY <3>1, <3>2 DEF Match
  <2> QED BY <2>3, <2>4, <2>5 DEF ContainInv, Dated, OpaqueTries, Sealed
<1>2. ContainInv /\ [RNext]_rvars /\ [RaisesWithin]_rvars => ContainInv'
  <2> SUFFICES ASSUME ContainInv, [RNext]_rvars, [RaisesWithin]_rvars PROVE ContainInv'
    OBVIOUS
  <2>1. ASSUME NEW e \in Events, NEW dump, Replay(e, dump) PROVE ContainInv'
    <3>1. CASE UNCHANGED rvars
      <4>1. nEvents \in Nat /\ nEvents' = nEvents + 1 /\ nEvents' = nEvents
        BY <2>1, <3>1, ReplayAssumption DEF ContainInv, TypeOK, ReplayAssumption, Replay, rvars
      <4> QED BY <4>1
    <3> QED BY <2>1, <3>1, EventsAreEvents, ContainReplay
  <2>2. CASE Finish
    <3>1. TypeOK' /\ stack' = <<>> /\ UNCHANGED <<writes, cacheVars, envVars, nEvents>>
      BY <2>2, FinishType DEF ContainInv, Finish
    <3>2. TreeInv'
      BY <2>2, TreeFinish DEF ContainInv
    <3>3. Len(stack') = 0 /\ Match(stack', writes', cacheVars', envVars') /\ Dated(writes', nEvents')
      BY <3>1 DEF ContainInv, Match, Dated
    <3> QED BY <3>1, <3>2, <3>3 DEF ContainInv, OpaqueTries, Sealed
  <2>3. CASE UNCHANGED rvars
    BY <2>3 DEF rvars, ContainInv, TypeOK, TreeInv, Paced
  <2> QED BY <2>1, <2>2, <2>3 DEF RNext
<1>3. ContainInv => TryCompileContained
  BY DEF ContainInv, Sealed, Old, TryCompileContained
<1> QED BY <1>1, <1>2, <1>3, ReplayTypeOK, PTL DEF RSpec

=============================================================================
