------------------------ MODULE VariablePassesProofs ------------------------
(***************************************************************************)
(* What the passes over variables report is true of the execution CMake    *)
(* made, whatever the project: every row of var_reads is what CMake read   *)
(* (ReadTrue), the scopes an event was in are told by the scopes table     *)
(* (Up), and a variable nobody writes keeps its value wherever the scope   *)
(* it was read in is still open (Unchanged).                               *)
(***************************************************************************)
EXTENDS VariablePasses, RecordingProofs

-----------------------------------------------------------------------------
(* What is invariant of the rows and of the log.                           *)

\* A scope comes after its parent.
Parented(rows) == \A s \in 1..Len(rows) : rows[s].parent \in 0..(s - 1)

\* Rows are of events there were, and of scopes there are; those of the cache
\* are of none.
RowOk(row, k, n) ==
    /\ row.event \in 1..k /\ row.scope \in 0..n
    /\ row.cmd = "set" => row.scope # NoRow
    /\ row.cmd = "unset_cache" => row.scope = NoRow

AllOk(ws, k, n) == \A w \in 1..Len(ws) : RowOk(ws[w], k, n)

\* The row of an open scope tells its kind.
Kinded(st, rows) == \A i \in 1..Len(st) : rows[st[i].id].kind = st[i].kind

RowsOk ==
    /\ AllOk(writes, nEvents, Len(scopes))
    /\ Parented(scopes) /\ Kinded(stack, scopes)

LogRow == [cmd : BuiltinCmds \cup Procs, name : Names \cup {None}, ref : Names \cup {None},
           joined : BOOLEAN, scope : Nat, read : Nat, sees : [Names -> Nat],
           outer : [Names -> Nat], inside : BOOLEAN, vague : SUBSET Names]

\* What the event read is what CMake read.
ReadTrue(k) ==
    LET x == log[k].ref IN
    x # None /\ log[k].joined =>
        \/ x \in log[k].vague
        \/ log[k].sees[x] = log[k].read
        \/ log[k].sees[x] = NoRow /\ writes[log[k].read].cmd = "unset_cache"

\* A command of a macro writes to the scope of the caller.
LeakTrue(k) == scopes[log[k].scope].kind = "macro" => ~log[k].inside

\* What comes into a function from outside is what the caller has.
RaiseTrue(k) ==
    LET x    == log[k].name
        from == writes[log[k].read].scope
    IN  /\ log[k].cmd = "parent_scope" /\ log[k].ref = x /\ log[k].joined /\ x \notin log[k].vague
        /\ log[k].read # NoRow /\ from # NoRow
        /\ \E s \in EnclosingFunctionScopes(k) : s \notin Around(from)
        => log[k].sees[x] = log[k].outer[x]

\* The event of row w is a set() at the top level.
TopSet(w) ==
    LET e == writes[w].event
    IN  writes[w].cmd = "set" /\ log[e].cmd = "set" /\ TopLevel(e)

\* x is not the variable w sets, and nothing has written it since.
Spared(w, x) == x # log[writes[w].event].name /\ NotRewritten(x, writes[w].event)

\* Who reads what w set sees in a spared variable what the set() saw.
AliasTrue(k) ==
    LET w == log[k].read IN
    w # NoRow /\ TopSet(w) /\ TopLevel(k) =>
        \A x \in Names : Spared(w, x) => log[k].sees[x] = log[writes[w].event].sees[x]

EntryOk(k) ==
    /\ log[k].scope \in 1..Len(scopes) /\ log[k].read \in 0..Len(writes)
    /\ ReadTrue(k) /\ LeakTrue(k) /\ RaiseTrue(k) /\ AliasTrue(k)

LogOk ==
    /\ log \in Seq(LogRow) /\ Len(log) = nEvents
    /\ \A k \in 1..Len(log) : EntryOk(k)

\* In the frames 1 to k there is no procedure and no project of a try_compile.
Plain(fs, k) == \A j \in 1..k : fs[j].kind \notin {"function", "macro", "try_compile"}

\* The value of x seen from frame k, and no further out than frame 1.
SeenAt(fs, k, x) == Normal(SubSeq(fs, 1, k), k, x)

\* While the scope w was written to is open, a spared variable reads there, and
\* further in, as it did when w was set.
Unchanged(w) ==
    TopSet(w) =>
        \A x \in Names : Spared(w, x) =>
            \A i, k \in 1..Len(frames) :
                i <= k /\ Due[i].id = writes[w].scope /\ Plain(frames, k) =>
                    log[writes[w].event].sees[x] =
                        IF SeenAt(frames, k, x) # NoRow THEN SeenAt(frames, k, x) ELSE cache[x]

PassesInv ==
    /\ RecordingInv
    /\ RowsOk
    /\ project.passes =>
         /\ LogOk
         /\ outcome = "running" => \A w \in 1..Len(writes) : Unchanged(w)

-----------------------------------------------------------------------------
(* The scopes around a scope.                                              *)

\* A set of numbers has a smallest.
LEMMA LeastOf ==
    ASSUME NEW S \in SUBSET Nat, S # {}
    PROVE  \E n \in S : \A m \in S : n <= m
<1> DEFINE less == {p \in Nat \X Nat : p[1] < p[2]}
<1>1. IsWellFoundedOn(less, Nat)
  BY NatLessThanWellFounded DEF OpToRel
<1>2. PICK n \in S : \A m \in S : ~(<<m, n>> \in less)
  <2> HIDE DEF less
  <2> QED BY <1>1, WFMin
<1>3. ASSUME NEW m \in S PROVE n <= m
  <2>1. m \in Nat /\ n \in Nat
    OBVIOUS
  <2>2. ~(m < n)
    BY <1>2, <2>1
  <2> QED BY <2>1, <2>2
<1> QED BY <1>3

\* Around(s), of any table of scopes.
Up(rows, s) ==
    LET up[n \in 0..Len(rows)] == IF n = 0 THEN {} ELSE {n} \cup up[rows[n].parent]
    IN  up[s]

\* The sets that hold with a scope its parent.
Upward(rows) ==
    {S \in SUBSET (0..Len(rows)) : \A k \in S : k # 0 => rows[k].parent \in S}

\* The recursion has a solution: the scopes in every upward closed set.
LEMMA UpSolved ==
    ASSUME NEW rows, Len(rows) \in Nat, Parented(rows)
    PROVE  LET f == [n \in 0..Len(rows) |->
                        {m \in 1..Len(rows) : \A S \in Upward(rows) : n \in S => m \in S}]
           IN  f = [n \in 0..Len(rows) |-> IF n = 0 THEN {} ELSE {n} \cup f[rows[n].parent]]
<1> DEFINE N == Len(rows)
           A(n) == {m \in 1..N : \A S \in Upward(rows) : n \in S => m \in S}
           f == [n \in 0..N |-> A(n)]
<1>1. ASSUME NEW n \in 0..N
      PROVE  A(n) = IF n = 0 THEN {} ELSE {n} \cup f[rows[n].parent]
  <2>1. CASE n = 0
    <3>1. {0} \in Upward(rows)
      BY DEF Upward
    <3> QED BY <2>1, <3>1
  <2>2. CASE n # 0
    <3> DEFINE p == rows[n].parent
    <3>1. n \in 1..N /\ p \in 0..N
      BY <2>2 DEF Parented
    <3>2. A(n) \subseteq {n} \cup A(p)
      <4> SUFFICES ASSUME NEW m \in A(n), m # n, m \notin A(p) PROVE FALSE
        OBVIOUS
      <4>1. PICK S \in Upward(rows) : p \in S /\ m \notin S
        OBVIOUS
      <4>2. S \cup {n} \in Upward(rows)
        BY <4>1, <3>1 DEF Upward
      <4> QED BY <4>1, <4>2
    <3>3. {n} \cup A(p) \subseteq A(n)
      <4>1. \A S \in Upward(rows) : n \in S => p \in S
        BY <2>2 DEF Upward
      <4> QED BY <3>1, <4>1
    <3>4. f[p] = A(p)
      BY <3>1
    <3> QED BY <2>2, <3>2, <3>3, <3>4
  <2> QED BY <2>1, <2>2
<1> HIDE DEF A
<1>2. f = [n \in 0..N |-> IF n = 0 THEN {} ELSE {n} \cup f[rows[n].parent]]
  BY <1>1
<1> QED BY <1>2 DEF A

\* The scopes around a scope are itself and those around its parent.
LEMMA UpIs ==
    ASSUME NEW rows, Len(rows) \in Nat, Parented(rows)
    PROVE  /\ Up(rows, 0) = {}
           /\ \A s \in 1..Len(rows) : Up(rows, s) = {s} \cup Up(rows, rows[s].parent)
<1> DEFINE N == Len(rows)
           Eq(g) == g = [n \in 0..N |-> IF n = 0 THEN {} ELSE {n} \cup g[rows[n].parent]]
           up == CHOOSE g : Eq(g)
           f == [n \in 0..N |-> {m \in 1..N : \A S \in Upward(rows) : n \in S => m \in S}]
<1>0. Eq(f)
  BY UpSolved
<1>1. \E g : Eq(g)
  <2> HIDE DEF f
  <2> QED BY <1>0
<1>2. Eq(up)
  BY <1>1
<1>3. \A s : Up(rows, s) = up[s]
  BY DEF Up
<1> HIDE DEF up
<1>4. up[0] = {}
  BY <1>2
<1>5. ASSUME NEW s \in 1..N PROVE up[s] = {s} \cup up[rows[s].parent]
  BY <1>2
<1> QED BY <1>3, <1>4, <1>5

\* Rows that are there stay where they are in the tree.
Grown(old, rows) ==
    \A r \in 1..Len(old) : /\ r \in 1..Len(rows)
                           /\ rows[r].parent = old[r].parent /\ rows[r].kind = old[r].kind

\* Rows added, and rows closed, leave the scopes around the old ones.
LEMMA UpKept ==
    ASSUME NEW old, NEW rows, Len(old) \in Nat, Len(rows) \in Nat, Parented(old), Parented(rows),
           Grown(old, rows)
    PROVE  \A s \in 0..Len(old) : Up(rows, s) = Up(old, s)
<1> DEFINE Bad == {s \in 0..Len(old) : Up(rows, s) # Up(old, s)}
<1> SUFFICES ASSUME Bad # {} PROVE FALSE
  OBVIOUS
<1>1. PICK s \in Bad : \A m \in Bad : s <= m
  <2>1. Bad \in SUBSET Nat
    OBVIOUS
  <2> HIDE DEF Bad
  <2> QED BY <2>1, LeastOf
<1>2. s \in 1..Len(old)
  BY UpIs
<1>3. rows[s].parent = old[s].parent /\ s \in 1..Len(rows) /\ old[s].parent \in 0..(s - 1)
  BY <1>2 DEF Grown, Parented
<1>4. Up(rows, old[s].parent) = Up(old, old[s].parent)
  BY <1>1, <1>2, <1>3
<1>5. Up(rows, s) = {s} \cup Up(rows, rows[s].parent) /\ Up(old, s) = {s} \cup Up(old, old[s].parent)
  BY <1>2, <1>3, UpIs
<1> QED BY <1>1, <1>3, <1>4, <1>5

\* No scope is around an older one.
LEMMA UpBelow ==
    ASSUME NEW rows, Len(rows) \in Nat, Parented(rows)
    PROVE  \A s \in 0..Len(rows) : Up(rows, s) \subseteq 1..s
<1> DEFINE Bad == {s \in 0..Len(rows) : ~(Up(rows, s) \subseteq 1..s)}
<1> SUFFICES ASSUME Bad # {} PROVE FALSE
  OBVIOUS
<1>1. PICK s \in Bad : \A m \in Bad : s <= m
  <2>1. Bad \in SUBSET Nat
    OBVIOUS
  <2> HIDE DEF Bad
  <2> QED BY <2>1, LeastOf
<1>2. s \in 1..Len(rows) /\ rows[s].parent \in 0..(s - 1)
  BY UpIs DEF Parented
<1>3. Up(rows, rows[s].parent) \subseteq 1..rows[s].parent
  BY <1>1, <1>2
<1>4. 1..rows[s].parent \subseteq 1..s
  BY <1>2
<1> QED BY <1>1, <1>2, <1>3, <1>4, UpIs

\* Around an open scope are those below it on the stack.
LEMMA UpStack ==
    ASSUME NEW st, NEW rows, NEW k, Len(st) \in Nat, Len(rows) \in Nat, Parented(rows),
           Tree(st, rows, k)
    PROVE  \A i \in 1..Len(st) : Up(rows, st[i].id) = {st[j].id : j \in 1..i}
<1> DEFINE Bad == {i \in 1..Len(st) : Up(rows, st[i].id) # {st[j].id : j \in 1..i}}
<1> SUFFICES ASSUME Bad # {} PROVE FALSE
  OBVIOUS
<1>1. PICK i \in Bad : \A m \in Bad : i <= m
  <2>1. Bad \in SUBSET Nat
    OBVIOUS
  <2> HIDE DEF Bad
  <2> QED BY <2>1, LeastOf
<1>2. i \in 1..Len(st) /\ st[i].id \in 1..Len(rows)
  BY DEF Tree
<1>3. Up(rows, st[i].id) = {st[i].id} \cup Up(rows, rows[st[i].id].parent)
  BY <1>2, UpIs
<1>4. CASE i = 1
  <2>1. st[1].id = 1 /\ rows[1].parent = 0
    <3>1. st[1].id = 1
      BY <1>2, <1>4 DEF Tree
    <3> QED BY <1>2, <1>4, <3>1 DEF Parented
  <2>2. Up(rows, 0) = {}
    BY UpIs
  <2>3. {st[j].id : j \in 1..i} = {1}
    BY <1>4, <2>1
  <2> QED BY <1>3, <1>4, <2>1, <2>2, <2>3
<1>5. CASE i # 1
  <2>1. i \in 2..Len(st) /\ i - 1 \in 1..Len(st)
    BY <1>2, <1>5
  <2>2. rows[st[i].id].parent = st[i - 1].id
    BY <2>1 DEF Tree
  <2>3. Up(rows, st[i - 1].id) = {st[j].id : j \in 1..(i - 1)}
    <3>1. ~(i <= i - 1)
      BY <2>1
    <3> QED BY <1>1, <2>1, <3>1
  <2>4. {st[j].id : j \in 1..i} = {st[i].id} \cup {st[j].id : j \in 1..(i - 1)}
    <3>1. 1..i = (1..(i - 1)) \cup {i}
      BY <2>1
    <3> QED BY <3>1
  <2> QED BY <1>3, <2>2, <2>3, <2>4
<1> QED BY <1>4, <1>5

-----------------------------------------------------------------------------
(* The rows an event adds.                                                 *)

\* Growing twice is growing.
LEMMA GrownTwice ==
    ASSUME NEW a, NEW b, NEW c, Grown(a, b), Grown(b, c)
    PROVE  Grown(a, c)
  BY DEF Grown

\* Closing scopes leaves the tree and the kinds.
LEMMA CloseKeeps ==
    ASSUME NEW rows \in Seq(ScopeRow), NEW st, NEW n, NEW eid
    PROVE  /\ Grown(rows, CloseRows(rows, st, n, eid))
           /\ Len(CloseRows(rows, st, n, eid)) = Len(rows)
           /\ Parented(rows) => Parented(CloseRows(rows, st, n, eid))
<1> DEFINE new == CloseRows(rows, st, n, eid)
<1>1. Len(rows) \in Nat /\ \A r \in 1..Len(rows) : rows[r] \in ScopeRow
  BY LenProperties, ElementOfSeq
<1>2. new = [r \in 1..Len(rows) |-> new[r]] /\ Len(new) = Len(rows)
  BY <1>1 DEF CloseRows
<1>3. ASSUME NEW r \in 1..Len(rows)
      PROVE  new[r].parent = rows[r].parent /\ new[r].kind = rows[r].kind
  <2>1. new[r] \in {rows[r], [rows[r] EXCEPT !.closedBy = eid]}
    BY <1>1 DEF CloseRows
  <2>2. rows[r] \in ScopeRow
    BY <1>1
  <2> QED BY <2>1, <2>2 DEF ScopeRow
<1> HIDE DEF new
<1>4. Grown(rows, new)
  BY <1>2, <1>3 DEF Grown
<1>5. Parented(rows) => Parented(new)
  BY <1>2, <1>3 DEF Parented
<1> QED BY <1>2, <1>4, <1>5 DEF new

\* A scope more, on top of the stack.
LEMMA PushGrows ==
    ASSUME NEW st \in Seq(Scope), NEW rows \in Seq(ScopeRow), NEW k, NEW s \in Scope,
           NEW row \in ScopeRow, st # <<>>, Tree(Append(st, s), Append(rows, row), k),
           s.id = Len(rows) + 1, row.kind = s.kind, Parented(rows), Kinded(st, rows),
           \A i \in 1..Len(st) : st[i].id \in 1..Len(rows)
    PROVE  /\ Grown(rows, Append(rows, row))
           /\ Parented(Append(rows, row)) /\ Kinded(Append(st, s), Append(rows, row))
<1> DEFINE new == Append(rows, row)
           tt  == Append(st, s)
<1>1. /\ Len(rows) \in Nat /\ Len(st) \in Nat \ {0}
      /\ Len(new) = Len(rows) + 1 /\ new[Len(rows) + 1] = row
      /\ \A r \in 1..Len(rows) : new[r] = rows[r]
      /\ Len(tt) = Len(st) + 1 /\ tt[Len(st) + 1] = s
      /\ \A i \in 1..Len(st) : tt[i] = st[i]
  BY EmptySeq, AppendProperties, LenProperties
<1>2. row.parent \in 0..Len(rows)
  <2>1. Len(tt) \in 2..Len(tt) /\ Len(tt) - 1 \in 1..Len(st) /\ Len(tt) = Len(st) + 1
    BY <1>1
  <2>2. new[tt[Len(tt)].id].parent = tt[Len(tt) - 1].id
    BY <2>1 DEF Tree
  <2>3. tt[Len(tt)].id = Len(rows) + 1
    BY <1>1, <2>1
  <2>4. tt[Len(tt) - 1].id \in 1..Len(rows)
    BY <1>1, <2>1
  <2> HIDE DEF new, tt
  <2> QED BY <1>1, <2>2, <2>3, <2>4
<1> HIDE DEF new, tt
<1>3. Grown(rows, new)
  BY <1>1 DEF Grown
<1>4. Parented(new)
  <2> SUFFICES ASSUME NEW r \in 1..Len(new) PROVE new[r].parent \in 0..(r - 1)
    BY DEF Parented
  <2>1. CASE r = Len(rows) + 1
    BY <1>1, <1>2, <2>1
  <2>2. CASE r \in 1..Len(rows)
    BY <1>1, <2>2 DEF Parented
  <2> QED BY <1>1, <2>1, <2>2
<1>5. Kinded(tt, new)
  <2> SUFFICES ASSUME NEW i \in 1..Len(tt) PROVE new[tt[i].id].kind = tt[i].kind
    BY DEF Kinded
  <2>1. CASE i = Len(st) + 1
    BY <1>1, <2>1
  <2>2. CASE i \in 1..Len(st)
    <3>1. st[i].id \in 1..Len(rows)
      BY <2>2
    <3>2. rows[st[i].id].kind = st[i].kind
      BY <2>2 DEF Kinded
    <3> QED BY <1>1, <2>2, <3>1, <3>2
  <2> QED BY <1>1, <2>1, <2>2
<1> QED BY <1>3, <1>4, <1>5 DEF new, tt

\* One event adds scopes at the end: that of the call it is in, under Due's top,
\* and that of a block().
LEMMA ScopesGrow ==
    ASSUME TypeOK, TreeInv, NEW e, Event2(e), NEW n, NEW st1, NEW sc1, NEW st2, NEW sc2, NEW ws2,
           NEW c2, NEW cmd, NEW st3, Stages(e, n, st1, sc1, st2, sc2, ws2, c2, cmd, st3),
           NEW dump, Results(e, dump, st2, sc2, ws2, c2, cmd, st3), outcome = "running",
           Parented(scopes), Kinded(stack, scopes)
    PROVE  /\ Grown(scopes, sc2) /\ Parented(sc2) /\ Kinded(st2, sc2)
           /\ Grown(sc2, scopes') /\ Parented(scopes') /\ Kinded(stack', scopes')
           /\ Len(sc1) >= Len(scopes) /\ Len(scopes') >= Len(sc2)
           /\ Opens(e) => Len(sc2) = Len(sc1) + 1
<1>e. e \in Event /\ Len(scopes) \in Nat /\ Len(stack) \in Nat
  BY LenProperties DEF Event2, TypeOK
<1>b. /\ BaseStack(e) \in Seq(Scope) /\ n \in 1..Len(BaseStack(e)) /\ n \in Nat \ {0}
      /\ BaseRows \in Seq(ScopeRow)
  BY <1>e, BaseStackType, BaseRowsType DEF Stages
<1>s. /\ st1 \in Seq(Scope) /\ Len(st1) = n /\ \A i \in 1..n : st1[i] = BaseStack(e)[i]
      /\ sc1 \in Seq(ScopeRow) /\ Len(sc1) \in Nat /\ sc2 \in Seq(ScopeRow) /\ Len(sc2) \in Nat
      /\ st2 \in Seq(Scope) /\ st3 \in Seq(Scope) /\ Len(st3) = Len(st2)
      /\ \A i \in 1..Len(st2) : st3[i].id = st2[i].id /\ st3[i].kind = st2[i].kind
  BY StageTypes
<1>t. Tree(st2, sc2, nEvents) /\ Tree(stack', scopes', nEvents')
  BY TreeReplay
<1>1. Grown(scopes, BaseRows) /\ Parented(BaseRows) /\ Kinded(BaseStack(e), BaseRows)
      /\ Len(BaseRows) >= Len(scopes)
      /\ \A i \in 1..Len(BaseStack(e)) : BaseStack(e)[i].id \in 1..Len(BaseRows)
  <2>1. CASE stack = <<>>
    <3>1. scopes = <<>>
      BY <2>1 DEF TreeInv, Paced
    <3>2. Len(scopes) = 0
      BY <3>1, EmptySeq
    <3>3. /\ Len(BaseRows) = 1 /\ BaseRows[1].parent = 0 /\ BaseRows[1].kind = "root"
          /\ Len(BaseStack(e)) = 1 /\ BaseStack(e)[1].kind = "root" /\ BaseStack(e)[1].id = 1
      BY <2>1 DEF BaseRows, BaseStack, NewScope, NoRow
    <3> QED BY <3>2, <3>3 DEF Grown, Parented, Kinded
  <2>2. CASE stack # <<>>
    <3>1. BaseRows = scopes /\ BaseStack(e) = stack
      BY <2>2 DEF BaseRows, BaseStack
    <3>2. \A i \in 1..Len(stack) : stack[i].id \in 1..Len(scopes)
      BY DEF TreeInv, Tree
    <3> QED BY <1>e, <3>1, <3>2 DEF Grown
  <2> QED BY <2>1, <2>2
<1>2. sc1 = CloseRows(BaseRows, BaseStack(e), n, nEvents)
  BY DEF Stages
<1>3. Grown(BaseRows, sc1) /\ Parented(sc1) /\ Len(sc1) = Len(BaseRows)
  BY <1>1, <1>2, <1>b, CloseKeeps
<1>4. /\ Kinded(st1, sc1)
      /\ \A i \in 1..Len(st1) : st1[i].id \in 1..Len(sc1)
  <2>1. ASSUME NEW i \in 1..Len(st1)
        PROVE  st1[i].id \in 1..Len(sc1) /\ sc1[st1[i].id].kind = st1[i].kind
    <3>1. i \in 1..Len(BaseStack(e)) /\ st1[i] = BaseStack(e)[i]
      BY <1>b, <1>s
    <3>2. BaseStack(e)[i].id \in 1..Len(BaseRows)
          /\ BaseRows[BaseStack(e)[i].id].kind = BaseStack(e)[i].kind
      BY <1>1, <3>1 DEF Kinded
    <3> QED BY <1>3, <3>1, <3>2 DEF Grown
  <2> QED BY <2>1 DEF Kinded
<1>5. /\ Grown(sc1, sc2) /\ Parented(sc2) /\ Kinded(st2, sc2)
      /\ Opens(e) => Len(sc2) = Len(sc1) + 1
  <2>1. CASE Opens(e)
    <3> DEFINE s   == OpenedScope(Len(sc1) + 1, e, Len(writes) + 1)
               row == [parent |-> st1[Len(st1)].id, kind |-> pending.kind,
                       openedBy |-> pending.openedBy, closedBy |-> NoRow]
    <3>1. st2 = Append(st1, s) /\ sc2 = Append(sc1, row)
      BY <2>1 DEF Stages, Opened, OpenedRows
    <3>2. s \in Scope /\ s.id = Len(sc1) + 1 /\ s.kind = pending.kind
      <4>1. Len(writes) + 1 \in Nat /\ Len(sc1) + 1 \in Nat
        BY <1>s, LenProperties DEF TypeOK
      <4> HIDE DEF row
      <4> QED BY <1>e, <2>1, <4>1, OpenedScopeType
    <3>3. row \in ScopeRow /\ row.kind = s.kind
      <4>1. Len(st1) \in 1..Len(st1)
        BY <1>s, <1>b
      <4>2. st1[Len(st1)] \in Scope
        BY <1>s, <4>1, ElementOfSeq
      <4>3. st1[Len(st1)].id \in Nat /\ pending \in Pending
        BY <2>1, <4>2 DEF Scope, TypeOK, Opens
      <4> QED BY <3>2, <4>3 DEF ScopeRow, Pending, NoRow
    <3>4. st1 # <<>> /\ Len(Append(sc1, row)) = Len(sc1) + 1
      BY <1>b, <1>s, EmptySeq
    <3> HIDE DEF s, row
    <3>5. Tree(Append(st1, s), Append(sc1, row), nEvents)
      BY <1>t, <3>1
    <3> QED BY <1>3, <1>4, <1>s, <3>1, <3>2, <3>3, <3>4, <3>5, PushGrows
  <2>2. CASE ~Opens(e)
    <3>1. st2 = st1 /\ sc2 = sc1
      BY <2>2 DEF Stages, Opened, OpenedRows
    <3> QED BY <1>3, <1>4, <1>s, <2>2, <3>1 DEF Grown
  <2> QED BY <2>1, <2>2
<1>6. Kinded(st3, sc2) /\ \A i \in 1..Len(st3) : st3[i].id \in 1..Len(sc2)
  BY <1>5, <1>s, <1>t DEF Kinded, Tree
<1>7. Grown(sc2, scopes') /\ Parented(scopes') /\ Kinded(stack', scopes') /\ Len(scopes') >= Len(sc2)
  <2>1. CASE e.cmd = "block"
    <3> DEFINE s   == BlockScope(e, Len(sc2) + 1)
               row == BlockRow(st2)
    <3>1. stack' = Append(st3, s) /\ scopes' = Append(sc2, row)
      BY <2>1 DEF Results
    <3>2. s \in Scope /\ s.id = Len(sc2) + 1 /\ s.kind = "block" /\ row.kind = "block"
      BY <1>e, <1>s, <2>1, BlockScopeType DEF Event2, BlockRow
    <3>3. Len(st2) \in 1..Len(st2)
      <4>1. Len(st2) \in {n, n + 1}
        BY <1>s, StageTypes
      <4> QED BY <1>b, <4>1
    <3>4. st2[Len(st2)] \in Scope
      BY <1>s, <3>3, ElementOfSeq
    <3>5. row \in ScopeRow
      <4>1. nEvents + 1 \in Nat
        BY ReplayAssumption DEF TypeOK, ReplayAssumption
      <4> QED BY <3>4, <4>1 DEF BlockRow, ScopeRow, Scope, Kinds, NoRow
    <3>6. st3 # <<>> /\ Len(Append(sc2, row)) = Len(sc2) + 1
      BY <1>s, <3>3, EmptySeq
    <3> HIDE DEF s, row
    <3>7. Tree(Append(st3, s), Append(sc2, row), nEvents')
      BY <1>t, <3>1
    <3>8. row.kind = s.kind /\ st3 \in Seq(Scope) /\ sc2 \in Seq(ScopeRow) /\ Parented(sc2)
      BY <1>5, <1>s, <3>2
    <3>9. /\ Grown(sc2, Append(sc2, row)) /\ Parented(Append(sc2, row))
          /\ Kinded(Append(st3, s), Append(sc2, row))
      BY <1>6, <3>2, <3>5, <3>6, <3>7, <3>8, PushGrows
    <3> QED BY <1>s, <3>1, <3>6, <3>9
  <2>2. CASE e.cmd # "block"
    <3>1. stack' = st3 /\ scopes' = sc2
      BY <2>2 DEF Results
    <3> QED BY <1>5, <1>6, <1>s, <3>1 DEF Grown
  <2> QED BY <2>1, <2>2
<1>8. Grown(scopes, sc2)
  BY <1>1, <1>3, <1>5, GrownTwice
<1> QED BY <1>1, <1>3, <1>5, <1>7, <1>8

\* A sound row added to sound rows.
LEMMA AllOkAppend ==
    ASSUME NEW ws \in Seq(WriteRow), NEW row \in WriteRow, NEW k, NEW n, AllOk(ws, k, n),
           RowOk(row, k, n)
    PROVE  AllOk(Append(ws, row), k, n)
<1>1. /\ Len(Append(ws, row)) = Len(ws) + 1 /\ Append(ws, row)[Len(ws) + 1] = row
      /\ \A w \in 1..Len(ws) : Append(ws, row)[w] = ws[w]
      /\ Len(ws) \in Nat
  BY AppendProperties, LenProperties
<1> QED BY <1>1 DEF AllOk

\* What precedes the event's own row: the arguments of the call it is in, and the
\* -D entries.
LEMMA RowsBefore ==
    ASSUME TypeOK, TreeInv, NEW e, Event2(e), NEW n, NEW st1, NEW sc1, NEW st2, NEW sc2, NEW ws2,
           NEW c2, NEW cmd, NEW st3, Stages(e, n, st1, sc1, st2, sc2, ws2, c2, cmd, st3),
           Len(sc1) \in Nat, Len(sc2) \in Nat, Len(sc1) >= Len(scopes), Len(sc2) >= Len(sc1),
           Opens(e) => Len(sc2) = Len(sc1) + 1, AllOk(writes, nEvents, Len(scopes))
    PROVE  /\ ws2 \in Seq(WriteRow) /\ AllOk(ws2, nEvents + 1, Len(sc2)) /\ Len(ws2) >= Len(writes)
           /\ \A w \in 1..Len(writes) : w \in 1..Len(ws2) /\ ws2[w] = writes[w]
           /\ \A w \in 1..Len(ws2) : w > Len(writes) => ws2[w].cmd \in {"synthetic", "cache"}
<1> DEFINE m    == nEvents + 1
           ws1  == Synthesized(e, Len(sc1) + 1)
           row1 == [names |-> pending.params, scope |-> Len(sc1) + 1,
                    cmd |-> "synthetic", event |-> pending.openedBy]
           row2 == [names |-> Seeds, scope |-> NoRow, cmd |-> "cache", event |-> nEvents + 1]
           Good(ws) == /\ ws \in Seq(WriteRow) /\ AllOk(ws, m, Len(sc2)) /\ Len(ws) >= Len(writes)
                       /\ \A w \in 1..Len(writes) : w \in 1..Len(ws) /\ ws[w] = writes[w]
                       /\ \A w \in 1..Len(ws) : w > Len(writes) => ws[w].cmd \in {"synthetic", "cache"}
<1>n. nEvents \in Nat /\ m \in Nat /\ Len(scopes) \in Nat /\ Len(writes) \in Nat
      /\ writes \in Seq(WriteRow)
  BY LenProperties, ReplayAssumption DEF TypeOK, ReplayAssumption
<1>a. ASSUME NEW ws, NEW row \in WriteRow, Good(ws), RowOk(row, m, Len(sc2)),
             row.cmd \in {"synthetic", "cache"}
      PROVE  Good(Append(ws, row))
  <2>1. ws \in Seq(WriteRow) /\ AllOk(ws, m, Len(sc2))
    BY <1>a
  <2>2. AllOk(Append(ws, row), m, Len(sc2))
    BY <1>a, <2>1, AllOkAppend
  <2>3. /\ Len(Append(ws, row)) = Len(ws) + 1 /\ Append(ws, row)[Len(ws) + 1] = row
        /\ \A w \in 1..Len(ws) : Append(ws, row)[w] = ws[w]
        /\ Append(ws, row) \in Seq(WriteRow) /\ Len(ws) \in Nat
    BY <2>1, AppendProperties, LenProperties
  <2>4. \A w \in 1..Len(Append(ws, row)) : w \in 1..Len(ws) \/ w = Len(ws) + 1
    BY <2>3
  <2> HIDE DEF m
  <2> QED BY <1>a, <1>n, <2>2, <2>3, <2>4
<1>1. Good(writes)
  <2>1. \A w \in 1..Len(writes) : RowOk(writes[w], m, Len(sc2))
    BY <1>n DEF AllOk, RowOk
  <2> QED BY <1>n, <2>1 DEF AllOk
<1>2. Good(ws1)
  <2>1. CASE Synthesizes(e)
    <3>1. pending \in Pending /\ pending.openedBy = nEvents /\ nEvents > 0 /\ Opens(e)
      BY <2>1 DEF Synthesizes, Opens, TypeOK, TreeInv, Paced
    <3>2. row1 \in WriteRow
      BY <3>1 DEF WriteRow, Pending
    <3>3. RowOk(row1, m, Len(sc2))
      BY <3>1, <1>n DEF RowOk
    <3>4. row1.cmd \in {"synthetic", "cache"} /\ ws1 = Append(writes, row1)
      BY <2>1 DEF Synthesized
    <3> HIDE DEF row1, ws1, Good
    <3> QED BY <1>1, <1>a, <3>2, <3>3, <3>4
  <2>2. CASE ~Synthesizes(e)
    BY <1>1, <2>2 DEF Synthesized
  <2> QED BY <2>1, <2>2
<1>3. Good(SeededRows(ws1))
  <2>1. CASE Seeds # {}
    <3>2. row2 \in WriteRow
      BY <1>n, ReplayAssumption DEF WriteRow, WriteCmds, NoRow, Seeds, ReplayAssumption
    <3>3. RowOk(row2, m, Len(sc2))
      BY <1>n DEF RowOk, NoRow
    <3>4. row2.cmd \in {"synthetic", "cache"} /\ SeededRows(ws1) = Append(ws1, row2)
      BY <2>1 DEF SeededRows
    <3> HIDE DEF row2, ws1, Good
    <3> QED BY <1>2, <1>a, <3>2, <3>3, <3>4
  <2>2. CASE Seeds = {}
    <3>1. SeededRows(ws1) = ws1
      BY <2>2 DEF SeededRows
    <3> HIDE DEF Good, ws1
    <3> QED BY <1>2, <3>1
  <2> QED BY <2>1, <2>2
<1>4. ws2 = SeededRows(ws1)
  BY DEF Stages
<1> QED BY <1>3, <1>4

\* The scopes table as an event leaves it: it tells the scopes the event was in,
\* which are those of the frames.
ScopesTold ==
    /\ Grown(scopes, scopes') /\ Parented(scopes') /\ Kinded(stack', scopes')
    /\ Len(scopes') \in Nat /\ Len(scopes') >= Len(scopes)
    /\ \A i \in 1..Len(frames) : /\ Due[i].id \in 1..Len(scopes')
                                 /\ scopes'[Due[i].id].kind = frames[i].kind
    /\ \A i, j \in 1..Len(frames) : i < j => Due[i].id < Due[j].id
    /\ \A i \in 1..Len(frames) : Up(scopes', Due[i].id) = {Due[j].id : j \in 1..i}

\* The scopes after an event: those around each frame are the scopes of the frames
\* further out, and a block adds one of its own.
LEMMA EventScopes ==
    ASSUME DisciplineInv, ContainInv, Structure, Parented(scopes), Kinded(stack, scopes),
           NEW e, Event2(e), Fits(e), NEW dump, Replay(e, dump)
    PROVE  /\ ScopesTold
           /\ stack'[IF e.cmd = "block" THEN Len(stack') - 1 ELSE Len(stack')].id
                = Due[Len(frames)].id
           /\ e.cmd = "block" => \E id \in Nat : /\ id > Len(scopes)
                                                 /\ stack' = Append(Due, BlockScope(e, id))
<1>t. TypeOK /\ TreeInv /\ outcome = "running" /\ Framed(frames) /\ Pairs(Due, frames)
  BY DEF DisciplineInv, ContainInv, Replay, Structure
<1>d. Due \in Seq(Scope) /\ Len(Due) = Len(frames) /\ Len(frames) \in Nat \ {0}
  BY <1>t, DueIs DEF Framed
<1>n. PICK n, st1, sc1, sc2, ws2, c2, cmd, st3 :
         /\ Stages(e, n, st1, sc1, Due, sc2, ws2, c2, cmd, st3)
         /\ Results(e, dump, Due, sc2, ws2, c2, cmd, st3)
  BY EventConsumed
<1>1. /\ Grown(scopes, sc2) /\ Parented(sc2) /\ Kinded(Due, sc2)
      /\ Grown(sc2, scopes') /\ Parented(scopes') /\ Kinded(stack', scopes')
      /\ Len(sc1) >= Len(scopes) /\ Len(scopes') >= Len(sc2)
      /\ Opens(e) => Len(sc2) = Len(sc1) + 1
  BY <1>n, <1>t, ScopesGrow
<1>2. /\ sc2 \in Seq(ScopeRow) /\ Len(sc2) \in Nat /\ st3 \in Seq(Scope) /\ Len(st3) = Len(Due)
      /\ Len(sc1) \in Nat /\ \A i \in 1..Len(Due) : st3[i].id = Due[i].id
  BY <1>n, <1>t, StageTypes
<1>3. Tree(Due, sc2, nEvents)
  BY <1>n, <1>t, TreeReplay
<1>4. Len(scopes') \in Nat /\ Len(scopes) \in Nat
  BY StackAfter, LenProperties DEF DisciplineInv, TypeOK
<1>5. Len(sc2) >= Len(sc1)
  BY <1>1, <1>2, <1>n DEF Stages, OpenedRows
<1>6. \A i \in 1..Len(frames) : Due[i].id \in 1..Len(scopes') /\ scopes'[Due[i].id].kind = frames[i].kind
  <2> SUFFICES ASSUME NEW i \in 1..Len(frames)
               PROVE  Due[i].id \in 1..Len(scopes') /\ scopes'[Due[i].id].kind = frames[i].kind
    OBVIOUS
  <2>1. Due[i].id \in 1..Len(sc2)
    BY <1>3, <1>d DEF Tree
  <2>2. sc2[Due[i].id].kind = Due[i].kind
    BY <1>1, <1>d DEF Kinded
  <2>3. Due[i].kind = frames[i].kind
    BY <1>t DEF Pairs, Pair
  <2> QED BY <1>1, <2>1, <2>2, <2>3 DEF Grown
<1>7. \A i, j \in 1..Len(frames) : i < j => Due[i].id < Due[j].id
  BY <1>3, <1>d DEF Tree
<1>8. \A i \in 1..Len(frames) : Up(scopes', Due[i].id) = {Due[j].id : j \in 1..i}
  <2> SUFFICES ASSUME NEW i \in 1..Len(frames)
               PROVE  Up(scopes', Due[i].id) = {Due[j].id : j \in 1..i}
    OBVIOUS
  <2>1. i \in 1..Len(Due)
    BY <1>d
  <2>2. Up(sc2, Due[i].id) = {Due[j].id : j \in 1..i}
    BY <1>1, <1>2, <1>3, <1>d, <2>1, UpStack
  <2>3. Due[i].id \in 0..Len(sc2)
    BY <1>3, <2>1 DEF Tree
  <2> QED BY <1>1, <1>2, <1>4, <2>2, <2>3, UpKept
<1>9. stack'[IF e.cmd = "block" THEN Len(stack') - 1 ELSE Len(stack')].id = Due[Len(frames)].id
  <2>1. stack' = IF e.cmd = "block" THEN Append(st3, BlockScope(e, Len(sc2) + 1)) ELSE st3
    BY <1>n DEF Results
  <2>2. Len(Append(st3, BlockScope(e, Len(sc2) + 1))) = Len(st3) + 1
        /\ \A i \in 1..Len(st3) : Append(st3, BlockScope(e, Len(sc2) + 1))[i] = st3[i]
    BY <1>2
  <2> QED BY <1>2, <1>d, <2>1, <2>2
<1>10. e.cmd = "block" => \E id \in Nat : id > Len(scopes) /\ stack' = Append(Due, BlockScope(e, id))
  <2> SUFFICES ASSUME e.cmd = "block"
               PROVE  \E id \in Nat : id > Len(scopes) /\ stack' = Append(Due, BlockScope(e, id))
    OBVIOUS
  <2>1. ~IsWrite(e)
    BY DEF IsWrite, WriteCmds
  <2>2. st3 = Due
    BY <1>n, <2>1 DEF Stages
  <2>3. stack' = Append(Due, BlockScope(e, Len(sc2) + 1))
    BY <1>n, <2>2 DEF Results
  <2>4. Len(sc2) + 1 \in Nat /\ Len(sc2) + 1 > Len(scopes)
    BY <1>1, <1>2, <1>4, <1>5
  <2> QED BY <2>3, <2>4
<1>11. Grown(scopes, scopes') /\ Len(scopes') >= Len(scopes)
  BY <1>1, <1>2, <1>4, <1>5, GrownTwice
<1> QED BY <1>1, <1>4, <1>6, <1>7, <1>8, <1>9, <1>10, <1>11 DEF ScopesTold

\* The rows as event e leaves them: its own, if it writes, is the last, and it
\* alone can be that of a set().
WritesTold(e) ==
    /\ \A w \in 1..Len(writes) : w \in 1..Len(writes') /\ writes'[w] = writes[w]
    /\ AllOk(writes', nEvents', Len(scopes'))
    /\ Len(writes') \in Nat /\ nEvents \in Nat /\ nEvents' = nEvents + 1
    /\ IsWrite(e) => /\ Len(writes') \in 1..Len(writes')
                     /\ writes'[Len(writes')].names = {e.name}
                     /\ writes'[Len(writes')].event = nEvents'
    /\ \A w \in 1..Len(writes') : w > Len(writes) /\ writes'[w].cmd = "set" =>
          /\ IsWrite(e) /\ w = Len(writes') /\ writes'[w].event = nEvents'
          /\ writes'[w].scope = Due[Own(frames)].id

\* Entry v of x is held by the innermost scope that holds one.
HeldAt(v, x, i) ==
    /\ Holds(Due[i], x) /\ v = Held(Due[i], x)
    /\ \A j \in 1..Len(frames) : j > i => ~Holds(Due[j], x)

\* The row event e read: of the cache, or of the scope that holds it.
ReadTold(e) ==
    LET v == lastRead'.var IN
    /\ v \in 0..Len(writes')
    /\ v # NoRow =>
         /\ Joined(e) /\ e.ref \in Names
         /\ v > Len(writes) => writes'[v].cmd # "set"
         /\ \/ writes'[v].scope = NoRow
            \/ \E i \in 1..Len(frames) : HeldAt(v, e.ref, i) /\ writes'[v].scope = Due[i].id

\* The rows after an event: a write adds the row of its effective command in the scope
\* of its frame, a read is joined to a row of the variable that is in an open scope.
LEMMA EventWrites ==
    ASSUME DisciplineInv, ContainInv, Structure, RowsOk, NEW e, Event2(e), Fits(e), NEW dump,
           Replay(e, dump)
    PROVE  WritesTold(e) /\ ReadTold(e)
<1>t. /\ TypeOK /\ TreeInv /\ outcome = "running" /\ Framed(frames) /\ Pairs(Due, frames)
      /\ Parented(scopes) /\ Kinded(stack, scopes) /\ AllOk(writes, nEvents, Len(scopes))
      /\ Match(stack, writes, cacheVars, envVars) /\ Dated(writes, nEvents)
  BY DEF DisciplineInv, ContainInv, Replay, Structure, RowsOk
<1>d. Due \in Seq(Scope) /\ Len(Due) = Len(frames) /\ Len(frames) \in Nat \ {0}
  BY <1>t, DueIs DEF Framed
<1>n. PICK n, st1, sc1, sc2, ws2, c2, cmd, st3 :
         /\ Stages(e, n, st1, sc1, Due, sc2, ws2, c2, cmd, st3)
         /\ Results(e, dump, Due, sc2, ws2, c2, cmd, st3)
  BY EventConsumed
<1>1. /\ Len(sc1) >= Len(scopes) /\ Len(scopes') >= Len(sc2)
      /\ Opens(e) => Len(sc2) = Len(sc1) + 1
  BY <1>n, <1>t, ScopesGrow
<1>2. Len(sc2) \in Nat /\ Len(sc1) \in Nat /\ Len(sc2) >= Len(sc1)
  <2>1. Len(sc2) \in Nat /\ Len(sc1) \in Nat
    BY <1>n, <1>t, StageTypes
  <2> QED BY <1>1, <2>1, <1>n DEF Stages, OpenedRows
<1>3. /\ ws2 \in Seq(WriteRow) /\ AllOk(ws2, nEvents + 1, Len(sc2)) /\ Len(ws2) >= Len(writes)
      /\ \A w \in 1..Len(writes) : w \in 1..Len(ws2) /\ ws2[w] = writes[w]
      /\ \A w \in 1..Len(ws2) : w > Len(writes) => ws2[w].cmd \in {"synthetic", "cache"}
  BY <1>1, <1>2, <1>n, <1>t, RowsBefore
<1>4. /\ nEvents \in Nat /\ nEvents' = nEvents + 1 /\ Len(ws2) \in Nat /\ Len(writes) \in Nat
      /\ Len(scopes') \in Nat
  <2>1. nEvents \in Nat /\ Len(writes) \in Nat
    BY <1>t, ReplayAssumption, LenProperties DEF TypeOK, ReplayAssumption
  <2>2. Len(scopes') \in Nat
    BY StackAfter
  <2> QED BY <1>3, <1>n, <2>1, <2>2, LenProperties DEF Results
<1>5. ASSUME IsWrite(e) PROVE WritesTold(e)
  <2>1. PICK sc \in 0..Len(sc2) :
           /\ RecordScope(Due, cmd, sc)
           /\ writes' = Append(ws2, [names |-> {e.name}, scope |-> sc, cmd |-> cmd,
                                     event |-> nEvents + 1])
    BY <1>5, <1>n DEF Results
  <2> DEFINE row == [names |-> {e.name}, scope |-> sc, cmd |-> cmd, event |-> nEvents + 1]
  <2>2. cmd \in WriteCmds /\ e.name \in Names
    BY <1>5, <1>n DEF IsWrite, Stages, EffectiveCmd, WriteCmds, Event2, Event
  <2>3. row \in WriteRow
    BY <1>2, <1>4, <2>2 DEF WriteRow
  <2>4. cmd = "set" => sc = Due[Own(frames)].id
    <3> SUFFICES ASSUME cmd = "set" PROVE sc = Due[Own(frames)].id
      OBVIOUS
    <3>1. \A i \in 1..Len(Due) : Target(Due, "set", i) <=> i = Own(frames)
      BY <1>d, <1>t, TargetIs
    <3>2. Own(frames) \in 1..Len(Due)
      BY <1>d, <1>t, OwnIs
    <3> QED BY <2>1, <3>1, <3>2 DEF RecordScope
  <2>5. cmd = "unset_cache" => sc = NoRow
    <3>1. \A i : ~Target(Due, "unset_cache", i)
      BY DEF Target
    <3> QED BY <2>1, <3>1 DEF RecordScope
  <2>6. cmd = "set" => sc # NoRow
    <3>1. Own(frames) \in 1..Len(Due)
      BY <1>d, <1>t, OwnIs
    <3>2. Tree(Due, sc2, nEvents)
      BY <1>n, <1>t, TreeReplay
    <3>3. Due[Own(frames)].id \in 1..Len(sc2)
      BY <3>1, <3>2 DEF Tree
    <3> QED BY <2>4, <3>3 DEF NoRow
  <2>7. RowOk(row, nEvents + 1, Len(sc2))
    BY <1>2, <1>4, <2>1, <2>5, <2>6 DEF RowOk
  <2>8. writes' = Append(ws2, row) /\ row.names = {e.name} /\ row.event = nEvents + 1
        /\ row.cmd = cmd /\ row.scope = sc
    BY <2>1
  <2> HIDE DEF row
  <2>9. AllOk(writes', nEvents', Len(sc2))
    BY <1>3, <1>4, <2>3, <2>7, <2>8, AllOkAppend
  <2>10. /\ Len(writes') = Len(ws2) + 1 /\ writes'[Len(ws2) + 1] = row
         /\ \A w \in 1..Len(ws2) : writes'[w] = ws2[w]
    BY <1>3, <2>3, <2>8, AppendProperties
  <2>11. AllOk(writes', nEvents', Len(scopes'))
    BY <1>1, <1>2, <1>4, <2>9 DEF AllOk, RowOk
  <2>12. ASSUME NEW w \in 1..Len(writes'), w > Len(writes), writes'[w].cmd = "set"
         PROVE  w = Len(writes') /\ writes'[w].scope = Due[Own(frames)].id
    <3>1. w \notin 1..Len(ws2)
      BY <1>3, <2>10, <2>12
    <3>2. w = Len(writes')
      BY <1>4, <2>10, <3>1
    <3> QED BY <2>4, <2>8, <2>10, <2>12, <3>2
  <2>13. \A w \in 1..Len(writes) : w \in 1..Len(writes') /\ writes'[w] = writes[w]
    <3> SUFFICES ASSUME NEW w \in 1..Len(writes)
                 PROVE  w \in 1..Len(writes') /\ writes'[w] = writes[w]
      OBVIOUS
    <3>1. w \in 1..Len(ws2) /\ ws2[w] = writes[w]
      BY <1>3
    <3> QED BY <1>4, <2>10, <3>1
  <2>14. /\ Len(writes') \in Nat /\ Len(writes') \in 1..Len(writes')
         /\ writes'[Len(writes')].names = {e.name} /\ writes'[Len(writes')].event = nEvents'
    BY <1>4, <2>8, <2>10
  <2> HIDE DEF IsWrite
  <2> QED BY <1>4, <1>5, <2>11, <2>12, <2>13, <2>14 DEF WritesTold
<1>6. ASSUME ~IsWrite(e) PROVE WritesTold(e)
  <2>1. writes' = ws2
    BY <1>6, <1>n DEF Results
  <2>2. AllOk(writes', nEvents', Len(scopes'))
    <3>1. AllOk(ws2, nEvents', Len(sc2))
      BY <1>3, <1>4
    <3>2. Len(sc2) \in Nat /\ Len(scopes') \in Nat /\ Len(sc2) <= Len(scopes')
      BY <1>1, <1>2
    <3>3. AllOk(ws2, nEvents', Len(scopes'))
      BY <3>1, <3>2 DEF AllOk, RowOk
    <3> QED BY <2>1, <3>3
  <2>3. \A w \in 1..Len(writes') : ~(w > Len(writes) /\ writes'[w].cmd = "set")
    BY <1>3, <2>1
  <2>4. /\ \A w \in 1..Len(writes) : w \in 1..Len(writes') /\ writes'[w] = writes[w]
        /\ Len(writes') \in Nat
    BY <1>3, <1>4, <2>1
  <2> HIDE DEF IsWrite
  <2> QED BY <1>4, <1>6, <2>2, <2>3, <2>4 DEF WritesTold
<1>7. ReadTold(e)
  <2>1. /\ \A w \in 1..Len(ws2) : w \in 1..Len(writes') /\ writes'[w] = ws2[w]
        /\ Len(writes') \in Nat
    <3>1. CASE IsWrite(e)
      <4>1. PICK row : writes' = Append(ws2, row)
        BY <1>n, <3>1 DEF Results
      <4> QED BY <1>3, <1>4, <4>1
    <3>2. CASE ~IsWrite(e)
      <4>1. writes' = ws2
        BY <1>n, <3>2 DEF Results
      <4> QED BY <1>4, <4>1
    <3> QED BY <3>1, <3>2
  <2>2. Match(Due, ws2, c2, envVars)
    <3> DEFINE ws == Synthesized(e, Len(sc1) + 1)
    <3>1. ws \in Seq(WriteRow) /\ Match(Due, ws, cacheVars, envVars)
      BY <1>n, <1>t, MatchOpened
    <3>2. ws2 = SeededRows(ws) /\ c2 = CacheWithSeeds(ws2)
      BY <1>n DEF Stages
    <3> HIDE DEF ws
    <3> QED BY <1>t, <3>1, <3>2, MatchSeeded
  <2>3. RecordReads(e, Due, c2, Len(ws2))
    BY <1>n DEF Results
  <2>4. CASE Joined(e) /\ e.ref # None
    <3>1. PICK v \in 0..Len(ws2) : Resolves(Due, c2, e.ref, v) /\ lastRead'.var = v
      BY <2>3, <2>4 DEF RecordReads
    <3>2. e.ref \in Names
      BY <2>4 DEF Event2, Event
    <3>3. v # NoRow => \/ Row(ws2, v, e.ref, NoRow)
                       \/ \E i \in 1..Len(frames) : HeldAt(v, e.ref, i) /\ Row(ws2, v, e.ref, Due[i].id)
      <4>1. CASE \E i \in 1..Len(Due) : Holds(Due[i], e.ref)
        <5>1. OnStack(Due, e.ref, v)
          BY <3>1, <4>1 DEF Resolves
        <5>2. v # NoRow => \E i \in 1..Len(frames) : HeldAt(v, e.ref, i)
          BY <1>d, <5>1 DEF OnStack, HeldAt
        <5>3. \A i \in 1..Len(frames) : Row(ws2, Held(Due[i], e.ref), e.ref, Due[i].id)
          BY <1>d, <2>2, <3>2 DEF Match, Held
        <5> QED BY <5>2, <5>3 DEF HeldAt
      <4>2. CASE ~\E i \in 1..Len(Due) : Holds(Due[i], e.ref)
        BY <2>2, <3>1, <3>2, <4>2 DEF Resolves, Match
      <4> QED BY <4>1, <4>2
    <3>4. v # NoRow => v \in 1..Len(ws2)
      BY <3>1 DEF NoRow
    <3>5. v # NoRow /\ v > Len(writes) => writes'[v].cmd # "set"
      BY <1>3, <2>1, <3>4
    <3>6. v \in 0..Len(writes')
      BY <1>4, <2>1, <3>1, <3>4 DEF NoRow
    <3>7. v # NoRow => \/ writes'[v].scope = NoRow
                       \/ \E i \in 1..Len(frames) : HeldAt(v, e.ref, i) /\ writes'[v].scope = Due[i].id
      BY <2>1, <3>3, <3>4 DEF Row
    <3> QED BY <2>4, <3>1, <3>2, <3>5, <3>6, <3>7 DEF ReadTold
  <2>5. CASE ~(Joined(e) /\ e.ref # None)
    <3>1. lastRead'.var = 0
      BY <2>3, <2>5 DEF RecordReads, NoRead, NoRow
    <3> QED BY <2>1, <3>1 DEF ReadTold, NoRow
  <2> QED BY <2>4, <2>5
<1> QED BY <1>5, <1>6, <1>7

\* What an event adds leaves the rows sound.
LEMMA EventRows ==
    ASSUME DisciplineInv, ContainInv, Structure, RowsOk, NEW e, Event2(e), Fits(e), NEW dump,
           Replay(e, dump)
    PROVE  RowsOk'
<1>1. ScopesTold /\ WritesTold(e)
  BY EventScopes, EventWrites DEF RowsOk
<1> QED BY <1>1 DEF ScopesTold, WritesTold, RowsOk

-----------------------------------------------------------------------------
(* What was logged stays true.                                             *)

\* Rows are added behind those there are.
Extended ==
    /\ Grown(scopes, scopes') /\ Parented(scopes') /\ Len(scopes') \in Nat
    /\ writes' \in Seq(WriteRow)
    /\ \A w \in 1..Len(writes) : w \in 1..Len(writes') /\ writes'[w] = writes[w]
    /\ \A k \in 1..Len(log) : k \in 1..Len(log') /\ log'[k] = log[k]

\* Around, of the pass, is Up of the scope rows, before a step and after it.
LEMMA AroundIs ==
    /\ \A s : Around(s) = Up(scopes, s)
    /\ \A s : Around(s)' = Up(scopes', s)
  BY DEF Around, Up

\* The scopes an event was in.
LEMMA ChainStays ==
    ASSUME TypeOK, Parented(scopes), Extended, NEW k \in 1..Len(log),
           log[k].scope \in 1..Len(scopes)
    PROVE  /\ ChainKinds(k)' = ChainKinds(k)
           /\ EnclosingFunctionScopes(k)' = EnclosingFunctionScopes(k)
           /\ TopLevel(k)' <=> TopLevel(k)
<1> DEFINE s == log[k].scope
<1>1. Len(scopes) \in Nat /\ Len(scopes') \in Nat /\ log'[k] = log[k]
  BY LenProperties DEF TypeOK, Extended
<1>2. Up(scopes', s) = Up(scopes, s) /\ Up(scopes, s) \subseteq 1..Len(scopes)
  <2>1. s \in 0..Len(scopes) /\ 1..s \subseteq 1..Len(scopes)
    BY <1>1
  <2>2. Up(scopes, s) \subseteq 1..s
    BY <1>1, <2>1, UpBelow
  <2>3. Up(scopes', s) = Up(scopes, s)
    BY <1>1, <2>1, UpKept DEF Extended
  <2> QED BY <2>1, <2>2, <2>3
<1>3. \A r \in Up(scopes, s) : scopes'[r].kind = scopes[r].kind
  BY <1>2 DEF Extended, Grown
<1>4. /\ Around(s) = Up(scopes, s) /\ Around(s)' = Up(scopes, s)
      /\ log'[k].scope = s /\ log'[k].joined = log[k].joined
  BY <1>1, <1>2, AroundIs
<1>5. ChainKinds(k)' = ChainKinds(k)
  BY <1>3, <1>4 DEF ChainKinds
<1>6. EnclosingFunctionScopes(k)' = EnclosingFunctionScopes(k)
  BY <1>3, <1>4 DEF EnclosingFunctionScopes
<1>7. TopLevel(k)' <=> TopLevel(k)
  BY <1>4, <1>5 DEF TopLevel, EventInSource, EventInTryCompile, EventInFunctionOrMacro
<1> QED BY <1>5, <1>6, <1>7

\* A row says the same of itself later; that nothing wrote a variable since is
\* never true again once it is false.
LEMMA SparedStays ==
    ASSUME TypeOK, RowsOk, LogOk, Extended, NEW w \in 1..Len(writes)
    PROVE  /\ writes[w].event \in 1..Len(log)
           /\ TopSet(w)' <=> TopSet(w)
           /\ \A x : Spared(w, x)' => Spared(w, x)
<1>1. writes'[w] = writes[w] /\ writes[w].event \in 1..Len(log)
  BY DEF Extended, RowsOk, AllOk, RowOk, LogOk
<1>2. PICK k \in 1..Len(log) : k = writes[w].event
  BY <1>1
<1>3. log'[k] = log[k] /\ (TopLevel(k)' <=> TopLevel(k))
  <2>1. log[k].scope \in 1..Len(scopes) /\ Parented(scopes)
    BY DEF LogOk, EntryOk, RowsOk
  <2> QED BY <2>1, ChainStays DEF Extended
<1>4. TopSet(w)' <=> TopSet(w)
  BY <1>1, <1>2, <1>3 DEF TopSet
<1>5. ASSUME NEW x, Spared(w, x)' PROVE Spared(w, x)
  <2>1. \A v \in 1..Len(writes) : v \in 1..Len(writes') /\ writes'[v] = writes[v]
    BY DEF Extended
  <2>2. DOMAIN writes = 1..Len(writes) /\ DOMAIN writes' = 1..Len(writes')
    <3>1. writes \in Seq(WriteRow) /\ writes' \in Seq(WriteRow)
      BY DEF TypeOK, Extended
    <3> QED BY <3>1
  <2>3. \A v \in RowsOf(x) : v \in RowsOf(x)' /\ writes'[v].event = writes[v].event
    BY <2>1, <2>2 DEF RowsOf
  <2>4. x # log'[writes'[w].event].name /\ NotRewritten(x, writes[w].event)'
    BY <1>1, <1>5 DEF Spared
  <2>5. NotRewritten(x, writes[w].event)
    BY <1>1, <2>3, <2>4 DEF NotRewritten
  <2> QED BY <1>1, <1>2, <1>3, <2>4, <2>5 DEF Spared
<1> QED BY <1>1, <1>4, <1>5

\* What is true of an event stays true.
LEMMA EntryStays ==
    ASSUME TypeOK, RowsOk, LogOk, Extended, NEW k \in 1..Len(log)
    PROVE  EntryOk(k)'
<1>r. PICK r : r = log[k].read
  OBVIOUS
<1>1. /\ EntryOk(k) /\ log'[k] = log[k] /\ Len(scopes) \in Nat /\ Len(writes) \in Nat
      /\ Parented(scopes)
  BY LenProperties DEF LogOk, Extended, TypeOK, RowsOk
<1>2. log[k].scope \in 1..Len(scopes) /\ r \in 0..Len(writes)
  BY <1>1, <1>r DEF EntryOk
<1>3. /\ log'[k].scope \in 1..Len(scopes') /\ log'[k].read \in 0..Len(writes') /\ log'[k].read = r
      /\ scopes'[log[k].scope].kind = scopes[log[k].scope].kind
  BY <1>1, <1>2, <1>r, LenProperties DEF Extended, Grown
<1>4. r # NoRow => r \in 1..Len(writes) /\ writes'[r] = writes[r]
  BY <1>1, <1>2 DEF Extended, NoRow
<1>5. ReadTrue(k)'
  BY <1>1, <1>3, <1>4, <1>r DEF EntryOk, ReadTrue
<1>6. LeakTrue(k)'
  BY <1>1, <1>3 DEF EntryOk, LeakTrue
<1>7. EnclosingFunctionScopes(k)' = EnclosingFunctionScopes(k) /\ (TopLevel(k)' <=> TopLevel(k))
  BY <1>1, <1>2, ChainStays
<1>8. RaiseTrue(k)'
  <2>s. PICK s : s = writes[r].scope
    OBVIOUS
  <2>1. r # NoRow => Around(s)' = Around(s) /\ writes'[r].scope = s
    <3> SUFFICES ASSUME r # NoRow PROVE Around(s)' = Around(s) /\ writes'[r].scope = s
      OBVIOUS
    <3>1. s \in 0..Len(scopes) /\ writes'[r] = writes[r]
      BY <1>4, <2>s DEF RowsOk, AllOk, RowOk
    <3>2. Up(scopes', s) = Up(scopes, s)
      BY <1>1, <3>1, UpKept DEF Extended
    <3> QED BY <2>s, <3>1, <3>2, AroundIs
  <2>2. RaiseTrue(k)
    BY <1>1 DEF EntryOk
  <2> QED BY <1>1, <1>3, <1>7, <1>r, <2>1, <2>2, <2>s DEF RaiseTrue
<1>9. AliasTrue(k)'
  <2> SUFFICES ASSUME r # NoRow, TopSet(r)', TopLevel(k)', NEW x \in Names, Spared(r, x)'
               PROVE  log'[k].sees[x] = log'[writes'[r].event].sees[x]
    BY <1>3 DEF AliasTrue
  <2>1. r \in 1..Len(writes) /\ writes'[r] = writes[r]
    BY <1>4
  <2>2. /\ writes[r].event \in 1..Len(log) /\ (TopSet(r)' <=> TopSet(r))
        /\ (Spared(r, x)' => Spared(r, x))
    BY <2>1, SparedStays
  <2>3. AliasTrue(k)
    BY <1>1 DEF EntryOk
  <2>4. log[k].sees[x] = log[writes[r].event].sees[x]
    BY <1>7, <1>r, <2>2, <2>3 DEF AliasTrue
  <2>5. log'[writes'[r].event] = log[writes[r].event]
    BY <2>1, <2>2 DEF Extended
  <2> QED BY <1>1, <2>4, <2>5
<1> QED BY <1>3, <1>5, <1>6, <1>8, <1>9 DEF EntryOk

-----------------------------------------------------------------------------
(* What an event logs is true.                                             *)

\* What the caller's scope shows is a value seen from the frame above.
LEMMA OuterIs ==
    ASSUME NEW fs, Framed(fs), NEW x \in Names
    PROVE  /\ Outer(fs, x) \in Nat
           /\ ~AtTop(fs) => Outer(fs, x) = Normal(fs, Above(fs), x) /\ Above(fs) \in 1..Len(fs)
<1>1. CASE AtTop(fs)
  BY <1>1 DEF Outer, NoRow
<1>2. CASE ~AtTop(fs)
  <2>1. Outer(fs, x) = Normal(fs, Above(fs), x)
    BY <1>2 DEF Outer, Above
  <2>2. Above(fs) \in 1..Len(fs)
    <3>1. Above(fs) \in WorldStart(fs)..(Own(fs) - 1)
      BY <1>2, AboveIs
    <3>2. WorldStart(fs) \in 1..Own(fs) /\ Own(fs) \in 1..Len(fs)
      BY WorldStartIs, OwnIs
    <3> QED BY <3>1, <3>2
  <2> QED BY <2>1, <2>2, NormalIs
<1> QED BY <1>1, <1>2

\* What CMake reads outside of macros: the normal variable, else the cache.
LEMMA ReadsIs ==
    ASSUME NEW fs, Framed(fs), NEW c \in [Names -> Nat], NEW x \in Names
    PROVE  /\ Reads(fs, c, x) \in Nat
           /\ fs[Executing(fs)].kind # "macro" =>
                Reads(fs, c, x) = IF Normal(fs, Len(fs), x) # NoRow
                                  THEN Normal(fs, Len(fs), x) ELSE c[x]
<1>1. Executing(fs) \in 1..Len(fs) /\ Len(fs) \in 1..Len(fs)
  BY ExecutingIs DEF Framed
<1>2. fs[Executing(fs)].par[x] \in Nat /\ Normal(fs, Len(fs), x) \in Nat
  BY <1>1, FrameFacts, NormalIs
<1>3. fs[Executing(fs)].kind # "macro" => fs[Executing(fs)].par[x] = 0
  BY <1>1 DEF Framed, NoTab, Inherit
<1> QED BY <1>2, <1>3 DEF Reads, NoRow

\* Entry `row` is that of event e, with the innermost scope it was in.
IsEntry(row, e) ==
    /\ row.cmd = e.cmd /\ row.name = e.name /\ row.ref = e.ref /\ row.joined = Joined(e)
    /\ row.scope = Due[Len(frames)].id /\ row.read = lastRead'.var
    /\ \A x \in Names : /\ row.sees[x] = Reads(frames, SeededCache(1), x)
                        /\ row.outer[x] = Outer(frames, x)
                        /\ x \in row.vague <=> InTry(frames) \/ Approximated(frames, x)
    /\ row.inside <=> Own(frames) >= Executing(frames)

\* What an event logs, field by field.
LEMMA Entered ==
    ASSUME DisciplineInv, ContainInv, Mirrors, RowsOk, NEW e, Event2(e), Fits(e), Traced(e),
           project.passes, log \in Seq(LogRow), Len(log) = nEvents
    PROVE  /\ log' \in Seq(LogRow) /\ Len(log') = nEvents' /\ nEvents' = nEvents + 1
           /\ nEvents \in Nat
           /\ \A k \in 1..Len(log) : k \in 1..Len(log') /\ log'[k] = log[k]
           /\ nEvents' \in 1..Len(log')
           /\ IsEntry(log'[nEvents'], e)
<1>s. Structure /\ Framed(frames) /\ SeededCache(1) \in [Names -> Nat]
  BY DEF Mirrors, Structure, Typed, SeededCache
<1>r. Replay(e, Dumped(e)) /\ log' = Append(log, Logged(e, SeededCache(1)))
  BY DEF Traced, Dumped
<1>1. ScopesTold /\ WritesTold(e) /\ ReadTold(e)
  BY <1>r, <1>s, EventScopes, EventWrites DEF RowsOk
<1> DEFINE sees  == [x \in Names |-> Reads(frames, SeededCache(1), x)]
           outer == [x \in Names |-> Outer(frames, x)]
           vague == {x \in Names : InTry(frames) \/ Approximated(frames, x)}
           scope == Due[Len(frames)].id
           inside == Own(frames) >= Executing(frames)
<1>2. sees \in [Names -> Nat] /\ outer \in [Names -> Nat] /\ vague \in SUBSET Names
  BY <1>s, ReadsIs, OuterIs
<1>3. scope \in Nat /\ lastRead'.var \in Nat
  <2>1. Len(frames) \in 1..Len(frames)
    BY <1>s DEF Framed
  <2>2. Due[Len(frames)].id \in 1..Len(scopes')
    BY <1>1, <2>1 DEF ScopesTold
  <2> QED BY <1>1, <2>2 DEF ReadTold
<1>4. /\ e.cmd \in BuiltinCmds \cup Procs /\ e.name \in Names \cup {None}
      /\ e.ref \in Names \cup {None} /\ Joined(e) \in BOOLEAN /\ inside \in BOOLEAN
  BY DEF Event2, Event, Joined
<1>5. stack'[IF e.cmd = "block" THEN Len(stack') - 1 ELSE Len(stack')].id = scope
  BY <1>r, <1>s, EventScopes DEF RowsOk
<1> HIDE DEF sees, outer, vague, scope, inside
<1>6. PICK row : row = [cmd |-> e.cmd, name |-> e.name, ref |-> e.ref, joined |-> Joined(e),
                        scope |-> scope, read |-> lastRead'.var, sees |-> sees,
                        outer |-> outer, inside |-> inside, vague |-> vague]
  OBVIOUS
<1>7. row = Logged(e, SeededCache(1))
  BY <1>5, <1>6 DEF Logged, sees, outer, inside, vague
<1>8. row \in LogRow /\ row.scope = scope
  BY <1>2, <1>3, <1>4, <1>6 DEF LogRow
<1>9. IsEntry(row, e)
  BY <1>6 DEF IsEntry, sees, outer, inside, vague, scope
<1>10. nEvents \in Nat /\ nEvents' = nEvents + 1
  BY <1>1 DEF WritesTold
<1>11. log' = Append(log, row)
  BY <1>r, <1>7
<1>12. /\ log' \in Seq(LogRow) /\ Len(log') = Len(log) + 1 /\ log'[Len(log) + 1] = row
       /\ \A k \in 1..Len(log) : log'[k] = log[k]
  BY <1>8, <1>11, AppendProperties
<1> QED BY <1>9, <1>10, <1>12

\* The read recorded is CMake's.
LEMMA ReadEntry ==
    ASSUME Framed(frames), NEW e, Event2(e), Traced(e), ReadsResolve', NEW k, IsEntry(log'[k], e)
    PROVE  ReadTrue(k)'
<1> SUFFICES ASSUME e.ref # None, Joined(e), e.ref \notin log'[k].vague
             PROVE  \/ log'[k].sees[e.ref] = lastRead'.var
                    \/ log'[k].sees[e.ref] = NoRow /\ writes'[lastRead'.var].cmd = "unset_cache"
  BY DEF ReadTrue, IsEntry
<1> DEFINE x == e.ref
<1>1. x \in Names
  BY DEF Event2, Event
<1>2. /\ truth'.name = x /\ truth'.var = Reads(frames, SeededCache(1), x)
      /\ truth'.covered <=> InTry(frames) \/ Approximated(frames, x)
  BY DEF Traced
<1>3. log'[k].sees[x] = truth'.var /\ ~truth'.covered
  BY <1>1, <1>2 DEF IsEntry
<1> QED BY <1>2, <1>3 DEF ReadsResolve

\* While a macro's text executes, what it writes to is further out.
LEMMA LeakEntry ==
    ASSUME Framed(frames), ScopesTold, NEW e, NEW k, IsEntry(log'[k], e)
    PROVE  LeakTrue(k)'
<1> SUFFICES ASSUME scopes'[Due[Len(frames)].id].kind = "macro"
             PROVE  ~(Own(frames) >= Executing(frames))
  BY DEF LeakTrue, IsEntry
<1>1. Len(frames) \in 1..Len(frames)
  BY DEF Framed
<1>2. frames[Len(frames)].kind = "macro"
  BY <1>1 DEF ScopesTold
<1>3. Executing(frames) = Len(frames)
  BY <1>1, <1>2, ExecutingIs
<1>4. Own(frames) \in 1..Len(frames) /\ Own(frames) # Len(frames)
  BY <1>2, OwnIs DEF Opaque
<1> QED BY <1>3, <1>4

\* Where nothing misreads or approximates x, and its innermost holder is out of
\* a function that is open, the frame around the current one sees that value.
LEMMA SeenOutside ==
    ASSUME NEW st \in Seq(Scope), NEW fs, Len(st) = Len(fs), Framed(fs), Pairs(st, fs),
           Data(st, fs), ~InTry(fs), ~AtTop(fs), NEW x \in Names, ~Approximated(fs, x),
           ~MacroArgMisread(fs, x), NEW i \in 1..Len(fs), NEW m \in 1..Len(fs), i < m,
           fs[m].kind = "function", Holds(st[i], x), \A j \in 1..Len(fs) : j > i => ~Holds(st[j], x)
    PROVE  Normal(fs, Above(fs), x) = Held(st[i], x)
<1> DEFINE a == Above(fs)
           h == Holder(fs, a, x)
<1>1. \A j \in 1..Len(fs) : /\ st[j] \in Scope /\ fs[j] \in FrameSet /\ OutOfTry(fs, j)
                            /\ (st[j].transparent <=> ~Opaque(fs[j])) /\ st[j].params = fs[j].par
                            /\ DataAt(st, fs, j, x)
  <2>1. \A j \in 1..Len(fs) : st[j] \in Scope /\ fs[j] \in FrameSet
    BY ElementOfSeq DEF Framed
  <2>2. \A j \in 1..Len(fs) : OutOfTry(fs, j)
    <3>1. DOMAIN fs = 1..Len(fs)
      BY DEF Framed
    <3> QED BY <3>1 DEF OutOfTry, InTry, Framed
  <2> QED BY <2>1, <2>2 DEF Pairs, Pair, Data
<1>2. ASSUME NEW j \in 1..Len(fs), j > i PROVE ~Wrote(fs, j, x)
  <2>1. ~Holds(st[j], x)
    BY <1>2
  <2> QED BY <1>1, <2>1 DEF Holds, Wrote, DataAt
<1>3. /\ Executing(fs) \in 1..Len(fs) /\ i < Executing(fs)
      /\ Own(fs) \in 1..Len(fs) /\ i < Own(fs) /\ Len(fs) \in Nat
  <2>1. Executing(fs) >= m
    BY ExecutingIs DEF Framed
  <2>2. Own(fs) >= m
    BY OwnIs DEF Framed, Opaque
  <2> QED BY <2>1, <2>2, ExecutingIs, OwnIs DEF Framed
<1>4. st[i].params[x] = NoRow
  <2> SUFFICES ASSUME fs[i].par[x] # NoRow PROVE FALSE
    BY <1>1
  <2>1. Reaches(fs, i, x)
    BY <1>2, <1>3 DEF Reaches
  <2>2. DOMAIN fs = 1..Len(fs)
    BY DEF Framed
  <2> QED BY <1>3, <2>1, <2>2 DEF MacroArgMisread, NoRow
<1>5. /\ Opaque(fs[i]) /\ st[i].vars[x] # NoRow /\ Held(st[i], x) = st[i].vars[x]
      /\ st[i].vars[x] \in Nat /\ fs[i].tab[x] = st[i].vars[x]
  <2>1. Opaque(fs[i]) /\ st[i].vars[x] # NoRow /\ Held(st[i], x) = st[i].vars[x]
    BY <1>1, <1>4 DEF Holds, Held
  <2>2. st[i].vars[x] \in Nat
    BY <1>1 DEF Scope
  <2>3. DataAt(st, fs, i, x) /\ OutOfTry(fs, i)
    BY <1>1
  <2> QED BY <2>1, <2>2, <2>3 DEF DataAt
<1>6. a \in 1..Len(fs) /\ i <= a /\ WorldStart(fs) = 1
  <2>1. /\ a \in WorldStart(fs)..(Own(fs) - 1) /\ WorldStart(fs) = 1
        /\ \A j \in 1..Len(fs) : a < j /\ j < Own(fs) => ~Opaque(fs[j])
    BY AboveIs, WorldStartIs
  <2>2. ~(a < i)
    BY <1>3, <1>5, <2>1
  <2> QED BY <1>3, <2>1, <2>2
<1>7. /\ h \in 0..a
      /\ h # 0 => Opaque(fs[h]) /\ fs[h].tab[x] # Inherit
      /\ \A j \in 1..a : j > h => ~(Opaque(fs[j]) /\ fs[j].tab[x] # Inherit)
      /\ Normal(fs, a, x) = IF h = 0 \/ fs[h].tab[x] = Hidden THEN 0 ELSE fs[h].tab[x]
  <2> HIDE DEF a, h
  <2>1. a \in 1..Len(fs)
    BY <1>6
  <2>2. /\ h \in 0..a
        /\ h # 0 => Opaque(fs[h]) /\ fs[h].tab[x] # Inherit
        /\ \A j \in WorldStart(fs)..a : j > h => ~(Opaque(fs[j]) /\ fs[j].tab[x] # Inherit)
        /\ Normal(fs, a, x) = IF h = 0 \/ fs[h].tab[x] = Hidden THEN 0 ELSE fs[h].tab[x]
    BY <2>1, NormalIs DEF h
  <2> QED BY <1>6, <2>2
<1> HIDE DEF a, h
<1>8. h >= i /\ h \in 1..Len(fs)
  <2>1. i \in 1..a /\ fs[i].tab[x] # Inherit
    BY <1>5, <1>6 DEF Inherit, NoRow
  <2> QED BY <1>5, <1>6, <1>7, <2>1
<1>9. CASE h = i
  <2>1. fs[i].tab[x] # Hidden
    BY <1>5 DEF Hidden
  <2> QED BY <1>5, <1>7, <1>8, <1>9, <2>1 DEF a
<1>10. CASE h > i
  <2>1. Opaque(fs[h]) /\ fs[h].tab[x] # Inherit /\ st[h].vars[x] = NoRow
    <3>1. ~Holds(st[h], x)
      BY <1>8, <1>10
    <3> QED BY <1>1, <1>7, <1>8, <3>1 DEF Holds
  <2>2. ~Vague(fs, h, x)
    <3> SUFFICES ASSUME Vague(fs, h, x) PROVE FALSE
      OBVIOUS
    <3>1. PICK r \in 1..h : x \in fs[r].raised /\ \A j \in 1..h : j > r => ~Wrote(fs, j, x)
      BY DEF Vague
    <3>2. Reaches(fs, r, x)
      BY <1>2, <1>3, <1>8, <1>10, <3>1 DEF Reaches
    <3>3. r \in DOMAIN fs
      BY <1>3, <1>8, <3>1 DEF Framed
    <3> QED BY <3>1, <3>2, <3>3 DEF Approximated
  <2>3. Holding(st, h - 1, x, Copied(fs[h].tab[x]))
    <3>1. DataAt(st, fs, h, x) /\ OutOfTry(fs, h)
      BY <1>1, <1>8
    <3> QED BY <2>1, <2>2, <3>1 DEF DataAt
  <2>4. Copied(fs[h].tab[x]) = st[i].vars[x]
    <3>1. Binds(st, i, x) /\ i \in 1..(h - 1)
      BY <1>1, <1>5, <1>8, <1>10 DEF Binds
    <3>2. \A j \in 1..(h - 1) : j > i => ~Binds(st, j, x)
      BY <1>8 DEF Binds, Holds
    <3> QED BY <2>3, <3>1, <3>2 DEF Holding
  <2>5. fs[h].tab[x] # Hidden /\ fs[h].tab[x] = st[i].vars[x]
    BY <1>5, <2>4 DEF Copied
  <2> QED BY <1>5, <1>7, <1>8, <2>5 DEF a
<1> QED BY <1>6, <1>8, <1>9, <1>10

\* The scopes around the event are those of the frames.
LEMMA ChainOf ==
    ASSUME Framed(frames), ScopesTold, NEW e, NEW k, IsEntry(log'[k], e)
    PROVE  /\ log'[k].scope \in 1..Len(scopes')
           /\ ChainKinds(k)' = {frames[j].kind : j \in 1..Len(frames)}
           /\ \A s : s \in EnclosingFunctionScopes(k)' <=>
                        \E j \in 1..Len(frames) : s = Due[j].id /\ frames[j].kind = "function"
<1> DEFINE n == Len(frames)
           d == Due[n].id
<1>1. n \in 1..n
  BY DEF Framed
<1>2. Up(scopes', d) = {Due[j].id : j \in 1..n} /\ d \in 1..Len(scopes')
  BY <1>1 DEF ScopesTold
<1>3. \A j \in 1..n : scopes'[Due[j].id].kind = frames[j].kind
  BY DEF ScopesTold
<1>4. Around(d)' = Up(scopes', d') /\ log'[k].scope = d
  BY AroundIs DEF IsEntry
<1>5. PICK s : s = d
  OBVIOUS
<1>6. Around(s)' = {Due[j].id : j \in 1..n} /\ log'[k].scope = s
  BY <1>2, <1>4, <1>5, AroundIs
<1>7. ChainKinds(k)' = {frames[j].kind : j \in 1..n}
  BY <1>3, <1>6 DEF ChainKinds
<1>8. \A r : r \in EnclosingFunctionScopes(k)' <=>
               \E j \in 1..n : r = Due[j].id /\ frames[j].kind = "function"
  BY <1>3, <1>6 DEF EnclosingFunctionScopes
<1> QED BY <1>2, <1>4, <1>7, <1>8

\* set(V ${V} PARENT_SCOPE) that read a row from outside its function: the value is
\* the caller's.
LEMMA RaiseEntry ==
    ASSUME Irregular = {}, DisciplineInv, Mirrors, NEW e, Event2(e), Traced(e), ReadsResolve',
           ScopesTold, WritesTold(e), ReadTold(e), e.cmd = "parent_scope" => ~AtTop(frames),
           NEW k, IsEntry(log'[k], e)
    PROVE  RaiseTrue(k)'
<1>s. /\ TypeOK /\ Structure /\ Data(Due, frames) /\ Framed(frames) /\ Pairs(Due, frames)
      /\ Due \in Seq(Scope) /\ Len(Due) = Len(frames)
  BY DueIs DEF DisciplineInv, Mirrors, Structure
<1>r. PICK r, x, from : r = lastRead'.var /\ x = e.ref /\ from = writes'[r].scope
  OBVIOUS
<1> SUFFICES ASSUME e.cmd = "parent_scope", e.name = x, Joined(e), x \notin log'[k].vague,
                    r # NoRow, from # NoRow,
                    NEW s, s \in EnclosingFunctionScopes(k)', s \notin Around(from)'
             PROVE  log'[k].sees[x] = log'[k].outer[x]
  BY <1>r DEF RaiseTrue, IsEntry
<1>1. x \in Names /\ r \in 1..Len(writes')
  BY <1>r DEF ReadTold, NoRow
<1>2. x # None /\ ~MacroArgMisread(frames, x)
  BY <1>1, <1>r, ReplayAssumption DEF Traced, ReplayAssumption
<1>3. ~InTry(frames) /\ ~Approximated(frames, x)
  BY <1>1 DEF IsEntry
<1>4. PICK i \in 1..Len(frames) : HeldAt(r, x, i) /\ from = Due[i].id
  BY <1>1, <1>r DEF ReadTold, NoRow
<1>5. PICK m \in 1..Len(frames) : s = Due[m].id /\ frames[m].kind = "function"
  <2>1. \A t : t \in EnclosingFunctionScopes(k)' <=>
                  \E j \in 1..Len(frames) : t = Due[j].id /\ frames[j].kind = "function"
    BY <1>s, ChainOf
  <2> QED BY <2>1
<1>6. i < m
  <2>1. Around(from)' = {Due[j].id : j \in 1..i}
    BY <1>4, AroundIs DEF ScopesTold
  <2>2. m \notin 1..i /\ Len(frames) \in Nat
    BY <1>5, <1>s, <2>1 DEF Framed
  <2> QED BY <2>2
<1>7. ~AtTop(frames)
  OBVIOUS
<1>8. Normal(frames, Above(frames), x) = r
  <2>1. Holds(Due[i], x) /\ r = Held(Due[i], x) /\ \A j \in 1..Len(frames) : j > i => ~Holds(Due[j], x)
    BY <1>4 DEF HeldAt
  <2> QED BY <1>1, <1>2, <1>3, <1>5, <1>6, <1>7, <1>s, <2>1, SeenOutside
<1>9. log'[k].outer[x] = r
  <2>1. Outer(frames, x) = Normal(frames, Above(frames), x)
    BY <1>1, <1>7, <1>s, OuterIs
  <2> QED BY <1>1, <1>8, <2>1 DEF IsEntry
<1>10. log'[k].sees[x] = r
  <2>1. ReadTrue(k)'
    BY <1>s, ReadEntry
  <2>2. writes'[r].cmd # "unset_cache"
    BY <1>1, <1>r DEF WritesTold, AllOk, RowOk
  <2> QED BY <1>2, <1>r, <2>1, <2>2 DEF ReadTrue, IsEntry
<1> QED BY <1>9, <1>10

-----------------------------------------------------------------------------
(* What a variable is, seen from a frame.                                  *)

\* Frame f has an entry of x.
Has(f, x) == Opaque(f) /\ f.tab[x] # Inherit

\* The innermost entry of x up to frame k is at h, 0 for none.
Source(fs, k, x, h) ==
    /\ h \in 0..k /\ (h # 0 => Has(fs[h], x))
    /\ \A j \in 1..k : j > h => ~Has(fs[j], x)

\* What an entry says: the row, or 0 if the variable is unset in it.
Shown(f, x) == IF f.tab[x] = Hidden THEN 0 ELSE f.tab[x]

\* Seen from a frame with no procedure around it, x is what its innermost entry says.
LEMMA SeenIs ==
    ASSUME NEW fs, Framed(fs), NEW k \in 1..Len(fs), Plain(fs, k), NEW x \in Names
    PROVE  \E h : Source(fs, k, x, h) /\ SeenAt(fs, k, x) = IF h = 0 THEN 0 ELSE Shown(fs[h], x)
<1> DEFINE gs == SubSeq(fs, 1, k)
           h  == Holder(gs, k, x)
<1>1. Framed(gs) /\ Len(gs) = k /\ \A i \in 1..k : gs[i] = fs[i]
  BY FramedPrefix
<1>2. k \in 1..Len(gs) /\ k \in Nat
  BY <1>1 DEF Framed
<1> HIDE DEF gs
<1>3. WorldStart(gs) = 1
  <2>1. DOMAIN gs = 1..k
    BY <1>1 DEF Framed
  <2>2. ~InTry(gs)
    BY <1>1, <2>1 DEF InTry, Plain
  <2> QED BY <1>1, <2>2, WorldStartIs
<1> HIDE DEF h
<1>4. /\ h \in 0..k
      /\ h # 0 => Opaque(gs[h]) /\ gs[h].tab[x] # Inherit
      /\ \A j \in WorldStart(gs)..k : j > h => ~(Opaque(gs[j]) /\ gs[j].tab[x] # Inherit)
      /\ Normal(gs, k, x) = IF h = 0 \/ gs[h].tab[x] = Hidden THEN 0 ELSE gs[h].tab[x]
  BY <1>1, <1>2, NormalIs DEF h
<1>5. Source(fs, k, x, h)
  BY <1>1, <1>2, <1>3, <1>4 DEF Source, Has
<1>6. SeenAt(fs, k, x) = Normal(gs, k, x)
  BY DEF SeenAt, gs
<1>7. SeenAt(fs, k, x) = IF h = 0 THEN 0 ELSE Shown(fs[h], x)
  BY <1>1, <1>2, <1>4, <1>6 DEF Shown
<1> QED BY <1>5, <1>7

\* There is one innermost entry.
LEMMA SourceOnce ==
    ASSUME NEW fs, NEW k \in Nat, NEW x, NEW h, NEW g, Source(fs, k, x, h), Source(fs, k, x, g)
    PROVE  h = g
<1>1. h \in 0..k /\ g \in 0..k
  BY DEF Source
<1>2. ~(h > g) /\ ~(g > h)
  BY <1>1 DEF Source
<1> QED BY <1>1, <1>2

\* Where frames i + 1 to k have no entry, x is what it is from frame i.
LEMMA SeenOver ==
    ASSUME NEW fs, Framed(fs), NEW i \in 1..Len(fs), NEW k \in 1..Len(fs), i <= k, Plain(fs, k),
           NEW x \in Names, \A j \in 1..k : j > i => ~Has(fs[j], x)
    PROVE  Plain(fs, i) /\ SeenAt(fs, k, x) = SeenAt(fs, i, x)
<1>1. Plain(fs, i) /\ Len(fs) \in Nat
  BY DEF Plain, Framed
<1>2. PICK h : Source(fs, i, x, h) /\ SeenAt(fs, i, x) = IF h = 0 THEN 0 ELSE Shown(fs[h], x)
  BY <1>1, SeenIs
<1>3. PICK g : Source(fs, k, x, g) /\ SeenAt(fs, k, x) = IF g = 0 THEN 0 ELSE Shown(fs[g], x)
  BY SeenIs
<1>4. Source(fs, k, x, h)
  BY <1>1, <1>2 DEF Source
<1>5. g = h
  BY <1>1, <1>3, <1>4, SourceOnce
<1> QED BY <1>1, <1>2, <1>3, <1>5

\* Frame k's own entry is what is seen from it.
LEMMA SeenHere ==
    ASSUME NEW fs, Framed(fs), NEW k \in 1..Len(fs), Plain(fs, k), NEW x \in Names, Has(fs[k], x)
    PROVE  SeenAt(fs, k, x) = Shown(fs[k], x)
<1>1. k \in Nat \ {0}
  BY DEF Framed
<1>2. PICK g : Source(fs, k, x, g) /\ SeenAt(fs, k, x) = IF g = 0 THEN 0 ELSE Shown(fs[g], x)
  BY SeenIs
<1>3. Source(fs, k, x, k)
  BY <1>1 DEF Source
<1>4. g = k
  BY <1>1, <1>2, <1>3, SourceOnce
<1> QED BY <1>1, <1>2, <1>4

\* Only the entries of x up to frame k matter.
LEMMA SeenSame ==
    ASSUME NEW fs, NEW gs, Framed(fs), Framed(gs), NEW k \in 1..Len(fs), k \in 1..Len(gs),
           Plain(fs, k) \/ Plain(gs, k), NEW x \in Names,
           \A j \in 1..k : /\ gs[j].kind = fs[j].kind /\ gs[j].node = fs[j].node
                           /\ gs[j].tab[x] = fs[j].tab[x]
    PROVE  Plain(fs, k) /\ Plain(gs, k) /\ SeenAt(gs, k, x) = SeenAt(fs, k, x)
<1>1. Plain(fs, k) /\ Plain(gs, k) /\ k \in Nat
  <2>1. \A j \in 1..k : gs[j].kind = fs[j].kind
    OBVIOUS
  <2>2. Plain(fs, k) <=> Plain(gs, k)
    BY <2>1 DEF Plain
  <2>3. k \in Nat
    BY DEF Framed
  <2> QED BY <2>2, <2>3
<1>2. PICK h : Source(fs, k, x, h) /\ SeenAt(fs, k, x) = IF h = 0 THEN 0 ELSE Shown(fs[h], x)
  BY <1>1, SeenIs
<1>3. PICK g : Source(gs, k, x, g) /\ SeenAt(gs, k, x) = IF g = 0 THEN 0 ELSE Shown(gs[g], x)
  BY <1>1, SeenIs
<1>4. \A j \in 1..k : (Has(gs[j], x) <=> Has(fs[j], x)) /\ Shown(gs[j], x) = Shown(fs[j], x)
  BY DEF Has, Opaque, Shown
<1>5. Source(gs, k, x, h)
  BY <1>1, <1>2, <1>4 DEF Source
<1>6. g = h /\ h \in 0..k
  BY <1>1, <1>2, <1>3, <1>5, SourceOnce DEF Source
<1> QED BY <1>1, <1>2, <1>3, <1>4, <1>6

\* Seen from the last frame.
LEMMA SeenTop ==
    ASSUME NEW fs, Framed(fs), NEW x
    PROVE  SeenAt(fs, Len(fs), x) = Normal(fs, Len(fs), x)
<1>1. fs \in Seq(FrameSet) /\ Len(fs) \in Nat
  BY DEF Framed
<1>2. SubSeq(fs, 1, Len(fs)) = fs
  BY <1>1
<1> QED BY <1>2 DEF SeenAt

\* The frames further in than the one that owns the scope hold nothing.
LEMMA SeenLocal ==
    ASSUME NEW fs, Framed(fs), NEW k \in 1..Len(fs), Own(fs) <= k, Plain(fs, Len(fs)),
           NEW x \in Names
    PROVE  SeenAt(fs, k, x) = Normal(fs, Len(fs), x)
<1>1. /\ Own(fs) \in 1..Len(fs) /\ Len(fs) \in Nat /\ Len(fs) \in 1..Len(fs)
      /\ \A j \in 1..Len(fs) : j > Own(fs) => ~Has(fs[j], x)
  BY OwnIs DEF Has, Framed
<1>2. k <= Len(fs) /\ \A j \in 1..Len(fs) : j > k => ~Has(fs[j], x)
  BY <1>1
<1>3. SeenAt(fs, Len(fs), x) = SeenAt(fs, k, x)
  BY <1>1, <1>2, SeenOver
<1> QED BY <1>3, SeenTop

-----------------------------------------------------------------------------
(* A variable nobody writes keeps its value.                               *)

\* What CMake read through a variable set at the top level is what the set() saw
\* of the others.
LEMMA AliasEntry ==
    ASSUME TypeOK, RowsOk, LogOk, Framed(frames), cache \in [Names -> Nat], Extended, ScopesTold,
           \A w \in 1..Len(writes) : Unchanged(w), NEW e, WritesTold(e), ReadTold(e),
           NEW k, IsEntry(log'[k], e)
    PROVE  AliasTrue(k)'
<1>r. PICK r : r = lastRead'.var
  OBVIOUS
<1>1. log'[k].read = r /\ Len(writes) \in Nat
  BY <1>r, LenProperties DEF IsEntry, TypeOK
<1> SUFFICES ASSUME r # NoRow, TopSet(r)', TopLevel(k)', NEW x \in Names, Spared(r, x)'
             PROVE  log'[k].sees[x] = log'[writes'[r].event].sees[x]
  BY <1>1 DEF AliasTrue
<1>2. r \in 1..Len(writes) /\ writes'[r] = writes[r]
  <2>1. r \in 1..Len(writes') /\ Len(writes') \in Nat
    BY <1>r DEF ReadTold, WritesTold, NoRow
  <2>2. writes'[r].cmd = "set"
    BY DEF TopSet
  <2>3. ~(r > Len(writes))
    BY <1>r, <2>2 DEF ReadTold
  <2> QED BY <1>1, <2>1, <2>3 DEF Extended
<1>3. writes[r].event \in 1..Len(log) /\ TopSet(r) /\ Spared(r, x)
  BY <1>2, SparedStays
<1>4. PICK i \in 1..Len(frames) : writes[r].scope = Due[i].id
  <2>1. writes[r].scope # NoRow
    BY <1>2, <1>3 DEF TopSet, RowsOk, AllOk, RowOk
  <2> QED BY <1>2, <1>r, <2>1 DEF ReadTold
<1>5. Plain(frames, Len(frames))
  <2>1. ~EventInTryCompile(k)' /\ ~EventInFunctionOrMacro(k)'
    BY DEF TopLevel
  <2>2. ChainKinds(k)' = {frames[j].kind : j \in 1..Len(frames)}
    BY ChainOf
  <2>3. \A j \in 1..Len(frames) : frames[j].kind \in ChainKinds(k)'
    BY <2>2
  <2> QED BY <2>1, <2>3 DEF EventInTryCompile, EventInFunctionOrMacro, Plain
<1>6. Len(frames) \in 1..Len(frames) /\ i <= Len(frames)
  BY DEF Framed
<1>7. log[writes[r].event].sees[x] =
         IF SeenAt(frames, Len(frames), x) # NoRow THEN SeenAt(frames, Len(frames), x) ELSE cache[x]
  BY <1>2, <1>3, <1>4, <1>5, <1>6 DEF Unchanged
<1>8. SeededCache(1) \in [Names -> Nat] /\ SeededCache(1)[x] = cache[x]
  <2>1. nEvents > 0
    BY <1>3 DEF LogOk
  <2> QED BY <2>1 DEF SeededCache
<1>9. log'[k].sees[x] = IF Normal(frames, Len(frames), x) # NoRow
                        THEN Normal(frames, Len(frames), x) ELSE cache[x]
  <2>1. Executing(frames) \in 1..Len(frames)
    BY ExecutingIs
  <2>2. frames[Executing(frames)].kind # "macro"
    BY <1>5, <2>1 DEF Plain
  <2>3. log'[k].sees[x] = Reads(frames, SeededCache(1), x)
    BY DEF IsEntry
  <2> QED BY <1>8, <2>2, <2>3, ReadsIs
<1>10. log'[writes'[r].event] = log[writes[r].event]
  BY <1>2, <1>3 DEF Extended
<1> QED BY <1>7, <1>9, <1>10, SeenTop

\* It keeps it where every frame the set() is around sees what one of before did.
LEMMA UnchangedStays ==
    ASSUME TypeOK, RowsOk, LogOk, Extended, NEW w \in 1..Len(writes), Unchanged(w),
           \A x \in Names : Spared(w, x)' => cache'[x] = cache[x],
           \A x \in Names : \A i, k \in 1..Len(frames') :
              /\ i <= k /\ Due'[i].id = writes[w].scope /\ Plain(frames', k) /\ Spared(w, x)'
              => \E m \in 1..Len(frames) :
                    /\ i \in 1..Len(frames) /\ i <= m /\ Due[i].id = writes[w].scope
                    /\ Plain(frames, m) /\ SeenAt(frames', k, x) = SeenAt(frames, m, x)
    PROVE  Unchanged(w)'
<1>1. /\ writes[w].event \in 1..Len(log) /\ (TopSet(w)' <=> TopSet(w)) /\ writes'[w] = writes[w]
      /\ \A x : Spared(w, x)' => Spared(w, x)
  BY SparedStays DEF Extended
<1>2. log'[writes'[w].event] = log[writes[w].event]
  BY <1>1 DEF Extended
<1> SUFFICES ASSUME TopSet(w)', NEW x \in Names, Spared(w, x)',
                    NEW i \in 1..Len(frames'), NEW k \in 1..Len(frames'),
                    i <= k, Due'[i].id = writes'[w].scope, Plain(frames', k)
             PROVE  log'[writes'[w].event].sees[x] =
                      IF SeenAt(frames', k, x) # NoRow THEN SeenAt(frames', k, x) ELSE cache'[x]
  BY DEF Unchanged
<1>3. PICK m \in 1..Len(frames) :
         /\ i \in 1..Len(frames) /\ i <= m /\ Due[i].id = writes[w].scope
         /\ Plain(frames, m) /\ SeenAt(frames', k, x) = SeenAt(frames, m, x)
  BY <1>1
<1>4. log[writes[w].event].sees[x] =
         IF SeenAt(frames, m, x) # NoRow THEN SeenAt(frames, m, x) ELSE cache[x]
  BY <1>1, <1>3 DEF Unchanged
<1> QED BY <1>2, <1>3, <1>4

\* The cache entry a spared variable has is not written either.
LEMMA CacheStays ==
    ASSUME NEW cmd, NEW x \in Names, NEW y \in Names, y # x, NEW w,
           cache \in [Names -> Nat], nEvents # 0
    PROVE  CacheAfter(frames, SeededCache(1), cmd, x, w)[y] = cache[y] /\ SeededCache(1)[y] = cache[y]
<1>1. SeededCache(1)[y] = cache[y] /\ SeededCache(1) \in [Names -> Nat]
  BY DEF SeededCache
<1> QED BY <1>1 DEF CacheAfter

\* Without a frame more or less it keeps it where no entry of it changes.
LEMMA StillUnchanged ==
    ASSUME TypeOK, RowsOk, LogOk, Extended, NEW w \in 1..Len(writes), Unchanged(w),
           Framed(frames), Framed(frames'), Len(frames') = Len(frames),
           \A i \in 1..Len(frames) : SameFrame(frames'[i], frames[i]) /\ Due'[i].id = Due[i].id,
           \A x \in Names : Spared(w, x)' =>
              /\ cache'[x] = cache[x]
              /\ \A i \in 1..Len(frames) : frames'[i].tab[x] = frames[i].tab[x]
    PROVE  Unchanged(w)'
<1>1. ASSUME NEW x \in Names, NEW i \in 1..Len(frames'), NEW k \in 1..Len(frames'),
             i <= k, Due'[i].id = writes[w].scope, Plain(frames', k), Spared(w, x)'
      PROVE  /\ i \in 1..Len(frames) /\ Due[i].id = writes[w].scope
             /\ k \in 1..Len(frames) /\ Plain(frames, k)
             /\ SeenAt(frames', k, x) = SeenAt(frames, k, x)
  <2>1. k \in 1..Len(frames) /\ i \in 1..Len(frames) /\ Len(frames) \in Nat
    BY DEF Framed
  <2>2. \A j \in 1..k : /\ frames'[j].kind = frames[j].kind /\ frames'[j].node = frames[j].node
                        /\ frames'[j].tab[x] = frames[j].tab[x]
    BY <1>1, <2>1 DEF SameFrame
  <2>3. Plain(frames, k) /\ SeenAt(frames', k, x) = SeenAt(frames, k, x)
    BY <1>1, <2>1, <2>2, SeenSame
  <2> QED BY <1>1, <2>1, <2>3
<1> QED BY <1>1, UnchangedStays

\* Nor in a frame more: a procedure or a try_compile project is another place, a
\* subdirectory starts with the values seen, and other frames start with none.
LEMMA PushUnchanged ==
    ASSUME TypeOK, RowsOk, LogOk, Extended, NEW w \in 1..Len(writes), Unchanged(w),
           Framed(frames), Framed(frames'), NEW f, frames' = Append(frames, f),
           \A i \in 1..Len(frames) : Due'[i] = Due[i], Due'[Len(frames) + 1].id > Len(scopes),
           \A x \in Names : cache'[x] = cache[x],
           \/ f.kind \in {"function", "macro", "try_compile"}
           \/ f.tab = NoTab
           \/ f.kind = "directory" /\ f.tab = Closure(frames)
    PROVE  Unchanged(w)'
<1> DEFINE n == Len(frames)
<1>1. /\ n \in 1..n /\ n \in Nat /\ Len(frames') = n + 1 /\ frames'[n + 1] = f
      /\ \A i \in 1..n : frames'[i] = frames[i]
  BY DEF Framed
<1>2. writes[w].scope \in 0..Len(scopes) /\ Len(scopes) \in Nat
  BY LenProperties DEF RowsOk, AllOk, RowOk, TypeOK
<1>3. ASSUME NEW x \in Names, NEW k \in 1..n, Plain(frames', k)
      PROVE  Plain(frames, k) /\ SeenAt(frames', k, x) = SeenAt(frames, k, x)
  <2>1. k \in 1..Len(frames') /\ k \in 1..Len(frames)
    BY <1>1
  <2>2. PICK gs : gs = frames'
    OBVIOUS
  <2>3. \A j \in 1..k : /\ gs[j].kind = frames[j].kind /\ gs[j].node = frames[j].node
                        /\ gs[j].tab[x] = frames[j].tab[x]
    BY <1>1, <2>2
  <2> HIDE DEF n
  <2>4. Framed(gs) /\ k \in 1..Len(gs) /\ Plain(gs, k)
    BY <1>3, <2>1, <2>2
  <2>5. Plain(frames, k) /\ SeenAt(gs, k, x) = SeenAt(frames, k, x)
    BY <2>1, <2>3, <2>4, SeenSame
  <2> QED BY <2>2, <2>5
<1>4. ASSUME NEW x \in Names, Plain(frames', n + 1)
      PROVE  SeenAt(frames', n + 1, x) = SeenAt(frames, n, x)
  <2>1. n + 1 \in 1..Len(frames') /\ n \in 1..Len(frames') /\ n <= n + 1 /\ Plain(frames', n)
    BY <1>1, <1>4 DEF Plain
  <2>2. f.kind \notin {"function", "macro", "try_compile"}
    BY <1>1, <1>4, <2>1 DEF Plain
  <2>3. SeenAt(frames', n, x) = SeenAt(frames, n, x)
    BY <1>1, <1>3, <2>1
  <2>4. CASE f.tab = NoTab
    <3>1. \A j \in 1..(n + 1) : j > n => ~Has(frames'[j], x)
      BY <1>1, <2>4 DEF Has, NoTab
    <3> QED BY <2>1, <2>3, <3>1, <1>4, SeenOver
  <2>5. CASE f.kind = "directory" /\ f.tab = Closure(frames)
    <3>1. Normal(frames, n, x) \in Nat
      BY <1>1, NormalIs
    <3>2. Has(f, x) /\ Shown(f, x) = Normal(frames, n, x)
      BY <2>5, <3>1 DEF Has, Shown, Closure, Opaque, Hidden, Inherit
    <3>3. SeenAt(frames', n + 1, x) = Shown(f, x)
      <4>1. PICK m, gs : m = n + 1 /\ gs = frames'
        OBVIOUS
      <4>2. /\ Framed(gs) /\ m \in 1..Len(gs) /\ Plain(gs, m) /\ Has(gs[m], x)
            /\ gs[m] = f
        BY <1>1, <1>4, <2>1, <3>2, <4>1
      <4>3. SeenAt(gs, m, x) = Shown(gs[m], x)
        BY <4>2, SeenHere
      <4> QED BY <4>1, <4>2, <4>3
    <3> QED BY <3>2, <3>3, SeenTop
  <2> QED BY <2>2, <2>4, <2>5
<1>5. ASSUME NEW x \in Names, NEW i \in 1..Len(frames'), NEW k \in 1..Len(frames'),
             i <= k, Due'[i].id = writes[w].scope, Plain(frames', k)
      PROVE  \E m \in 1..n : /\ i \in 1..n /\ i <= m /\ Due[i].id = writes[w].scope
                             /\ Plain(frames, m) /\ SeenAt(frames', k, x) = SeenAt(frames, m, x)
  <2>1. i # n + 1
    BY <1>1, <1>2, <1>5
  <2>2. i \in 1..n /\ Due[i].id = writes[w].scope
    BY <1>1, <1>5, <2>1
  <2>3. CASE k \in 1..n
    BY <1>3, <1>5, <2>2, <2>3
  <2>4. CASE k = n + 1
    <3>1. Plain(frames', n)
      BY <1>1, <1>5, <2>4 DEF Plain
    <3>2. Plain(frames, n) /\ i <= n
      BY <1>1, <1>3, <2>2, <3>1
    <3>3. SeenAt(frames', k, x) = SeenAt(frames, n, x)
      BY <1>4, <1>5, <2>4
    <3> QED BY <1>1, <2>2, <3>2, <3>3
  <2> QED BY <1>1, <2>3, <2>4
<1> QED BY <1>5, UnchangedStays

\* Frames that go take nothing along.
LEMMA ShrinkUnchanged ==
    ASSUME TypeOK, RowsOk, LogOk, Extended, NEW w \in 1..Len(writes), Unchanged(w),
           Framed(frames), Framed(frames'), NEW n \in 1..Len(frames), Len(frames') = n,
           \A i \in 1..n : /\ Due'[i].id = Due[i].id
                           /\ frames'[i].kind = frames[i].kind /\ frames'[i].node = frames[i].node
                           /\ frames'[i].tab = frames[i].tab,
           UNCHANGED cache
    PROVE  Unchanged(w)'
<1>1. ASSUME NEW x \in Names, NEW i \in 1..Len(frames'), NEW k \in 1..Len(frames'),
             i <= k, Due'[i].id = writes[w].scope, Plain(frames', k)
      PROVE  /\ i \in 1..Len(frames) /\ Due[i].id = writes[w].scope
             /\ k \in 1..Len(frames) /\ Plain(frames, k)
             /\ SeenAt(frames', k, x) = SeenAt(frames, k, x)
  <2>1. k \in 1..Len(frames) /\ i \in 1..Len(frames) /\ Len(frames) \in Nat
    BY DEF Framed
  <2>2. \A j \in 1..k : /\ frames'[j].kind = frames[j].kind /\ frames'[j].node = frames[j].node
                        /\ frames'[j].tab[x] = frames[j].tab[x]
    BY <1>1, <2>1
  <2>3. Plain(frames, k) /\ SeenAt(frames', k, x) = SeenAt(frames, k, x)
    <3>1. PICK gs : gs = frames'
      OBVIOUS
    <3>2. Framed(gs) /\ k \in 1..Len(gs) /\ Plain(gs, k)
      BY <1>1, <3>1
    <3>3. \A j \in 1..k : /\ gs[j].kind = frames[j].kind /\ gs[j].node = frames[j].node
                          /\ gs[j].tab[x] = frames[j].tab[x]
      BY <2>2, <3>1
    <3>4. Plain(frames, k) /\ SeenAt(gs, k, x) = SeenAt(frames, k, x)
      BY <2>1, <3>2, <3>3, SeenSame
    <3> QED BY <3>1, <3>4
  <2> QED BY <1>1, <2>1, <2>3
<1> QED BY <1>1, UnchangedStays

\* A write leaves the entries of the other variables.
LEMMA OthersKept ==
    ASSUME NEW fs, Framed(fs), NEW cmd, cmd = "parent_scope" => ~AtTop(fs), NEW x \in Names,
           NEW w \in Nat \ {0}, NEW y \in Names, y # x
    PROVE  \A i \in 1..Len(fs) : FramesAfter(fs, cmd, x, w)[i].tab[y] = fs[i].tab[y]
<1>1. CASE cmd = "set"
  BY <1>1, SetEffect DEF SameColumn
<1>2. CASE cmd = "unset"
  BY <1>2, UnsetEffect DEF SameColumn
<1>3. CASE cmd = "parent_scope"
  BY <1>3, RaiseEffect DEF SameColumn
<1>4. CASE cmd \notin {"set", "unset", "parent_scope"}
  BY <1>4, OtherEffect
<1> QED BY <1>1, <1>2, <1>3, <1>4

\* What a command writes, a spared variable is not.
LEMMA NotSpared ==
    ASSUME TypeOK, RowsOk, LogOk, Extended, NEW e, IsWrite(e), WritesTold(e),
           NEW w \in 1..Len(writes), NEW x, Spared(w, x)'
    PROVE  x # e.name
<1>1. writes[w].event \in 1..nEvents /\ writes'[w] = writes[w]
  BY DEF Extended, RowsOk, AllOk, RowOk
<1>2. /\ Len(writes') \in 1..Len(writes') /\ writes'[Len(writes')].names = {e.name}
      /\ writes'[Len(writes')].event = nEvents + 1 /\ nEvents \in Nat
  BY DEF WritesTold
<1>3. DOMAIN writes' = 1..Len(writes')
  BY DEF Extended
<1>4. x = e.name => Len(writes') \in RowsOf(x)'
  BY <1>2, <1>3 DEF RowsOf
<1>5. \A v \in RowsOf(x)' : writes'[v].event <= writes[w].event
  BY <1>1 DEF Spared, NotRewritten
<1> QED BY <1>1, <1>2, <1>4, <1>5

\* The variables a set() did not write are as it saw them where it is.
LEMMA SetUnchanged ==
    ASSUME TypeOK, Framed(frames), cache \in [Names -> Nat], ScopesTold,
           NEW e, WritesTold(e), IsEntry(log'[nEvents'], e), e.name \in Names,
           frames' = FramesAfter(frames, e.cmd, e.name, Len(writes')),
           cache' = CacheAfter(frames, SeededCache(1), e.cmd, e.name, Len(writes')),
           Framed(frames'), Len(frames') = Len(frames),
           \A i \in 1..Len(frames) : SameFrame(frames'[i], frames[i]) /\ Due'[i].id = Due[i].id,
           NEW w \in 1..Len(writes'), w > Len(writes)
    PROVE  Unchanged(w)'
<1>n. PICK n : n = nEvents'
  OBVIOUS
<1> SUFFICES ASSUME TopSet(w)', NEW x \in Names, Spared(w, x)',
                    NEW i \in 1..Len(frames'), NEW k \in 1..Len(frames'),
                    i <= k, Due'[i].id = writes'[w].scope, Plain(frames', k)
             PROVE  log'[writes'[w].event].sees[x] =
                      IF SeenAt(frames', k, x) # NoRow THEN SeenAt(frames', k, x) ELSE cache'[x]
  BY SMTT(30) DEF Unchanged
<1>1. /\ w = Len(writes') /\ writes'[w].event = n /\ writes'[w].scope = Due[Own(frames)].id
      /\ w \in Nat \ {0}
  <2>1. writes'[w].cmd = "set"
    BY DEF TopSet
  <2>2. Len(writes') \in Nat
    BY DEF WritesTold
  <2>3. w \in Nat \ {0}
    BY <2>2
  <2> QED BY <1>n, <2>1, <2>3 DEF WritesTold
<1>2. e.cmd = "set" /\ TopLevel(n)' /\ x # e.name
  <2>1. log'[n].cmd = "set" /\ TopLevel(n)' /\ x # log'[n].name
    BY <1>1 DEF TopSet, Spared
  <2>2. log'[n].cmd = e.cmd /\ log'[n].name = e.name
    BY <1>n DEF IsEntry
  <2> QED BY <2>1, <2>2
<1>3. i = Own(frames) /\ Own(frames) \in 1..Len(frames) /\ i <= k /\ k \in 1..Len(frames)
  <2>1. Own(frames) \in 1..Len(frames) /\ i \in 1..Len(frames) /\ Len(frames) \in Nat
    BY OwnIs DEF Framed
  <2>2. Due[i].id = Due[Own(frames)].id
    BY <1>1, <2>1
  <2>3. /\ \A a, b \in 1..Len(frames) : a < b => Due[a].id < Due[b].id
        /\ Due[i].id \in 1..Len(scopes') /\ Due[Own(frames)].id \in 1..Len(scopes')
        /\ Len(scopes') \in Nat
    BY <2>1 DEF ScopesTold
  <2>4. PICK o \in 1..Len(frames) : o = Own(frames)
    BY <2>1
  <2>5. ~(i < o) /\ ~(o < i)
    <3>1. i < o => Due[i].id < Due[o].id
      BY <2>1, <2>3
    <3>2. o < i => Due[o].id < Due[i].id
      BY <2>1, <2>3
    <3>3. Due[i].id = Due[o].id /\ Due[i].id \in Nat
      BY <2>2, <2>3, <2>4
    <3> QED BY <3>1, <3>2, <3>3
  <2> QED BY <2>1, <2>4, <2>5
<1>4. Plain(frames, Len(frames))
  <2>1. ~EventInTryCompile(n)' /\ ~EventInFunctionOrMacro(n)'
    BY <1>2 DEF TopLevel
  <2>2. ChainKinds(n)' = {frames[j].kind : j \in 1..Len(frames)}
    BY <1>n, ChainOf
  <2>3. \A j \in 1..Len(frames) : frames[j].kind \in ChainKinds(n)'
    BY <2>2
  <2> QED BY <2>1, <2>3 DEF EventInTryCompile, EventInFunctionOrMacro, Plain
<1>5. SeenAt(frames', k, x) = Normal(frames, Len(frames), x)
  <2>1. \A j \in 1..Len(frames) : frames'[j].tab[x] = frames[j].tab[x]
    <3>1. e.cmd # "parent_scope" /\ Len(writes') \in Nat \ {0}
      BY <1>1, <1>2
    <3>c. PICK c : c = e.cmd
      OBVIOUS
    <3>2. PICK y \in Names, v \in Nat \ {0} : y = e.name /\ v = Len(writes')
      BY <3>1
    <3>3. (c = "parent_scope" => ~AtTop(frames)) /\ x # y
      BY <1>2, <3>1, <3>2, <3>c
    <3>4. \A j \in 1..Len(frames) : FramesAfter(frames, c, y, v)[j].tab[x] = frames[j].tab[x]
      BY <3>3, OthersKept
    <3> QED BY <3>2, <3>4, <3>c
  <2>2. \A j \in 1..k : /\ frames'[j].kind = frames[j].kind /\ frames'[j].node = frames[j].node
                        /\ frames'[j].tab[x] = frames[j].tab[x]
    <3>1. \A j \in 1..k : j \in 1..Len(frames)
      BY <1>3 DEF Framed
    <3> QED BY <2>1, <3>1 DEF SameFrame
  <2>3. SeenAt(frames', k, x) = SeenAt(frames, k, x)
    BY <1>3, <2>2, SeenSame
  <2>4. SeenAt(frames, k, x) = Normal(frames, Len(frames), x)
    BY <1>3, <1>4, SeenLocal
  <2> QED BY <2>3, <2>4
<1>6. SeededCache(1) \in [Names -> Nat] /\ cache'[x] = SeededCache(1)[x]
  <2>1. SeededCache(1) \in [Names -> Nat]
    BY DEF SeededCache
  <2> QED BY <1>2, <2>1 DEF CacheAfter
<1>7. log'[n].sees[x] = IF Normal(frames, Len(frames), x) # NoRow
                        THEN Normal(frames, Len(frames), x) ELSE SeededCache(1)[x]
  <2>1. Executing(frames) \in 1..Len(frames)
    BY ExecutingIs
  <2>2. frames[Executing(frames)].kind # "macro"
    BY <1>4, <2>1 DEF Plain
  <2>3. log'[n].sees[x] = Reads(frames, SeededCache(1), x)
    BY <1>n DEF IsEntry
  <2> QED BY <1>6, <2>2, <2>3, ReadsIs
<1> QED BY <1>1, <1>5, <1>6, <1>7

\* A write keeps Unchanged: its own row begins with what it has just seen, and a row
\* that stays spared is not of the variable written.
LEMMA WriteUnchanged ==
    ASSUME TypeOK, RowsOk, LogOk, Framed(frames), cache \in [Names -> Nat], Extended, ScopesTold,
           \A w \in 1..Len(writes) : Unchanged(w),
           NEW e, WritesTold(e), IsEntry(log'[nEvents'], e), e.name \in Names, IsWrite(e),
           e.cmd = "parent_scope" => ~AtTop(frames),
           frames' = FramesAfter(frames, e.cmd, e.name, Len(writes')),
           cache' = CacheAfter(frames, SeededCache(1), e.cmd, e.name, Len(writes')),
           Framed(frames'), Len(frames') = Len(frames),
           \A i \in 1..Len(frames) : SameFrame(frames'[i], frames[i]) /\ Due'[i].id = Due[i].id
    PROVE  \A w \in 1..Len(writes') : Unchanged(w)'
<1> SUFFICES ASSUME NEW w \in 1..Len(writes') PROVE Unchanged(w)'
  OBVIOUS
<1>1. /\ Len(writes) \in Nat /\ Len(writes') \in Nat \ {0} /\ Len(writes') \in 1..Len(writes')
  BY LenProperties DEF TypeOK, WritesTold
<1>2. CASE w > Len(writes)
  BY <1>2, SetUnchanged
<1>3. CASE w \in 1..Len(writes)
  <2>1. ASSUME NEW x \in Names, Spared(w, x)'
        PROVE  /\ cache'[x] = cache[x]
               /\ \A i \in 1..Len(frames) : frames'[i].tab[x] = frames[i].tab[x]
    <3>1. x # e.name
      BY <1>3, <2>1, NotSpared
    <3>2. nEvents # 0
      <4>1. writes[w].event \in 1..nEvents
        BY <1>3 DEF RowsOk, AllOk, RowOk
      <4> QED BY <4>1
    <3>3. cache'[x] = cache[x]
      BY <3>1, <3>2, CacheStays
    <3>4. \A i \in 1..Len(frames) : frames'[i].tab[x] = frames[i].tab[x]
      BY <1>1, <3>1, OthersKept
    <3> QED BY <3>3, <3>4
  <2> QED BY <1>3, <2>1, StillUnchanged
<1> QED BY <1>1, <1>2, <1>3

-----------------------------------------------------------------------------
(* Every step of a recording.                                              *)

\* What holds before a command, and after it.
Going ==
    /\ DisciplineInv /\ ContainInv /\ Mirrors /\ RowsOk
    /\ project.passes => LogOk /\ \A w \in 1..Len(writes) : Unchanged(w)

\* What a step leaves of that.
Told ==
    /\ RowsOk'
    /\ project.passes => LogOk' /\ \A w \in 1..Len(writes') : Unchanged(w)'

\* A command adds rows that are sound and an entry that is true.
LEMMA EventTold ==
    ASSUME Irregular = {}, Going, NEW e, Event2(e), Fits(e), Traced(e),
           e.cmd = "parent_scope" => ~AtTop(frames)
    PROVE  /\ RowsOk' /\ ScopesTold /\ WritesTold(e)
           /\ project.passes => Extended /\ LogOk' /\ IsEntry(log'[nEvents'], e)
<1>s. /\ DisciplineInv /\ ContainInv /\ Mirrors /\ RowsOk /\ TypeOK /\ Structure /\ Framed(frames)
      /\ cache \in [Names -> Nat]
  BY DEF Going, DisciplineInv, Mirrors, Structure, Typed
<1>1. Replay(e, Dumped(e))
  BY DEF Traced, Dumped
<1>2. ScopesTold
  BY <1>1, <1>s, EventScopes DEF RowsOk
<1>3. WritesTold(e) /\ ReadTold(e) /\ RowsOk'
  BY <1>1, <1>s, EventWrites, EventRows
<1>4. DisciplineInv' /\ ReadsResolve'
  BY <1>s, TracedKeeps
<1>5. ASSUME project.passes PROVE Extended /\ LogOk' /\ IsEntry(log'[nEvents'], e)
  <2>1. LogOk /\ \A w \in 1..Len(writes) : Unchanged(w)
    BY <1>5 DEF Going
  <2>2. /\ log' \in Seq(LogRow) /\ Len(log') = nEvents' /\ nEvents' = nEvents + 1 /\ nEvents \in Nat
        /\ \A k \in 1..Len(log) : k \in 1..Len(log') /\ log'[k] = log[k]
        /\ nEvents' \in 1..Len(log') /\ IsEntry(log'[nEvents'], e)
    BY <1>5, <1>s, <2>1, Entered DEF LogOk
  <2>3. Extended
    <3>1. writes' \in Seq(WriteRow)
      BY <1>4 DEF DisciplineInv, TypeOK
    <3>2. \A w \in 1..Len(writes) : w \in 1..Len(writes') /\ writes'[w] = writes[w]
      BY <1>3 DEF WritesTold
    <3> QED BY <1>2, <2>2, <3>1, <3>2 DEF Extended, ScopesTold
  <2>4. PICK n : n = nEvents'
    OBVIOUS
  <2>5. IsEntry(log'[n], e)
    BY <2>2, <2>4
  <2>6. EntryOk(n)'
    <3>1. log'[n].scope \in 1..Len(scopes')
      BY <1>2, <1>s, <2>5, ChainOf
    <3>2. log'[n].read \in 0..Len(writes')
      BY <1>3, <2>5 DEF ReadTold, IsEntry
    <3>3. ReadTrue(n)'
      BY <1>4, <1>s, <2>5, ReadEntry
    <3>4. LeakTrue(n)'
      BY <1>2, <1>s, <2>5, LeakEntry
    <3>5. RaiseTrue(n)'
      BY <1>2, <1>3, <1>4, <1>s, <2>5, RaiseEntry
    <3>6. AliasTrue(n)'
      BY <1>2, <1>3, <1>s, <2>1, <2>3, <2>5, AliasEntry
    <3> QED BY <3>1, <3>2, <3>3, <3>4, <3>5, <3>6 DEF EntryOk
  <2>7. ASSUME NEW k \in 1..Len(log') PROVE EntryOk(k)'
    <3>1. CASE k \in 1..Len(log)
      BY <1>s, <2>1, <2>3, <3>1, EntryStays
    <3>2. CASE k = n
      BY <2>6, <3>2
    <3>3. k \in 1..Len(log) \/ k = n
      BY <2>1, <2>2, <2>4 DEF LogOk
    <3> QED BY <3>1, <3>2, <3>3
  <2>8. LogOk'
    BY <2>2, <2>7 DEF LogOk
  <2> QED BY <2>2, <2>3, <2>8
<1> QED BY <1>2, <1>3, <1>5

\* The rows of an event that does not write are of no set().
LEMMA NewRows ==
    ASSUME NEW e, WritesTold(e), ~IsWrite(e), NEW w \in 1..Len(writes'), w > Len(writes)
    PROVE  Unchanged(w)'
<1>1. writes'[w].cmd # "set"
  BY DEF WritesTold
<1>2. ~TopSet(w)'
  BY <1>1 DEF TopSet
<1> QED BY <1>2 DEF Unchanged

\* Commands that change no variable and open no scope.
LEMMA QuietTold ==
    ASSUME Irregular = {}, Going, NEW e, Event2(e), Fits(e), Traced(e),
           ~IsWrite(e), e.cmd \notin {"block", "parent_scope"}, UNCHANGED frames, Quiet
    PROVE  Told
<1>s. TypeOK /\ Structure /\ Framed(frames) /\ RowsOk /\ DisciplineInv /\ cache \in [Names -> Nat]
  BY DEF Going, DisciplineInv, Mirrors, Structure, Typed
<1>1. Replay(e, Dumped(e))
  BY DEF Traced, Dumped
<1>2. Due' = stack' /\ stack' = Due
  BY <1>1, <1>s, PlainKeepsStructure, StackAfter DEF SameFrame
<1>3. /\ RowsOk' /\ WritesTold(e)
      /\ project.passes => Extended /\ LogOk' /\ IsEntry(log'[nEvents'], e)
  BY EventTold
<1>4. ASSUME project.passes, NEW w \in 1..Len(writes') PROVE Unchanged(w)'
  <2>1. CASE w > Len(writes)
    BY <1>3, <2>1, NewRows
  <2>2. CASE w \in 1..Len(writes)
    <3>1. LogOk /\ Unchanged(w)
      BY <1>4, <2>2 DEF Going
    <3>2. nEvents # 0
      <4>1. writes[w].event \in 1..nEvents
        BY <1>s, <2>2 DEF RowsOk, AllOk, RowOk
      <4> QED BY <4>1
    <3>3. \A x \in Names : cache'[x] = cache[x]
      BY <1>s, <3>2 DEF Quiet, SeededCache
    <3>4. \A i \in 1..Len(frames) : SameFrame(frames'[i], frames[i]) /\ Due'[i].id = Due[i].id
      BY <1>2 DEF SameFrame
    <3> QED BY <1>3, <1>4, <1>s, <2>2, <3>1, <3>3, <3>4, StillUnchanged
  <2>3. Len(writes) \in Nat /\ Len(writes') \in Nat
    BY <1>3, <1>s, LenProperties DEF WritesTold, TypeOK
  <2> QED BY <2>1, <2>2, <2>3
<1> QED BY <1>3, <1>4 DEF Told

\* A command that pushes frame f.
LEMMA PushTold ==
    ASSUME Irregular = {}, Going, NEW e, Event2(e), Fits(e), Traced(e),
           ~IsWrite(e), e.cmd # "parent_scope", NEW f, frames' = Append(frames, f), Quiet, Framed(frames'),
           \/ f.kind \in {"function", "macro", "try_compile"}
           \/ f.tab = NoTab
           \/ f.kind = "directory" /\ f.tab = Closure(frames)
    PROVE  Told
<1>s. TypeOK /\ Structure /\ Framed(frames) /\ RowsOk /\ DisciplineInv /\ cache \in [Names -> Nat]
      /\ ContainInv
  BY DEF Going, DisciplineInv, Mirrors, Structure, Typed
<1>1. Replay(e, Dumped(e))
  BY DEF Traced, Dumped
<1> DEFINE n == Len(frames)
<1>d. /\ Due \in Seq(Scope) /\ Len(Due) = n /\ n \in Nat \ {0} /\ Len(frames') = n + 1
      /\ frames \in Seq(FrameSet)
  <2>1. frames \in Seq(FrameSet)
    BY <1>s DEF Framed
  <2>2. Len(frames') = n + 1
    BY <2>1
  <2> QED BY <1>s, <2>1, <2>2, DueIs DEF Framed
<1>2. Len(scopes') \in Nat /\ Len(scopes') >= Len(scopes)
  <2>1. ScopesTold
    BY EventTold
  <2> QED BY <2>1 DEF ScopesTold
<1>3. (\A i \in 1..n : Due'[i] = Due[i]) /\ Due'[n + 1].id > Len(scopes)
  <2>1. CASE e.cmd = "block"
    <3>1. PICK id \in Nat : id > Len(scopes) /\ stack' = Append(Due, BlockScope(e, id))
      BY <1>1, <1>s, <2>1, EventScopes DEF RowsOk
    <3>2. BlockScope(e, id) \in Scope /\ BlockScope(e, id).id = id
      <4>1. BlockScope(e, id) \in Scope
        BY <2>1, BlockScopeType DEF Event2
      <4> QED BY <4>1 DEF BlockScope, NewScope
    <3>3. PICK b : b = BlockScope(e, id)
      OBVIOUS
    <3>4. Len(stack') = n + 1 /\ stack' # <<>> /\ stack'[n + 1] = b /\ \A i \in 1..n : stack'[i] = Due[i]
      BY <1>d, <3>1, <3>2, <3>3
    <3>5. Base' = stack'
      BY <3>4 DEF Base
    <3>6. Due' = SubSeq(stack', 1, n + 1)
      BY <1>d, <3>4, <3>5 DEF Due
    <3>7. \A i \in 1..(n + 1) : Due'[i] = stack'[i]
      <4>1. stack' \in Seq(Scope)
        BY <1>d, <3>1, <3>2
      <4> QED BY <1>d, <3>4, <3>6, <4>1
    <3>8. Due'[n + 1] = b /\ \A i \in 1..n : Due'[i] = Due[i]
      BY <1>d, <3>4, <3>7
    <3>9. b.id = id
      BY <3>2, <3>3
    <3> QED BY <3>1, <3>8, <3>9
  <2>2. CASE e.cmd # "block"
    <3>1. stack' = Due /\ pending' \in Pending /\ Len(writes') \in Nat
      BY <1>1, <1>s, <2>2, StackAfter
    <3>2. stack' # <<>> /\ Len(stack') = n
      BY <1>d, <3>1
    <3>3. PICK b : b = Called(pending', Len(scopes') + 1, Len(writes') + 1)
      OBVIOUS
    <3>4. Due' = Append(Due, b)
      <4>1. Base' = stack'
        BY <3>2 DEF Base
      <4> QED BY <1>d, <3>1, <3>2, <3>3, <4>1 DEF Due
    <3>5. b \in Scope /\ b.id = Len(scopes') + 1
      <4>1. \A i \in Nat, w \in Nat : Called(pending', i, w) \in Scope /\ Called(pending', i, w).id = i
        BY <3>1, CalledFacts
      <4>2. Len(scopes') + 1 \in Nat /\ Len(writes') + 1 \in Nat
        BY <1>2, <3>1
      <4> QED BY <3>3, <4>1, <4>2
    <3>6. Due'[n + 1] = b /\ \A i \in 1..n : Due'[i] = Due[i]
      BY <1>d, <3>4, <3>5
    <3>7. Len(scopes) \in Nat
      BY <1>s, LenProperties DEF TypeOK
    <3> QED BY <1>2, <3>5, <3>6, <3>7
  <2> QED BY <2>1, <2>2
<1>4. /\ RowsOk' /\ WritesTold(e)
      /\ project.passes => Extended /\ LogOk' /\ IsEntry(log'[nEvents'], e)
  BY EventTold
<1>5. ASSUME project.passes, NEW w \in 1..Len(writes') PROVE Unchanged(w)'
  <2>1. CASE w > Len(writes)
    BY <1>4, <2>1, NewRows
  <2>2. CASE w \in 1..Len(writes)
    <3>1. LogOk /\ Unchanged(w)
      BY <1>5, <2>2 DEF Going
    <3>2. nEvents # 0
      <4>1. writes[w].event \in 1..nEvents
        BY <1>s, <2>2 DEF RowsOk, AllOk, RowOk
      <4> QED BY <4>1
    <3>3. \A x \in Names : cache'[x] = cache[x]
      BY <1>s, <3>2 DEF Quiet, SeededCache
    <3> QED BY <1>3, <1>4, <1>5, <1>s, <2>2, <3>1, <3>3, PushUnchanged
  <2>3. Len(writes) \in Nat /\ Len(writes') \in Nat
    BY <1>4, <1>s, LenProperties DEF WritesTold, TypeOK
  <2> QED BY <2>1, <2>2, <2>3
<1> QED BY <1>4, <1>5 DEF Told

\* Commands that write a variable.
LEMMA WriteTold ==
    ASSUME Irregular = {}, Going,
           NEW cmd \in WriteCmds, NEW x \in Names, NEW ref \in Names \cup {None}, Write(cmd, x, ref)
    PROVE  Told
<1>s. TypeOK /\ Structure /\ Framed(frames) /\ RowsOk /\ DisciplineInv /\ cache \in [Names -> Nat]
  BY DEF Going, DisciplineInv, Mirrors, Structure, Typed
<1>e. PICK e : e = EventOf(cmd, None, x, ref, None, {})
  OBVIOUS
<1>1. /\ e.cmd = cmd /\ e.name = x /\ Event2(e) /\ Fits(e)
  <2>1. cmd \in BuiltinCmds /\ cmd # "block"
    BY DEF BuiltinCmds, WriteCmds
  <2>2. /\ {} \in SUBSET Names /\ None \in Nodes \cup {None} /\ None \in Procs \cup {None}
        /\ x \in Names \cup {None} /\ cmd \in BuiltinCmds \cup Procs
    BY <2>1
  <2>3. Emitted(e, cmd, None, x, ref, None, {})
    BY <1>e, <1>s, <2>1, <2>2, EventOfIs
  <2> QED BY <2>3 DEF Emitted
<1>2. Traced(e)
  BY <1>e DEF Write
<1>3. /\ cmd = "parent_scope" => ~AtTop(frames)
      /\ frames' = FramesAfter(frames, cmd, x, Len(writes'))
      /\ cache' = CacheAfter(frames, SeededCache(1), cmd, x, Len(writes'))
  BY DEF Write
<1>4. IsWrite(e) /\ e.cmd # "block"
  BY <1>1, ReplayAssumption DEF IsWrite, ReplayAssumption, WriteCmds
<1>5. Replay(e, Dumped(e))
  BY <1>2 DEF Traced, Dumped
<1>6. PICK w \in Nat \ {0} : w = Len(writes') /\ stack' = Written(Due, EffectiveCmd(Due, cmd), x, w)
  BY <1>1, <1>4, <1>5, <1>s, StackAfter
<1>7. /\ Framed(frames') /\ Len(frames') = Len(frames)
      /\ \A i \in 1..Len(frames) : SameFrame(frames'[i], frames[i])
  BY <1>3, <1>6, <1>s, FramesAfterShape
<1>8. Due' = stack'
  BY <1>1, <1>4, <1>5, <1>7, <1>s, PlainKeepsStructure
<1>9. \A i \in 1..Len(frames) : Due'[i].id = Due[i].id
  <2>1. Due \in Seq(Scope) /\ Len(Due) = Len(frames)
    BY <1>s, DueIs
  <2> QED BY <1>6, <1>8, <2>1, WrittenShape
<1>10. /\ RowsOk' /\ ScopesTold /\ WritesTold(e)
       /\ project.passes => Extended /\ LogOk' /\ IsEntry(log'[nEvents'], e)
  BY <1>1, <1>2, <1>3, EventTold
<1>11. ASSUME project.passes PROVE \A v \in 1..Len(writes') : Unchanged(v)'
  <2>1. LogOk /\ \A v \in 1..Len(writes) : Unchanged(v)
    BY <1>11 DEF Going
  <2>2. /\ frames' = FramesAfter(frames, e.cmd, e.name, Len(writes'))
        /\ cache' = CacheAfter(frames, SeededCache(1), e.cmd, e.name, Len(writes'))
        /\ e.name \in Names /\ (e.cmd = "parent_scope" => ~AtTop(frames))
    BY <1>1, <1>3
  <2>3. \A i \in 1..Len(frames) : SameFrame(frames'[i], frames[i]) /\ Due'[i].id = Due[i].id
    BY <1>7, <1>9
  <2> QED BY <1>4, <1>7, <1>10, <1>11, <1>s, <2>1, <2>2, <2>3, WriteUnchanged
<1> QED BY <1>10, <1>11 DEF Told

\* Commands that only read.
LEMMA ReadsTold ==
    ASSUME Irregular = {}, Going, NEW ref \in Names \cup {None}, Read(ref)
    PROVE  Told
<1>s. Framed(frames)
  BY DEF Going, Mirrors, Structure
<1>e. PICK e : e = EventOf("other", None, None, ref, None, {})
  OBVIOUS
<1>1. e.cmd = "other" /\ Event2(e) /\ Fits(e)
  <2>1. /\ {} \in SUBSET Names /\ None \in Nodes \cup {None} /\ None \in Procs \cup {None}
        /\ None \in Names \cup {None} /\ "other" \in BuiltinCmds \cup Procs
    BY DEF BuiltinCmds
  <2>2. Emitted(e, "other", None, None, ref, None, {})
    BY <1>e, <1>s, <2>1, EventOfIs
  <2> QED BY <2>2 DEF Emitted
<1>2. Traced(e) /\ UNCHANGED frames /\ Quiet
  BY <1>e DEF Read
<1>3. ~IsWrite(e)
  BY <1>1 DEF IsWrite, WriteCmds
<1> QED BY <1>1, <1>2, <1>3, QuietTold

\* function() and macro().
LEMMA DefineTold ==
    ASSUME Irregular = {}, Going, NEW p \in Procs, NEW d \in Def, Define(p, d)
    PROVE  Told
<1>s. Framed(frames)
  BY DEF Going, Mirrors, Structure
<1>e. PICK e : e = EventOf(d.kind, None, None, None, p, d.params)
  OBVIOUS
<1>0. d.kind \in {"function", "macro"} /\ d.params \in SUBSET Names
  BY DEF Def
<1>1. e.cmd = d.kind /\ Event2(e) /\ Fits(e)
  <2>1. d.kind \in BuiltinCmds /\ d.kind # "block"
    BY <1>0 DEF BuiltinCmds
  <2>2. /\ None \in Nodes \cup {None} /\ None \in Names \cup {None} /\ p \in Procs \cup {None}
        /\ d.kind \in BuiltinCmds \cup Procs
    BY <2>1
  <2>3. Emitted(e, d.kind, None, None, None, p, d.params)
    BY <1>e, <1>s, <1>0, <2>1, <2>2, EventOfIs
  <2> QED BY <2>3 DEF Emitted
<1>2. Traced(e) /\ UNCHANGED frames /\ Quiet
  BY <1>e DEF Define
<1>3. ~IsWrite(e) /\ e.cmd \notin {"block", "parent_scope"}
  BY <1>0, <1>1 DEF IsWrite, WriteCmds
<1> QED BY <1>1, <1>2, <1>3, QuietTold

\* A snapshot of --capture-scopes.
LEMMA DumpTold ==
    ASSUME Irregular = {}, Going, Dump
    PROVE  Told
<1>s. Framed(frames)
  BY DEF Going, Mirrors, Structure
<1>e. PICK e : e = EventOf("snapshot", None, None, None, None, {})
  OBVIOUS
<1>1. e.cmd = "snapshot" /\ Event2(e) /\ Fits(e)
  <2>1. /\ {} \in SUBSET Names /\ None \in Nodes \cup {None} /\ None \in Procs \cup {None}
        /\ None \in Names \cup {None} /\ "snapshot" \in BuiltinCmds \cup Procs
    BY DEF BuiltinCmds
  <2>2. Emitted(e, "snapshot", None, None, None, None, {})
    BY <1>e, <1>s, <2>1, EventOfIs
  <2> QED BY <2>2 DEF Emitted
<1>2. Traced(e) /\ UNCHANGED frames /\ Quiet
  BY <1>e DEF Dump
<1>3. ~IsWrite(e)
  BY <1>1 DEF IsWrite, WriteCmds
<1> QED BY <1>1, <1>2, <1>3, QuietTold

\* A call of a procedure.
LEMMA CallTold ==
    ASSUME Irregular = {}, Going, Framed(frames'),
           NEW p \in Procs, NEW ref \in Names \cup {None}, Call(p, ref)
    PROVE  Told
<1>s. TypeOK /\ Framed(frames)
  BY DEF Going, DisciplineInv, Mirrors, Structure
<1>p. p \notin BuiltinCmds /\ p # None /\ "cmake_language" \in BuiltinCmds
  BY RecordingAssumption, ReplayAssumption
     DEF RecordingAssumption, ReplayAssumption, BuiltinCmds, OpenerCmds
<1>1. PICK via \in {"cmake_language", p} :
         Traced(EventOf(via, None, None, ref, IF via = p THEN None ELSE p, {}))
  BY DEF Call
<1>2. /\ defs[p] # None /\ frames' = Append(frames, CallFrame(p)) /\ Quiet
  BY DEF Call
<1>e. PICK e : e = EventOf(via, None, None, ref, IF via = p THEN None ELSE p, {})
  OBVIOUS
<1>3. Traced(e)
  BY <1>1, <1>e
<1>4. e.cmd = via /\ e.name = None /\ Event2(e) /\ Fits(e)
  <2>1. /\ {} \in SUBSET Names /\ None \in Nodes \cup {None} /\ None \in Names \cup {None}
        /\ (IF via = p THEN None ELSE p) \in Procs \cup {None}
        /\ via \in BuiltinCmds \cup Procs /\ via # "block"
    BY <1>p DEF BuiltinCmds
  <2>2. Emitted(e, via, None, None, ref, IF via = p THEN None ELSE p, {})
    BY <1>e, <1>s, <2>1, EventOfIs
  <2> QED BY <2>2 DEF Emitted
<1>5. ~IsWrite(e) /\ e.cmd # "parent_scope"
  BY <1>4, <1>p DEF IsWrite, BuiltinCmds, WriteCmds, OpenerCmds
<1>6. defs[p].kind \in {"function", "macro"}
  BY <1>2, <1>s DEF TypeOK, Def
<1>7. PICK f : f = CallFrame(p)
  OBVIOUS
<1>8. f.kind = defs[p].kind
  <2>1. PICK args : args = [x \in Names |-> IF x \in defs[p].params THEN Len(writes') + 1 ELSE Inherit]
    OBVIOUS
  <2>2. f = IF defs[p].kind = "macro"
            THEN [Frame(defs[p].kind, Top.depth + 1, ProcFile[p]) EXCEPT !.par = args]
            ELSE [Frame(defs[p].kind, Top.depth + 1, ProcFile[p]) EXCEPT !.tab = args]
    BY <1>7, <2>1 DEF CallFrame, Frame
  <2> QED BY <2>2 DEF Frame
<1>9. frames' = Append(frames, f) /\ f.kind \in {"function", "macro", "try_compile"}
  BY <1>2, <1>6, <1>7, <1>8
<1> QED BY <1>2, <1>3, <1>4, <1>5, <1>9, PushTold

\* add_subdirectory(), include() and try_compile().
LEMMA EnterTold ==
    ASSUME Irregular = {}, Going, Framed(frames'),
           NEW cmd \in {"add_subdirectory", "include", "try_compile"}, NEW file \in Files,
           Enter(cmd, file)
    PROVE  Told
<1>s. Framed(frames)
  BY DEF Going, Mirrors, Structure
<1> DEFINE kind == IF cmd = "add_subdirectory" THEN "directory" ELSE cmd
           f0   == Frame(kind, Top.depth + 1, file)
<1>1. /\ Traced(EventOf(cmd, None, None, None, None, {})) /\ Quiet
      /\ frames' = Append(frames, IF cmd = "add_subdirectory"
                                  THEN [f0 EXCEPT !.tab = Closure(frames), !.copied = Names]
                                  ELSE f0)
  BY DEF Enter
<1>e. PICK e : e = EventOf(cmd, None, None, None, None, {})
  OBVIOUS
<1>2. Traced(e)
  BY <1>1, <1>e
<1>3. e.cmd = cmd /\ e.name = None /\ Event2(e) /\ Fits(e)
  <2>1. /\ {} \in SUBSET Names /\ None \in Nodes \cup {None} /\ None \in Names \cup {None}
        /\ None \in Procs \cup {None} /\ cmd \in BuiltinCmds \cup Procs /\ cmd # "block"
    BY DEF BuiltinCmds, OpenerCmds
  <2>2. Emitted(e, cmd, None, None, None, None, {})
    BY <1>e, <1>s, <2>1, EventOfIs
  <2> QED BY <2>2 DEF Emitted
<1>4. ~IsWrite(e) /\ e.cmd # "parent_scope"
  BY <1>3 DEF IsWrite
<1>5. PICK f : frames' = Append(frames, f)
               /\ f = IF cmd = "add_subdirectory"
                      THEN [f0 EXCEPT !.tab = Closure(frames), !.copied = Names] ELSE f0
  BY <1>1
<1>6. f.tab = NoTab \/ (f.kind = "directory" /\ f.tab = Closure(frames))
  <2>1. PICK g, c : g = f0 /\ c = Closure(frames)
    OBVIOUS
  <2>2. /\ g = [kind |-> kind, depth |-> Top.depth + 1, unit |-> file, node |-> "none",
                tab |-> NoTab, par |-> NoTab, copied |-> {}, raised |-> {}]
    BY <2>1 DEF Frame
  <2>3. CASE cmd = "add_subdirectory"
    <3>1. f = [g EXCEPT !.tab = c, !.copied = Names] /\ kind = "directory"
      BY <1>5, <2>1, <2>3
    <3>2. f.kind = "directory" /\ f.tab = c
      BY <2>2, <3>1
    <3> QED BY <2>1, <3>2
  <2>4. CASE cmd # "add_subdirectory"
    <3>1. f = g
      BY <1>5, <2>1, <2>4
    <3>2. g.tab = NoTab
      BY <2>2
    <3>3. f.tab = NoTab
      BY <3>1, <3>2
    <3> QED BY <3>3
  <2> QED BY <2>3, <2>4
<1> QED BY <1>1, <1>2, <1>3, <1>4, <1>5, <1>6, PushTold

\* block().
LEMMA BlockTold ==
    ASSUME Irregular = {}, Going, Framed(frames'), NEW n \in Nodes, Block(n)
    PROVE  Told
<1>s. Framed(frames)
  BY DEF Going, Mirrors, Structure
<1>1. /\ n \notin left /\ Traced(EventOf("block", n, None, None, None, {})) /\ Quiet
      /\ frames' = Append(frames, [Frame("block", Top.depth, NodeFile[n]) EXCEPT !.node = n])
  BY DEF Block
<1>e. PICK e : e = EventOf("block", n, None, None, None, {})
  OBVIOUS
<1>2. Traced(e)
  BY <1>1, <1>e
<1>3. e.cmd = "block" /\ e.name = None /\ Event2(e) /\ Fits(e)
  <2>1. /\ {} \in SUBSET Names /\ n \in Nodes \cup {None} /\ None \in Names \cup {None}
        /\ None \in Procs \cup {None} /\ "block" \in BuiltinCmds \cup Procs
    BY DEF BuiltinCmds
  <2>2. Emitted(e, "block", n, None, None, None, {})
    BY <1>e, <1>s, <2>1, EventOfIs
  <2> QED BY <1>1, <2>2 DEF Emitted
<1>4. ~IsWrite(e) /\ e.cmd # "parent_scope"
  BY <1>3 DEF IsWrite
<1>5. PICK f : f = [Frame("block", Top.depth, NodeFile[n]) EXCEPT !.node = n]
  OBVIOUS
<1>6. frames' = Append(frames, f) /\ f.tab = NoTab
  BY <1>1, <1>5 DEF Frame
<1> QED BY <1>1, <1>2, <1>3, <1>4, <1>6, PushTold

\* A step without an event leaves rows and log.
LEMMA SilentExtends ==
    ASSUME TypeOK, RowsOk, UNCHANGED <<rvars, log>>
    PROVE  /\ RowsOk' /\ Extended /\ Len(writes') = Len(writes)
           /\ LogOk => LogOk'
<1>1. UNCHANGED <<stack, scopes, writes, nEvents, log>>
  BY DEF rvars
<1>2. RowsOk'
  BY <1>1 DEF RowsOk, AllOk, RowOk, Parented, Kinded
<1>3. Extended
  <2>1. Grown(scopes, scopes)
    BY DEF Grown
  <2>2. Len(scopes) \in Nat /\ Parented(scopes) /\ writes \in Seq(WriteRow)
    BY LenProperties DEF TypeOK, RowsOk
  <2> QED BY <1>1, <2>1, <2>2 DEF Extended
<1>4. ASSUME LogOk PROVE LogOk'
  <2>1. \A k \in 1..Len(log) : EntryOk(k)'
    BY <1>3, <1>4, EntryStays
  <2>2. log' \in Seq(LogRow) /\ Len(log') = nEvents' /\ Len(log') = Len(log)
    BY <1>1, <1>4 DEF LogOk
  <2>3. \A k \in 1..Len(log') : EntryOk(k)'
    BY <2>1, <2>2
  <2> QED BY <2>2, <2>3 DEF LogOk
<1> QED BY <1>1, <1>2, <1>3, <1>4

\* The end of a body, an included file or a block().
LEMMA ShrinkTold ==
    ASSUME Going, NEW k \in 1..Len(frames), k < Len(frames), NEW lv,
           Silent(SubSeq(frames, 1, k), lv), Stale(Base, SubSeq(frames, 1, k), lv)
    PROVE  Told
<1>s. TypeOK /\ Structure /\ Framed(frames) /\ RowsOk
  BY DEF Going, DisciplineInv, Mirrors, Structure
<1>1. /\ frames' = SubSeq(frames, 1, k) /\ left' = lv /\ UNCHANGED <<rvars, cache, log>>
  BY DEF Silent
<1>2. UNCHANGED <<stack, pending, scopes, writes>> /\ Stale(Base, frames', left')
  BY <1>1 DEF rvars
<1>3. /\ Framed(frames') /\ Len(frames') = k
      /\ \A i \in 1..k : Due'[i] = Due[i] /\ frames'[i] = frames[i]
  BY <1>1, <1>2, <1>s, ShrinkKeepsStructure DEF Structure
<1>4. RowsOk' /\ Extended /\ Len(writes') = Len(writes) /\ (LogOk => LogOk')
  BY <1>1, <1>s, SilentExtends
<1>5. ASSUME project.passes, NEW w \in 1..Len(writes') PROVE Unchanged(w)'
  <2>1. LogOk /\ Unchanged(w) /\ w \in 1..Len(writes)
    BY <1>4, <1>5 DEF Going
  <2> QED BY <1>1, <1>3, <1>4, <1>s, <2>1, ShrinkUnchanged
<1> QED BY <1>4, <1>5 DEF Told, Going

\* return(), and the end of a file or of a procedure.
LEMMA ReturnTold ==
    ASSUME Going, Return
    PROVE  Told
<1>1. TypeOK /\ Structure /\ Executing(frames) > 1
  BY DEF Going, DisciplineInv, Mirrors, Return
<1>2. /\ Executing(frames) - 1 \in 1..Len(frames) /\ Executing(frames) - 1 < Len(frames)
      /\ Stale(Base, SubSeq(frames, 1, Executing(frames) - 1), left)
  BY <1>1, ReturnLeavesStale
<1>3. PICK k, lv : k = Executing(frames) - 1 /\ lv = left
  OBVIOUS
<1>4. Silent(SubSeq(frames, 1, k), lv) /\ Stale(Base, SubSeq(frames, 1, k), lv)
      /\ k \in 1..Len(frames) /\ k < Len(frames)
  BY <1>2, <1>3 DEF Return
<1> QED BY <1>4, ShrinkTold

\* endblock().
LEMMA EndBlockTold ==
    ASSUME Going, EndBlock
    PROVE  Told
<1>1. TypeOK /\ Structure /\ Top.kind = "block"
  BY DEF Going, DisciplineInv, Mirrors, EndBlock
<1>2. /\ Len(frames) - 1 \in 1..Len(frames) /\ Len(frames) - 1 < Len(frames)
      /\ Stale(Base, SubSeq(frames, 1, Len(frames) - 1), left \cup {Top.node})
  BY <1>1, EndBlockLeavesStale
<1>3. PICK k, lv : k = Len(frames) - 1 /\ lv = left \cup {Top.node}
  OBVIOUS
<1>4. Silent(SubSeq(frames, 1, k), lv) /\ Stale(Base, SubSeq(frames, 1, k), lv)
      /\ k \in 1..Len(frames) /\ k < Len(frames)
  BY <1>2, <1>3 DEF EndBlock
<1> QED BY <1>4, ShrinkTold

\* A file parsed inside an include.
LEMMA NextFileTold ==
    ASSUME Going, project \in Project, NextFile
    PROVE  Told
<1>s. TypeOK /\ Structure /\ Framed(frames) /\ RowsOk /\ Top.kind = "include"
  BY DEF Going, DisciplineInv, Mirrors, Structure, NextFile
<1>1. PICK unit \in project.files : Silent([frames EXCEPT ![Len(frames)].unit = unit], left)
  BY DEF NextFile
<1>2. unit \in Files
  BY <1>1 DEF Project
<1>3. /\ frames' = [frames EXCEPT ![Len(frames)].unit = unit]
      /\ UNCHANGED <<rvars, cache, log, left>>
  BY <1>1 DEF Silent
<1>4. UNCHANGED <<stack, pending, scopes, writes, left>>
  BY <1>3 DEF rvars
<1>5. /\ Structure' /\ Due' = Due /\ Len(frames') = Len(frames)
      /\ \A i \in 1..Len(frames) : frames'[i] = IF i = Len(frames)
                                                THEN [Top EXCEPT !.unit = unit] ELSE frames[i]
  BY <1>2, <1>3, <1>4, <1>s, NextFileKeepsStructure
<1>6. Top \in FrameSet /\ Len(frames) \in 1..Len(frames)
  <2>1. Len(frames) \in 1..Len(frames)
    BY <1>s DEF Framed
  <2> QED BY <1>s, <2>1, FrameFacts DEF Top
<1>7. \A i \in 1..Len(frames) : /\ frames'[i].kind = frames[i].kind
                                /\ frames'[i].node = frames[i].node /\ frames'[i].tab = frames[i].tab
  <2> TAKE i \in 1..Len(frames)
  <2>1. CASE i = Len(frames)
    <3>1. frames'[i] = [Top EXCEPT !.unit = unit] /\ Top = frames[i]
      BY <1>5, <2>1 DEF Top
    <3> QED BY <1>6, <3>1 DEF FrameSet
  <2>2. CASE i # Len(frames)
    <3>1. frames'[i] = frames[i]
      BY <1>5, <2>2
    <3> QED BY <3>1
  <2> QED BY <2>1, <2>2
<1>8. RowsOk' /\ Extended /\ Len(writes') = Len(writes) /\ (LogOk => LogOk')
  BY <1>3, <1>s, SilentExtends
<1>9. ASSUME project.passes, NEW w \in 1..Len(writes') PROVE Unchanged(w)'
  <2>1. LogOk /\ Unchanged(w) /\ w \in 1..Len(writes)
    BY <1>8, <1>9 DEF Going
  <2>2. PICK n \in 1..Len(frames) : n = Len(frames)
    BY <1>6
  <2>3. Framed(frames') /\ Len(frames') = n /\ UNCHANGED cache
    BY <1>3, <1>5, <2>2 DEF Structure
  <2>4. \A i \in 1..n : /\ Due'[i].id = Due[i].id
                        /\ frames'[i].kind = frames[i].kind /\ frames'[i].node = frames[i].node
                        /\ frames'[i].tab = frames[i].tab
    BY <1>5, <1>7, <2>2
  <2> QED BY <1>8, <1>s, <2>1, <2>3, <2>4, ShrinkUnchanged
<1> QED BY <1>8, <1>9 DEF Told, Going

\* The end of the trace closes the scopes that are open.
LEMMA EndTold ==
    ASSUME TypeOK, RowsOk, project.passes => LogOk, End
    PROVE  /\ RowsOk' /\ outcome' # "running"
           /\ project.passes => LogOk'
<1>1. /\ stack' = <<>> /\ scopes' = CloseRows(scopes, stack, 0, nEvents) /\ outcome' # "running"
      /\ UNCHANGED <<writes, nEvents, log>>
  BY DEF End, Finish
<1>2. /\ Grown(scopes, scopes') /\ Len(scopes') = Len(scopes) /\ Parented(scopes')
      /\ Len(scopes) \in Nat
  <2>1. scopes \in Seq(ScopeRow) /\ Parented(scopes)
    BY DEF TypeOK, RowsOk
  <2> QED BY <1>1, <2>1, CloseKeeps, LenProperties
<1>3. RowsOk'
  <2>1. AllOk(writes', nEvents', Len(scopes'))
    BY <1>1, <1>2 DEF RowsOk
  <2>2. Kinded(stack', scopes')
    <3>1. Len(stack') = 0
      BY <1>1
    <3> QED BY <3>1 DEF Kinded
  <2> QED BY <1>2, <2>1, <2>2 DEF RowsOk
<1>4. Extended
  <2>1. writes \in Seq(WriteRow)
    BY DEF TypeOK
  <2> QED BY <1>1, <1>2, <2>1 DEF Extended
<1>5. ASSUME project.passes PROVE LogOk'
  <2>1. LogOk
    BY <1>5
  <2>2. \A k \in 1..Len(log) : EntryOk(k)'
    BY <1>4, <2>1, EntryStays
  <2>3. log' \in Seq(LogRow) /\ Len(log') = nEvents' /\ Len(log') = Len(log)
    BY <1>1, <2>1 DEF LogOk
  <2>4. \A k \in 1..Len(log') : EntryOk(k)'
    BY <2>2, <2>3
  <2> QED BY <2>3, <2>4 DEF LogOk
<1> QED BY <1>1, <1>3, <1>5

\* Nothing is recorded at the start.
LEMMA InitTold ==
    ASSUME Init
    PROVE  PassesInv
<1>1. /\ stack = <<>> /\ scopes = <<>> /\ writes = <<>> /\ nEvents = 0 /\ log = <<>>
  BY DEF Init, RInit
<1>2. Len(stack) = 0 /\ Len(scopes) = 0 /\ Len(writes) = 0 /\ Len(log) = 0 /\ log \in Seq(LogRow)
  BY <1>1, EmptySeq
<1>3. RowsOk
  BY <1>2 DEF RowsOk, AllOk, Parented, Kinded
<1>4. LogOk /\ \A w \in 1..Len(writes) : Unchanged(w)
  BY <1>1, <1>2 DEF LogOk
<1> QED BY <1>3, <1>4, InitMirrors DEF PassesInv

\* Every step of a run keeps the invariant, action by action.
LEMMA PassesRun ==
    ASSUME Irregular = {}, PassesInv, Run, UNCHANGED project
    PROVE  PassesInv'
<1>1. DisciplineInv /\ ContainInv /\ ReadsResolve /\ project \in Project /\ TypeOK /\ RowsOk
      /\ (project.passes => LogOk) /\ (outcome = "running" => Mirrors /\ Going)
  BY DEF PassesInv, RecordingInv, Going, DisciplineInv
<1>2. /\ \A u \in project.uses : u[1] \in Names /\ u[2] \in Names \cup {None}
      /\ Used \in SUBSET Names
      /\ project.procs \in SUBSET Procs /\ project.nodes \in SUBSET Nodes
      /\ project.files \in SUBSET Files
  BY <1>1 DEF Project, Used
<1>k. Kept => Framed(frames')
  BY DEF Kept, Mirrors, Structure
<1>r. RecordingInv'
  BY RunKeeps DEF PassesInv
<1>t. Told => PassesInv'
  BY <1>r DEF Told, PassesInv
<1>3. ASSUME NEW cmd \in WriteCmds \cap project.cmds, NEW u \in project.uses,
             Write(cmd, u[1], u[2])
      PROVE  Told
  <2>1. PICK x \in Names, ref \in Names \cup {None} : x = u[1] /\ ref = u[2]
    BY <1>2
  <2>2. Write(cmd, x, ref) /\ outcome = "running"
    BY <1>3, <2>1, TracedRuns DEF Write
  <2> QED BY <1>1, <2>2, WriteTold
<1>4. ASSUME NEW x \in Used, Read(x)
      PROVE  Told
  <2>1. outcome = "running" /\ x \in Names \cup {None}
    BY <1>2, <1>4, TracedRuns DEF Read
  <2> QED BY <1>1, <1>4, <2>1, ReadsTold
<1>5. ASSUME NEW p \in project.procs, NEW d \in ProcDefs[p], Define(p, d)
      PROVE  Told
  <2>1. outcome = "running" /\ p \in Procs /\ d \in Def
    BY <1>2, <1>5, TracedRuns, RecordingAssumption DEF Define, RecordingAssumption
  <2> QED BY <1>1, <1>5, <2>1, DefineTold
<1>6. ASSUME NEW p \in project.procs, NEW ref \in Used \cup {None}, Call(p, ref)
      PROVE  Told
  <2>1. outcome = "running" /\ p \in Procs /\ ref \in Names \cup {None}
    BY <1>2, <1>6, TracedRuns DEF Call
  <2>2. Kept
    BY <1>1, <1>6, <2>1, CallKept
  <2> QED BY <1>1, <1>6, <1>k, <2>1, <2>2, CallTold
<1>7. ASSUME NEW cmd \in {"add_subdirectory", "include", "try_compile"} \cap project.cmds,
             NEW f \in project.files, Enter(cmd, f)
      PROVE  Told
  <2>1. outcome = "running" /\ f \in Files
    BY <1>2, <1>7, TracedRuns DEF Enter
  <2>2. Kept
    BY <1>1, <1>7, <2>1, EnterKept
  <2> QED BY <1>1, <1>7, <1>k, <2>1, <2>2, EnterTold
<1>8. ASSUME NEW n \in project.nodes, Block(n)
      PROVE  Told
  <2>1. outcome = "running" /\ n \in Nodes
    BY <1>2, <1>8, TracedRuns DEF Block
  <2>2. Kept
    BY <1>1, <1>8, <2>1, BlockKept
  <2> QED BY <1>1, <1>8, <1>k, <2>1, <2>2, BlockTold
<1>9. ASSUME Dump PROVE Told
  <2>1. outcome = "running"
    BY <1>9, TracedRuns DEF Dump
  <2> QED BY <1>1, <1>9, <2>1, DumpTold
<1>10. ASSUME Return PROVE Told
  <2>1. outcome = "running"
    BY <1>10 DEF Return
  <2> QED BY <1>1, <1>10, <2>1, ReturnTold
<1>11. ASSUME EndBlock PROVE Told
  <2>1. outcome = "running"
    BY <1>11 DEF EndBlock
  <2> QED BY <1>1, <1>11, <2>1, EndBlockTold
<1>12. ASSUME NextFile PROVE Told
  <2>1. outcome = "running"
    BY <1>12 DEF NextFile
  <2> QED BY <1>1, <1>12, <2>1, NextFileTold
<1>13. ASSUME End PROVE PassesInv'
  <2>1. RowsOk' /\ outcome' # "running" /\ (project.passes => LogOk')
    BY <1>1, <1>13, EndTold
  <2> QED BY <1>r, <2>1 DEF PassesInv
<1> QED BY <1>t, <1>3, <1>4, <1>5, <1>6, <1>7, <1>8, <1>9, <1>10, <1>11, <1>12, <1>13 DEF Run

\* So does every step of the specification.
LEMMA PassesSteps ==
    ASSUME Irregular = {}, PassesInv, [Next]_vars
    PROVE  PassesInv'
<1>1. CASE Next
  BY <1>1, PassesRun DEF Next
<1>2. CASE UNCHANGED vars
  <2>1. UNCHANGED <<rvars, frames, cache, env, cleared, left, project, truth, log>>
    BY <1>2 DEF vars, cvars
  <2>2. UNCHANGED <<stack, scopes, writes, pending, outcome>>
    BY <2>1 DEF rvars
  <2>3. RecordingInv'
    BY RecordingSteps DEF PassesInv
  <2>4. TypeOK /\ RowsOk
    BY DEF PassesInv, RecordingInv, DisciplineInv
  <2>5. RowsOk' /\ Extended /\ Len(writes') = Len(writes) /\ (LogOk => LogOk')
    BY <2>1, <2>4, SilentExtends
  <2>6. Due' = Due
    BY <2>1, <2>2 DEF Due, Base
  <2>7. ASSUME project.passes, outcome = "running", NEW w \in 1..Len(writes') PROVE Unchanged(w)'
    <3>1. LogOk /\ Unchanged(w) /\ w \in 1..Len(writes) /\ Framed(frames)
      BY <2>5, <2>7 DEF PassesInv, RecordingInv, Mirrors, Structure
    <3>2. PICK n \in 1..Len(frames) : n = Len(frames)
      BY <3>1 DEF Framed
    <3>3. Framed(frames') /\ Len(frames') = n /\ UNCHANGED cache
      BY <2>1, <3>1, <3>2
    <3>4. \A i \in 1..n : /\ Due'[i].id = Due[i].id
                          /\ frames'[i].kind = frames[i].kind /\ frames'[i].node = frames[i].node
                          /\ frames'[i].tab = frames[i].tab
      BY <2>1, <2>6
    <3> QED BY <2>4, <2>5, <3>1, <3>3, <3>4, ShrinkUnchanged
  <2> QED BY <2>1, <2>2, <2>3, <2>5, <2>7 DEF PassesInv
<1> QED BY <1>1, <1>2

-----------------------------------------------------------------------------
(* What the passes report.                                                 *)

\* A value that is said to be found nowhere, or to be overwritten before it is
\* read, was seen by no read; one said to be read once was seen there.
LEMMA FindingsOf ==
    ASSUME TypeOK, RowsOk, LogOk
    PROVE  FindingsTrue
<1>1. DOMAIN writes = 1..Len(writes) /\ DOMAIN log = 1..Len(log) /\ None \notin Names
  BY ReplayAssumption DEF TypeOK, LogOk, ReplayAssumption
<1>2. \A k \in 1..Len(log) : ReadTrue(k)
  BY DEF LogOk, EntryOk
<1>3. ASSUME NEW x \in Names, NEW e \in ReadsOf(x)
      PROVE  \/ x \in log[e].vague
             \/ log[e].sees[x] = log[e].read
             \/ log[e].sees[x] = NoRow /\ writes[log[e].read].cmd = "unset_cache"
  <2>1. e \in 1..Len(log) /\ log[e].ref = x /\ log[e].joined /\ x # None
    BY <1>1, <1>3 DEF ReadsOf
  <2> QED BY <1>2, <2>1 DEF ReadTrue
<1>4. ASSUME NEW c \in Clobbers, NEW e \in ReadsOf(c[1])
      PROVE  c[1] \in log[e].vague \/ ~Saw(e, c[1], c[2])
  <2>1. PICK x \in Names : c \in {x} \X RowsOf(x) \X RowsOf(x)
    BY <1>4 DEF Clobbers
  <2>2. c[1] = x /\ c[2] \in RowsOf(x) /\ Observers(c[2]) = {}
    BY <1>4, <2>1 DEF Clobbers
  <2>3. c[2] # NoRow
    BY <1>1, <2>2 DEF RowsOf, NoRow
  <2>4. log[e].read # c[2]
    BY <1>4, <2>2 DEF Observers, ReadsOf
  <2> QED BY <1>3, <1>4, <2>1, <2>2, <2>3, <2>4 DEF Saw
<1>5. ASSUME NEW u \in SingleUseVariables, NEW e \in ReadsOf(u[1])
      PROVE  Saw(e, u[1], u[2])
  <2>1. PICK x \in Names : u \in {x} \X RowsOf(x) \X ReadsOf(x)
    BY <1>5 DEF SingleUseVariables
  <2>2. u[1] = x /\ ReadOnce(x, u[2], u[3]) /\ PlainSet(u[2])
    BY <1>5, <2>1 DEF SingleUseVariables
  <2>3. e = u[3] /\ log[e].read = u[2]
    BY <1>5, <2>2 DEF ReadOnce, Observers
  <2>4. writes[u[2]].cmd = "set"
    BY <2>2 DEF PlainSet
  <2> QED BY <1>3, <1>5, <2>1, <2>2, <2>3, <2>4 DEF Saw
<1>6. ASSUME NEW o \in OptionAfterUse
      PROVE  Saw(o[3], o[1], NoRow)
  <2>1. PICK x \in Names : o \in {x} \X Declaration(x) \X ReadsOf(x)
    BY <1>6 DEF OptionAfterUse
  <2>2. o[1] = x /\ o[3] \in ReadsOf(x) /\ log[o[3]].read = NoRow
    BY <1>6, <2>1 DEF OptionAfterUse
  <2> QED BY <1>3, <2>1, <2>2 DEF Saw
<1>7. ASSUME NEW e \in UndefinedReads
      PROVE  Saw(e, log[e].ref, NoRow)
  <2>1. e \in 1..Len(log) /\ log[e].ref # None /\ log[e].joined /\ log[e].read = NoRow
    BY <1>1, <1>7 DEF UndefinedReads
  <2> QED BY <1>2, <2>1 DEF ReadTrue, Saw
<1> QED BY <1>4, <1>5, <1>6, <1>7 DEF FindingsTrue

\* What a read through an alias would see without it, what a function hands back
\* to the scope it came from, and what a macro sets.
LEMMA AdviceOf ==
    ASSUME TypeOK, RowsOk, LogOk
    PROVE  AdviceHarmless
<1>1. /\ DOMAIN writes = 1..Len(writes) /\ DOMAIN log = 1..Len(log) /\ Len(scopes) \in Nat
      /\ Parented(scopes)
  BY LenProperties DEF TypeOK, LogOk, RowsOk
<1>2. \A k \in 1..Len(log) : log[k] \in LogRow /\ EntryOk(k)
  BY DEF LogOk
<1>3. ASSUME NEW w \in PureAliases, NEW r \in ReadsOf(log[writes[w].event].name)
      PROVE  Saw(r, log[writes[w].event].ref, log[writes[w].event].sees[log[writes[w].event].ref])
  <2>1. PICK e, x : e = writes[w].event /\ x = log[e].ref
    OBVIOUS
  <2>2. /\ w \in 1..Len(writes) /\ PlainSet(w) /\ x \notin {log[e].name, None}
        /\ ReadsOf(log[e].name) = Observers(w) /\ NotRewritten(x, e)
        /\ TopLevel(e) /\ TopLevel(r)
    BY <1>1, <1>3, <2>1 DEF PureAliases
  <2>3. e \in 1..Len(log)
    BY <2>1, <2>2 DEF RowsOk, AllOk, RowOk, LogOk
  <2>4. x \in Names
    BY <1>2, <2>1, <2>2, <2>3 DEF LogRow
  <2>5. r \in 1..Len(log) /\ log[r].read = w /\ w # NoRow
    BY <1>1, <1>3, <2>1, <2>2 DEF Observers, NoRow
  <2>6. TopSet(w) /\ Spared(w, x)
    BY <2>1, <2>2 DEF TopSet, Spared, PlainSet
  <2>7. AliasTrue(r)
    BY <1>2, <2>5 DEF EntryOk
  <2>8. log[r].sees[x] = log[e].sees[x]
    BY <2>1, <2>2, <2>4, <2>5, <2>6, <2>7 DEF AliasTrue
  <2> QED BY <2>1, <2>8 DEF Saw
<1>4. ASSUME NEW e \in ParentScopeRoundTrips
      PROVE  Saw(e, log[e].name, log[e].outer[log[e].name])
  <2>1. PICK from, x : from = writes[log[e].read].scope /\ x = log[e].name
    OBVIOUS
  <2>2. /\ e \in 1..Len(log) /\ log[e].cmd = "parent_scope" /\ log[e].ref = x /\ log[e].joined
        /\ EnclosingFunctionScopes(e) # {} /\ log[e].read # NoRow /\ from # NoRow
        /\ MaxOf(EnclosingFunctionScopes(e)) \notin Around(from)
    BY <1>1, <1>4, <2>1 DEF ParentScopeRoundTrips, EventInSource
  <2>3. MaxOf(EnclosingFunctionScopes(e)) \in EnclosingFunctionScopes(e)
    <3>1. PICK s : s = log[e].scope
      OBVIOUS
    <3>2. s \in 1..Len(scopes)
      BY <1>2, <2>2, <3>1 DEF EntryOk
    <3>3. Around(s) \subseteq 1..s /\ s \in Nat
      BY <1>1, <3>2, UpBelow, AroundIs
    <3>4. EnclosingFunctionScopes(e) \in SUBSET Nat /\ \A m \in EnclosingFunctionScopes(e) : m <= s
      BY <3>1, <3>3 DEF EnclosingFunctionScopes
    <3> QED BY <2>2, <3>3, <3>4, MaxOfIs
  <2>4. RaiseTrue(e)
    BY <1>2, <2>2 DEF EntryOk
  <2>5. x \in log[e].vague \/ log[e].sees[x] = log[e].outer[x]
    BY <2>1, <2>2, <2>3, <2>4 DEF RaiseTrue
  <2> QED BY <2>1, <2>5 DEF Saw
<1>5. ASSUME NEW w \in ScopeLeaks
      PROVE  ~log[writes[w].event].inside
  <2>1. PICK e : e = writes[w].event
    OBVIOUS
  <2>2. w \in 1..Len(writes) /\ scopes[log[e].scope].kind = "macro"
    BY <1>1, <1>5, <2>1 DEF ScopeLeaks
  <2>3. e \in 1..Len(log)
    BY <2>1, <2>2 DEF RowsOk, AllOk, RowOk, LogOk
  <2> QED BY <1>2, <2>1, <2>2, <2>3 DEF EntryOk, LeakTrue
<1> QED BY <1>3, <1>4, <1>5 DEF AdviceHarmless

\* Every finding of clobbers, single-use-variables, option-after-use and
\* undefined-reads is true of CMake's own execution of the project, and what
\* alias-variables and scope-leaks advise changes nothing, whatever the project
\* (clobbers.rs:1, singleuse.rs:1, ordering.rs:1, undefined.rs:1, aliasvars.rs:1,
\* scope_leaks.rs:1).
THEOREM VariableFindingsAreTrue == ASSUME Irregular = {} PROVE Spec => []VariableFindingsHold
<1>1. PassesInv /\ [Next]_vars => PassesInv'
  BY PassesSteps
<1>2. PassesInv => VariableFindingsHold
  <2> SUFFICES ASSUME PassesInv, project.passes PROVE FindingsTrue /\ AdviceHarmless
    BY DEF VariableFindingsHold
  <2>1. TypeOK /\ RowsOk /\ LogOk
    BY DEF PassesInv, RecordingInv, DisciplineInv
  <2> QED BY <2>1, FindingsOf, AdviceOf
<1> QED BY <1>1, <1>2, InitTold, PTL DEF Spec

=============================================================================
