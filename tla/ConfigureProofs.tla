--------------------------- MODULE ConfigureProofs ---------------------------
(***************************************************************************)
(* What holds of a configure of any length, in three parts.                *)
(*                                                                         *)
(* Which targets a command at directory scope reaches: CMake hands         *)
(* properties down directory by directory, as they are entered and as      *)
(* targets are created, while the passes have only the parents of scopes   *)
(* and the order of events.  DirectoryInv says of every open directory and *)
(* of every target what it has of which command.  From it follow what      *)
(* directory-commands lists and that the plan of a plain command survives  *)
(* its verification.                                                       *)
(*                                                                         *)
(* What the rows of ingestion say: ingest reads links and requirements off *)
(* the words of the calls, by rules of its own.  RowsInv says how the rows *)
(* stand to what CMake has linked and required at every step.  From it     *)
(* follow that the edges and requirements are CMake's, and that a call     *)
(* reported as shadowed is harmless.                                       *)
(*                                                                         *)
(* What the searches over links find: each grows a set of targets, or a    *)
(* queue, by a rule that reads rows, and CMake's Closure grows by what its *)
(* targets export.  A set that holds the dependencies of its members holds *)
(* the closure of each, and a set that grows inside a finite one is closed *)
(* in the end; so the searches can be compared with CMake's.               *)
(***************************************************************************)
EXTENDS Modernize, RedundantLinks, Overshare, GraphView, FiniteSetTheorems, SequenceTheorems, NaturalsInduction, WellFoundedInduction, TLAPS

-----------------------------------------------------------------------------
(* What is invariant.                                                      *)

ScopeRow == [kind : {"root"} \cup UNION {p.kinds : p \in Projects}, parent : Nat]
Calls == UNION {ToSet(p.lead) \cup p.calls : p \in Projects}
Fields == {"dir", "props", "home", "own", "iface", "links", "ilinks"}

TypeInv ==
    /\ project \in Projects
    /\ scopes \in Seq(ScopeRow) /\ stack \in Seq(Nat)
    /\ events \in Seq([c : Calls, scope : Nat])
    /\ DOMAIN world = Fields /\ world.dir \in Seq(Nat)

\* A scope comes after its parent.
Parented(rows) == \A s \in 1..Len(rows) : rows[s].parent \in 0..(s - 1)

\* What a directory command may act in: a directory, or a scratch project.
Acting == DirKinds \cup {"try_compile"}

Ascending(s) == \A i, j \in 1..Len(s) : i < j => s[i] < s[j]

\* The scopes around an open scope are those below it on the stack, and CMake's
\* directories are those of them it may act in.
TreeInv ==
    /\ Parented(scopes)
    /\ Len(stack) > 0 /\ Ascending(stack) /\ scopes[stack[1]].kind = "root"
    /\ \A i \in 1..Len(stack) : /\ stack[i] \in 1..Len(scopes)
                                /\ Chain(stack[i]) = {stack[j] : j \in 1..i}
    /\ Len(world.dir) > 0 /\ Ascending(world.dir)
    /\ {world.dir[k] : k \in 1..Len(world.dir)}
         = {s \in {stack[j] : j \in 1..Len(stack)} : scopes[s].kind \in Acting}

\* Where event e acts, and what it gives there.
DirOf(e) == Innermost(events[e].scope, Acting)
GivenBy(e) == DirItems(events[e].c, e, DirOf(e))

IsDir(e) == events[e].c.cmd \in DOMAIN DirKind
From(items, e) == {i \in items : i.ev = e}

EventsInv ==
    \A e \in 1..Len(events) :
        /\ events[e].scope \in 1..Len(scopes)
        /\ DirOf(e) \in 1..Len(scopes) /\ scopes[DirOf(e)].kind \in Acting

\* An open directory has what was given in it and in the directories around it,
\* up to a scratch project.
DirOk(d) ==
    /\ d \in DOMAIN world.props
    /\ \A i \in world.props[d] : i.ev \in 1..Len(events)
    /\ \A e \in 1..Len(events) : IsDir(e) =>
         From(world.props[d], e) = IF ChainContains(d, DirOf(e)) THEN GivenBy(e) ELSE {}

PropsInv ==
    /\ DOMAIN world.props \subseteq 1..Len(scopes)
    /\ \A k \in 1..Len(world.dir) : DirOk(world.dir[k])

Compiles(t) == ~targets[t].imported /\ targets[t].type \notin {"INTERFACE", "UTILITY"}

\* Target t has what event e gives: e came first, in a directory around it; or e
\* reaches back, in t's own directory.
Given(e, t) ==
    /\ Compiles(t)
    /\ \/ e < targets[t].ev /\ ChainContains(DefScope(t), DirOf(e))
       \/ events[e].c.cmd \in Retroactive /\ world.home[t] = DirOf(e)

TargetOk(t) ==
    /\ targets[t].type # "ALIAS" /\ (targets[t].type = "UNKNOWN" => targets[t].imported)
    /\ world.home[t] = Innermost(DefScope(t), Acting)
    /\ world.home[t] \in 1..Len(scopes) /\ scopes[world.home[t]].kind \in DirKinds
    /\ ~HasTryCompile(DefScope(t))
    /\ \A i \in world.own[t] : i.ev \in 1..Len(events)
    /\ \A e \in 1..Len(events) : IsDir(e) =>
         From(world.own[t], e) = IF Given(e, t) THEN GivenBy(e) ELSE {}

TargetsInv ==
    /\ \A t \in DOMAIN targets : targets[t].ev \in 1..Len(events) /\ ~IsDir(targets[t].ev)
    /\ DOMAIN world.home = Real /\ DOMAIN world.own = Real
    /\ \A t \in Real : TargetOk(t)

DirectoryInv == TypeInv /\ TreeInv /\ EventsInv /\ PropsInv /\ TargetsInv

-----------------------------------------------------------------------------
(* The tree of scopes.                                                     *)

\* A set of numbers has a smallest.
LEMMA LeastOf ==
    ASSUME NEW S \in SUBSET Nat, S # {}
    PROVE  \E n \in S : \A m \in S : n <= m
<1> DEFINE less == {p \in Nat \X Nat : p[1] < p[2]}
<1>1. IsWellFoundedOn(less, Nat)
  BY NatLessThanWellFounded DEF OpToRel
<1>2. PICK n \in S : \A m \in S : ~(<<m, n>> \in less)
  <2> HIDE DEF less
  <2> QED BY <1>1, WFMin
<1>3. ASSUME NEW m \in S PROVE n <= m
  <2>1. m \in Nat /\ n \in Nat
    OBVIOUS
  <2>2. ~(m < n)
    BY <1>2, <2>1
  <2> QED BY <2>1, <2>2
<1> QED BY <1>3

\* Chain(s), of any table of scopes.
Up(rows, s) ==
    LET up[n \in 0..Len(rows)] == IF n = 0 THEN {} ELSE {n} \cup up[rows[n].parent]
    IN  up[s]

\* The sets that hold with a scope its parent.
Upward(rows) ==
    {S \in SUBSET (0..Len(rows)) : \A k \in S : k # 0 => rows[k].parent \in S}

\* The recursion has a solution: the scopes in every upward closed set.
LEMMA UpSolved ==
    ASSUME NEW rows, Len(rows) \in Nat, Parented(rows)
    PROVE  LET f == [n \in 0..Len(rows) |->
                        {m \in 1..Len(rows) : \A S \in Upward(rows) : n \in S => m \in S}]
           IN  f = [n \in 0..Len(rows) |-> IF n = 0 THEN {} ELSE {n} \cup f[rows[n].parent]]
<1> DEFINE N == Len(rows)
           A(n) == {m \in 1..N : \A S \in Upward(rows) : n \in S => m \in S}
           f == [n \in 0..N |-> A(n)]
<1>1. ASSUME NEW n \in 0..N
      PROVE  A(n) = IF n = 0 THEN {} ELSE {n} \cup f[rows[n].parent]
  <2>1. CASE n = 0
    <3>1. {0} \in Upward(rows)
      BY DEF Upward
    <3> QED BY <2>1, <3>1
  <2>2. CASE n # 0
    <3> DEFINE p == rows[n].parent
    <3>1. n \in 1..N /\ p \in 0..N
      BY <2>2 DEF Parented
    <3>2. A(n) \subseteq {n} \cup A(p)
      <4> SUFFICES ASSUME NEW m \in A(n), m # n, m \notin A(p) PROVE FALSE
        OBVIOUS
      <4>1. PICK S \in Upward(rows) : p \in S /\ m \notin S
        OBVIOUS
      <4>2. S \cup {n} \in Upward(rows)
        BY <4>1, <3>1 DEF Upward
      <4> QED BY <4>1, <4>2
    <3>3. {n} \cup A(p) \subseteq A(n)
      <4>1. \A S \in Upward(rows) : n \in S => p \in S
        BY <2>2 DEF Upward
      <4> QED BY <3>1, <4>1
    <3>4. f[p] = A(p)
      BY <3>1
    <3> QED BY <2>2, <3>2, <3>3, <3>4
  <2> QED BY <2>1, <2>2
<1> HIDE DEF A
<1>2. f = [n \in 0..N |-> IF n = 0 THEN {} ELSE {n} \cup f[rows[n].parent]]
  BY <1>1
<1> QED BY <1>2 DEF A

\* The scopes around a scope are itself and those around its parent.
LEMMA UpIs ==
    ASSUME NEW rows, Len(rows) \in Nat, Parented(rows)
    PROVE  /\ Up(rows, 0) = {}
           /\ \A s \in 1..Len(rows) : Up(rows, s) = {s} \cup Up(rows, rows[s].parent)
<1> DEFINE N == Len(rows)
           Eq(g) == g = [n \in 0..N |-> IF n = 0 THEN {} ELSE {n} \cup g[rows[n].parent]]
           up == CHOOSE g : Eq(g)
           f == [n \in 0..N |-> {m \in 1..N : \A S \in Upward(rows) : n \in S => m \in S}]
<1>0. Eq(f)
  BY UpSolved
<1>1. \E g : Eq(g)
  <2> HIDE DEF f
  <2> QED BY <1>0
<1>2. Eq(up)
  BY <1>1
<1>3. \A s : Up(rows, s) = up[s]
  BY DEF Up
<1> HIDE DEF up
<1>4. up[0] = {}
  BY <1>2
<1>5. ASSUME NEW s \in 1..N PROVE up[s] = {s} \cup up[rows[s].parent]
  BY <1>2
<1> QED BY <1>3, <1>4, <1>5

\* Rows are only added.
LEMMA UpKept ==
    ASSUME NEW old, NEW rows, Len(old) \in Nat, Len(rows) \in Nat, Parented(old), Parented(rows),
           Len(old) <= Len(rows), \A r \in 1..Len(old) : rows[r] = old[r]
    PROVE  \A s \in 0..Len(old) : Up(rows, s) = Up(old, s)
<1> DEFINE Bad == {s \in 0..Len(old) : Up(rows, s) # Up(old, s)}
<1> SUFFICES ASSUME Bad # {} PROVE FALSE
  OBVIOUS
<1>1. PICK s \in Bad : \A m \in Bad : s <= m
  <2>1. Bad \in SUBSET Nat
    OBVIOUS
  <2> HIDE DEF Bad
  <2> QED BY <2>1, LeastOf
<1>2. s \in 1..Len(old)
  <2>1. Up(rows, 0) = {} /\ Up(old, 0) = {}
    BY UpIs
  <2> QED BY <2>1
<1>3. rows[s].parent = old[s].parent /\ s \in 1..Len(rows) /\ old[s].parent \in 0..(s - 1)
  BY <1>2 DEF Parented
<1>4. Up(rows, old[s].parent) = Up(old, old[s].parent)
  BY <1>1, <1>2, <1>3
<1>5. Up(rows, s) = {s} \cup Up(rows, rows[s].parent) /\ Up(old, s) = {s} \cup Up(old, old[s].parent)
  BY <1>2, <1>3, UpIs
<1> QED BY <1>1, <1>3, <1>4, <1>5

\* No scope is around an older one.
LEMMA UpBelow ==
    ASSUME NEW rows, Len(rows) \in Nat, Parented(rows)
    PROVE  \A s \in 0..Len(rows) : Up(rows, s) \subseteq 1..s
<1> DEFINE Bad == {s \in 0..Len(rows) : ~(Up(rows, s) \subseteq 1..s)}
<1> SUFFICES ASSUME Bad # {} PROVE FALSE
  OBVIOUS
<1>1. PICK s \in Bad : \A m \in Bad : s <= m
  <2>1. Bad \in SUBSET Nat
    OBVIOUS
  <2> HIDE DEF Bad
  <2> QED BY <2>1, LeastOf
<1>2. s \in 1..Len(rows) /\ rows[s].parent \in 0..(s - 1)
  BY UpIs DEF Parented
<1>3. Up(rows, rows[s].parent) \subseteq 1..rows[s].parent
  BY <1>1, <1>2
<1>4. 1..rows[s].parent \subseteq 1..s
  BY <1>2
<1> QED BY <1>1, <1>2, <1>3, <1>4, UpIs

\* Chain, in this state and the next.
LEMMA ChainIs ==
    /\ \A s : Chain(s) = Up(scopes, s)
    /\ \A s : Chain(s)' = Up(scopes', s)
  BY DEF Chain, Up

\* The largest of some numbers.
LEMMA MaxIs ==
    ASSUME NEW n \in Nat, NEW S \in SUBSET (1..n), S # {}
    PROVE  Max(S) \in S /\ \A x \in S : x <= Max(S)
<1> DEFINE B == {b \in Nat : \A x \in S : x <= b}
<1>1. B \in SUBSET Nat /\ n \in B
  OBVIOUS
<1>2. PICK b \in B : \A m \in B : b <= m
  <2> HIDE DEF B
  <2> QED BY <1>1, LeastOf
<1>3. b \in S
  <2> SUFFICES ASSUME b \notin S PROVE FALSE
    OBVIOUS
  <2>1. \A x \in S : x <= b /\ x # b /\ x \in Nat /\ x >= 1
    OBVIOUS
  <2>2. b - 1 \in B
    <3>1. PICK x \in S : TRUE
      OBVIOUS
    <3>2. b \in Nat /\ b - 1 \in Nat /\ \A y \in S : y <= b - 1
      BY <2>1, <3>1
    <3> QED BY <3>2
  <2> QED BY <1>2, <2>2
<1>4. \E x \in S : \A y \in S : x >= y
  BY <1>2, <1>3
<1>5. Max(S) \in S /\ \A y \in S : Max(S) >= y
  BY <1>4 DEF Max
<1> QED BY <1>5

\* The innermost scope of some kinds, if there is one.
LEMMA InnermostIs ==
    ASSUME Len(scopes) \in Nat, Parented(scopes), NEW s \in 0..Len(scopes), NEW kinds
    PROVE  \/ Innermost(s, kinds) = 0 /\ \A x \in Chain(s) : scopes[x].kind \notin kinds
           \/ /\ Innermost(s, kinds) \in Chain(s) /\ Innermost(s, kinds) \in 1..s
              /\ scopes[Innermost(s, kinds)].kind \in kinds
              /\ \A x \in Chain(s) : scopes[x].kind \in kinds => x <= Innermost(s, kinds)
<1> DEFINE in == {x \in Chain(s) : scopes[x].kind \in kinds}
<1>1. Innermost(s, kinds) = IF in = {} THEN 0 ELSE Max(in)
  BY DEF Innermost
<1>2. CASE in = {}
  BY <1>1, <1>2
<1>3. CASE in # {}
  <2>1. Chain(s) \subseteq 1..s /\ s \in Nat
    BY UpBelow, ChainIs
  <2>2. in \in SUBSET (1..s)
    BY <2>1
  <2>3. Max(in) \in in /\ \A x \in in : x <= Max(in)
    <3> HIDE DEF in
    <3> QED BY <1>3, <2>1, <2>2, MaxIs
  <2>4. PICK m : m = Max(in)
    OBVIOUS
  <2>5. m = Innermost(s, kinds)
    <3> HIDE DEF in
    <3> QED BY <1>1, <1>3, <2>4
  <2>6. m \in in /\ \A x \in in : x <= m
    <3> HIDE DEF in
    <3> QED BY <2>3, <2>4
  <2> QED BY <2>1, <2>5, <2>6
<1> QED BY <1>2, <1>3

-----------------------------------------------------------------------------
(* What a step leaves as it was.                                           *)

\* Scopes and events are only added.
Longer ==
    /\ Parented(scopes) /\ Parented(scopes')
    /\ Len(scopes) \in Nat /\ Len(scopes') \in Nat /\ Len(scopes) <= Len(scopes')
    /\ \A r \in 1..Len(scopes) : scopes'[r] = scopes[r]
    /\ Len(events) \in Nat /\ Len(events') \in Nat /\ Len(events) <= Len(events')
    /\ \A e \in 1..Len(events) : events'[e] = events[e]

\* What is around a scope stays so.
LEMMA ScopesStay ==
    ASSUME Longer, NEW s \in 0..Len(scopes)
    PROVE  /\ Chain(s)' = Chain(s) /\ Chain(s) \subseteq 1..s
           /\ HasTryCompile(s)' <=> HasTryCompile(s)
           /\ \A kinds : Innermost(s, kinds)' = Innermost(s, kinds)
           /\ \A a : ChainContains(s, a)' <=> ChainContains(s, a)
<1>1. Up(scopes', s) = Up(scopes, s)
  <2>1. PICK rows : rows = scopes'
    OBVIOUS
  <2>2. Up(rows, s) = Up(scopes, s)
    BY <2>1, UpKept DEF Longer
  <2> QED BY <2>1, <2>2
<1>2. PICK c : c = Chain(s)
  OBVIOUS
<1>3. Chain(s)' = c /\ Chain(s) = c
  BY <1>1, <1>2, ChainIs
<1>4. c \subseteq 1..s /\ 1..s \subseteq 1..Len(scopes)
  BY <1>2, UpBelow, ChainIs DEF Longer
<1>5. \A x \in c : scopes'[x] = scopes[x]
  BY <1>4 DEF Longer
<1>6. HasTryCompile(s)' <=> HasTryCompile(s)
  BY <1>3, <1>5 DEF HasTryCompile
<1>7. ASSUME NEW kinds PROVE Innermost(s, kinds)' = Innermost(s, kinds)
  <2>1. {x \in c : scopes'[x].kind \in kinds} = {x \in c : scopes[x].kind \in kinds}
    BY <1>5
  <2>2. Innermost(s, kinds)' = IF {x \in c : scopes'[x].kind \in kinds} = {} THEN 0
                               ELSE Max({x \in c : scopes'[x].kind \in kinds})
    BY <1>3 DEF Innermost
  <2>3. Innermost(s, kinds) = IF {x \in c : scopes[x].kind \in kinds} = {} THEN 0
                              ELSE Max({x \in c : scopes[x].kind \in kinds})
    BY <1>3 DEF Innermost
  <2> QED BY <2>1, <2>2, <2>3
<1>8. ASSUME NEW a PROVE ChainContains(s, a)' <=> ChainContains(s, a)
  BY <1>3, <1>5 DEF ChainContains
<1> QED BY <1>3, <1>4, <1>6, <1>7, <1>8

\* What an event is and where it acts stays so.
LEMMA EventsStay ==
    ASSUME Longer, EventsInv, NEW e \in 1..Len(events)
    PROVE  /\ e \in 1..Len(events') /\ events'[e] = events[e]
           /\ DirOf(e)' = DirOf(e) /\ GivenBy(e)' = GivenBy(e) /\ (IsDir(e)' <=> IsDir(e))
           /\ scopes'[DirOf(e)] = scopes[DirOf(e)] /\ DirOf(e) \in 1..Len(scopes')
<1>1. e \in 1..Len(events') /\ events'[e] = events[e] /\ events[e].scope \in 0..Len(scopes)
  BY DEF Longer, EventsInv
<1>2. PICK s, c : s = events[e].scope /\ c = events[e].c
  OBVIOUS
<1>3. Innermost(s, Acting)' = Innermost(s, Acting)
  BY <1>1, <1>2, ScopesStay
<1>4. DirOf(e)' = Innermost(s, Acting)'
  BY <1>1, <1>2 DEF DirOf
<1>5. PICK d : d = DirOf(e)
  OBVIOUS
<1>6. d = DirOf(e)' /\ d = Innermost(s, Acting)
  BY <1>2, <1>3, <1>4, <1>5 DEF DirOf
<1>7. GivenBy(e)' = DirItems(c, e, d)
  BY <1>1, <1>2, <1>6 DEF GivenBy
<1>8. GivenBy(e) = DirItems(c, e, d)
  BY <1>2, <1>5 DEF GivenBy
<1>9. scopes'[d] = scopes[d] /\ d \in 1..Len(scopes')
  BY <1>5 DEF EventsInv, Longer
<1> QED BY <1>1, <1>5, <1>6, <1>7, <1>8, <1>9 DEF IsDir

-----------------------------------------------------------------------------
(* Where CMake is.                                                         *)

\* The last of ascending numbers is the largest.
LEMMA LastIs ==
    ASSUME NEW s \in Seq(Nat), Len(s) > 0, Ascending(s)
    PROVE  Last(s) = s[Len(s)] /\ Len(s) \in 1..Len(s) /\ \A i \in 1..Len(s) : s[i] <= Last(s)
<1>1. Len(s) \in Nat /\ \A i \in 1..Len(s) : s[i] \in Nat
  BY LenProperties
<1>2. Last(s) = s[Len(s)] /\ Len(s) \in 1..Len(s)
  BY <1>1 DEF Last
<1>3. ASSUME NEW i \in 1..Len(s) PROVE s[i] <= Last(s)
  <2>1. CASE i = Len(s)
    BY <1>1, <1>2, <2>1
  <2>2. CASE i # Len(s)
    <3>1. i < Len(s)
      BY <1>1, <2>2
    <3>2. s[i] < s[Len(s)]
      BY <1>1, <1>2, <3>1 DEF Ascending
    <3> QED BY <1>1, <1>2, <3>2
  <2> QED BY <2>1, <2>2
<1> QED BY <1>2, <1>3

\* The directory CMake is in is the innermost open scope it may act in.
LEMMA HereIs ==
    ASSUME TypeInv, TreeInv
    PROVE  /\ Last(stack) \in 1..Len(scopes) /\ Len(scopes) \in Nat
           /\ Chain(Last(stack)) = {stack[j] : j \in 1..Len(stack)}
           /\ Here \in 1..Len(scopes) /\ scopes[Here].kind \in Acting
           /\ Here \in Chain(Here) /\ Here \in Chain(Last(stack))
           /\ \A x \in Chain(Last(stack)) : scopes[x].kind \in Acting => x <= Here
           /\ \A x \in Chain(Last(stack)) : x <= Here => x \in Chain(Here)
           /\ Chain(Here) \subseteq Chain(Last(stack))
<1>1. /\ Last(stack) = stack[Len(stack)] /\ Len(stack) \in 1..Len(stack)
      /\ \A i \in 1..Len(stack) : stack[i] \in Nat
      /\ Len(stack) \in Nat
  BY LastIs, LenProperties DEF TypeInv, TreeInv
<1>2. /\ Here = world.dir[Len(world.dir)] /\ Len(world.dir) \in 1..Len(world.dir)
      /\ \A k \in 1..Len(world.dir) : world.dir[k] <= Here
  BY LastIs DEF TypeInv, TreeInv, Here
<1>3. PICK h \in 1..Len(stack) : Here = stack[h] /\ scopes[stack[h]].kind \in Acting
  <2>1. Here \in {world.dir[k] : k \in 1..Len(world.dir)}
    BY <1>2
  <2>2. Here \in {x \in {stack[j] : j \in 1..Len(stack)} : scopes[x].kind \in Acting}
    BY <2>1 DEF TreeInv
  <2> QED BY <2>2
<1>4. /\ Chain(Last(stack)) = {stack[j] : j \in 1..Len(stack)}
      /\ Chain(Here) = {stack[j] : j \in 1..h}
      /\ Last(stack) \in 1..Len(scopes) /\ Here \in 1..Len(scopes)
  BY <1>1, <1>3 DEF TreeInv
<1>5. ASSUME NEW x \in Chain(Last(stack)), scopes[x].kind \in Acting PROVE x <= Here
  <2>1. x \in {world.dir[k] : k \in 1..Len(world.dir)}
    BY <1>4, <1>5 DEF TreeInv
  <2> QED BY <1>2, <2>1
<1>6. ASSUME NEW x \in Chain(Last(stack)), x <= Here PROVE x \in Chain(Here)
  <2>1. PICK j \in 1..Len(stack) : x = stack[j]
    BY <1>4
  <2>2. ~(h < j)
    BY <1>1, <1>3, <1>6, <2>1 DEF TreeInv, Ascending
  <2>3. j \in 1..h
    BY <1>1, <2>2
  <2> QED BY <1>4, <2>1, <2>3
<1>7. 1..h \subseteq 1..Len(stack) /\ h \in 1..h
  BY <1>1
<1>8. Len(scopes) \in Nat
  BY LenProperties DEF TypeInv
<1> QED BY <1>3, <1>4, <1>5, <1>6, <1>7, <1>8

\* What acts in a scope around the current one acts in it as around the
\* current directory.
LEMMA AroundHere ==
    ASSUME TypeInv, TreeInv
    PROVE  /\ Innermost(Last(stack), Acting) = Here
           /\ ChainContains(Here, Here)
           /\ \A a : scopes[a].kind \in Acting =>
                (ChainContains(Last(stack), a) <=> ChainContains(Here, a))
<1> DEFINE top == Last(stack)
<1>s. TreeInv
  OBVIOUS
<1>1. /\ top \in 1..Len(scopes) /\ Len(scopes) \in Nat /\ Parented(scopes)
      /\ Here \in 1..Len(scopes) /\ scopes[Here].kind \in Acting
      /\ Here \in Chain(Here) /\ Here \in Chain(top) /\ Chain(Here) \subseteq Chain(top)
      /\ \A x \in Chain(top) : scopes[x].kind \in Acting => x <= Here
      /\ \A x \in Chain(top) : x <= Here => x \in Chain(Here)
  BY HereIs DEF TreeInv
<1>2. Chain(Here) \subseteq 1..Here /\ Chain(top) \subseteq 1..top
  BY <1>1, UpBelow, ChainIs
<1>3. Innermost(top, Acting) = Here
  <2>1. PICK m : m = Innermost(top, Acting)
    OBVIOUS
  <2>2. \/ m = 0 /\ \A x \in Chain(top) : scopes[x].kind \notin Acting
        \/ /\ m \in Chain(top) /\ m \in 1..top /\ scopes[m].kind \in Acting
           /\ \A x \in Chain(top) : scopes[x].kind \in Acting => x <= m
    BY <1>1, <2>1, InnermostIs
  <2>3. m \in Nat /\ m <= Here /\ Here <= m
    BY <1>1, <2>2
  <2> QED BY <1>1, <2>1, <2>3
<1>4. ChainContains(Here, Here)
  <2>1. \A x \in Chain(Here) : ~(x > Here)
    BY <1>1, <1>2
  <2> QED BY <1>1, <2>1 DEF ChainContains
<1>5. ASSUME NEW a, scopes[a].kind \in Acting
      PROVE  ChainContains(top, a) <=> ChainContains(Here, a)
  <2>1. \A x \in Chain(top) : x \notin Chain(Here) => scopes[x].kind # "try_compile"
    <3> SUFFICES ASSUME NEW x \in Chain(top), scopes[x].kind = "try_compile" PROVE x \in Chain(Here)
      OBVIOUS
    <3> QED BY <1>1 DEF Acting
  <2>2. a \in Chain(top) <=> a \in Chain(Here)
    BY <1>1, <1>5
  <2> QED BY <1>1, <2>1, <2>2 DEF ChainContains
<1> QED BY <1>3, <1>4, <1>5

\* What a call adds to the events.
LEMMA Logged ==
    ASSUME TypeInv, TreeInv, EventsInv, NEW c \in Calls, Log(c), UNCHANGED <<project, scopes, stack>>,
           DOMAIN world' = Fields, world'.dir = world.dir, NEW n, n = Now
    PROVE  /\ TypeInv' /\ TreeInv' /\ EventsInv' /\ Longer
           /\ Len(events) \in Nat /\ n = Len(events) + 1 /\ Len(events') = n
           /\ events'[n].c = c /\ events'[n].scope = Last(stack)
           /\ DirOf(n)' = Here /\ GivenBy(n)' = DirItems(c, n, Here) /\ Here' = Here
<1>1. /\ Last(stack) \in 1..Len(scopes) /\ Len(scopes) \in Nat
      /\ Here \in 1..Len(scopes) /\ scopes[Here].kind \in Acting
      /\ Innermost(Last(stack), Acting) = Here
  BY HereIs, AroundHere
<1>2. Len(events) \in Nat /\ n = Len(events) + 1
  BY LenProperties DEF TypeInv, Now
<1>3. PICK row : row = [c |-> c, scope |-> Last(stack)]
  OBVIOUS
<1>4. row \in [c : Calls, scope : Nat] /\ row.c = c /\ row.scope = Last(stack)
  BY <1>1, <1>3
<1>5. events' = Append(events, row) /\ events \in Seq([c : Calls, scope : Nat])
  BY <1>3 DEF Log, TypeInv
<1>6. /\ events' \in Seq([c : Calls, scope : Nat]) /\ Len(events') = n /\ events'[n] = row
      /\ \A e \in 1..Len(events) : events'[e] = events[e]
  BY <1>2, <1>4, <1>5, AppendProperties
<1>7. Longer
  BY <1>1, <1>2, <1>6 DEF Longer, TreeInv
<1>8. TypeInv'
  BY <1>6 DEF TypeInv
<1>9. Here' = Here
  BY DEF Here
<1>10. \A s \in 0..Len(scopes) : Chain(s)' = Chain(s) /\ Innermost(s, Acting)' = Innermost(s, Acting)
  BY <1>7, ScopesStay
<1>11. TreeInv'
  <2>1. \A i \in 1..Len(stack) : stack[i] \in 1..Len(scopes) /\ Chain(stack[i])' = Chain(stack[i])
    BY <1>1, <1>10 DEF TreeInv
  <2>2. \A i \in 1..Len(stack) : Chain(stack[i]) = {stack[j] : j \in 1..i}
    BY DEF TreeInv
  <2>3. ASSUME NEW i \in 1..Len(stack)
        PROVE  stack'[i] \in 1..Len(scopes') /\ Chain(stack[i])' = {stack'[j] : j \in 1..i}
    <3>1. PICK s : s = stack[i]
      OBVIOUS
    <3>2. stack'[i] = s /\ Chain(s)' = Chain(s) /\ s \in 1..Len(scopes)
      BY <2>1, <3>1
    <3>3. Chain(stack[i])' = Chain(s)'
      BY <3>2, ChainIs
    <3> QED BY <2>2, <3>1, <3>2, <3>3
  <2>4. \A i \in 1..Len(stack') : /\ stack'[i] \in 1..Len(scopes')
                                  /\ Chain(stack[i])' = {stack'[j] : j \in 1..i}
    BY <2>3
  <2>5. /\ Parented(scopes)' /\ Len(stack') > 0 /\ Ascending(stack)' /\ scopes'[stack'[1]].kind = "root"
        /\ Len(world'.dir) > 0 /\ Ascending(world.dir)'
    BY DEF TreeInv, Parented, Ascending
  <2>6. {world'.dir[k] : k \in 1..Len(world'.dir)}
          = {s \in {stack'[j] : j \in 1..Len(stack')} : scopes'[s].kind \in Acting}
    <3>1. {world.dir[k] : k \in 1..Len(world.dir)}
            = {s \in {stack[j] : j \in 1..Len(stack)} : scopes[s].kind \in Acting}
      BY DEF TreeInv
    <3>2. world'.dir = world.dir /\ stack' = stack /\ scopes' = scopes
      OBVIOUS
    <3> QED BY <3>1, <3>2
  <2> QED BY <2>4, <2>5, <2>6 DEF TreeInv
<1>12. DirOf(n)' = Here
  <2>1. PICK s : s = Last(stack)
    OBVIOUS
  <2>2. events'[n].scope = s /\ s \in 0..Len(scopes)
    BY <1>1, <1>4, <1>6, <2>1
  <2>3. DirOf(n)' = Innermost(s, Acting)'
    BY <2>2 DEF DirOf
  <2> QED BY <1>1, <1>10, <2>1, <2>2, <2>3
<1>13. GivenBy(n)' = DirItems(c, n, Here)
  BY <1>4, <1>6, <1>12 DEF GivenBy
<1>14. EventsInv'
  <2> SUFFICES ASSUME NEW e \in 1..n
               PROVE  /\ events'[e].scope \in 1..Len(scopes')
                      /\ DirOf(e)' \in 1..Len(scopes') /\ scopes'[DirOf(e)'].kind \in Acting
    BY <1>6 DEF EventsInv
  <2>1. CASE e = n
    BY <1>1, <1>4, <1>6, <1>12, <2>1
  <2>2. CASE e # n
    <3>1. e \in 1..Len(events)
      BY <1>2, <2>2
    <3>2. DirOf(e)' = DirOf(e) /\ events'[e] = events[e]
      BY <1>7, <3>1, EventsStay
    <3> QED BY <3>1, <3>2 DEF EventsInv
  <2> QED BY <2>1, <2>2
<1> QED BY <1>2, <1>4, <1>6, <1>7, <1>8, <1>9, <1>11, <1>12, <1>13, <1>14

\* What a step adds to an open directory.
LEMMA DirStays ==
    ASSUME Longer, EventsInv, NEW d \in 1..Len(scopes), DirOk(d), NEW new,
           d \in DOMAIN world'.props, world'.props[d] = world.props[d] \cup new,
           \A i \in new : i.ev \in (Len(events) + 1)..Len(events'),
           \A e \in (Len(events) + 1)..Len(events') : IsDir(e)' =>
               From(new, e) = IF ChainContains(d, DirOf(e)') THEN GivenBy(e)' ELSE {}
    PROVE  DirOk(d)'
<1>1. Len(events) \in Nat /\ Len(events') \in Nat /\ Len(events) <= Len(events')
  BY DEF Longer
<1>2. \A a : ChainContains(d, a)' <=> ChainContains(d, a)
  BY ScopesStay DEF Longer
<1>3. ASSUME NEW e \in 1..Len(events'), IsDir(e)'
      PROVE  From(world'.props[d], e) = IF ChainContains(d, DirOf(e))' THEN GivenBy(e)' ELSE {}
  <2>0. ChainContains(d, DirOf(e))' <=> ChainContains(d, DirOf(e)')
    <3>1. PICK a : a = DirOf(e)'
      OBVIOUS
    <3>2. ChainContains(d, DirOf(e))' <=> ChainContains(d, a)'
      BY <3>1 DEF ChainContains
    <3> QED BY <1>2, <3>1, <3>2
  <2>1. CASE e \in 1..Len(events)
    <3>1. DirOf(e)' = DirOf(e) /\ GivenBy(e)' = GivenBy(e) /\ IsDir(e)
      BY <1>3, <2>1, EventsStay
    <3>2. From(world.props[d], e) = IF ChainContains(d, DirOf(e)) THEN GivenBy(e) ELSE {}
      BY <2>1, <3>1 DEF DirOk
    <3>3. From(world'.props[d], e) = From(world.props[d], e)
      <4>1. \A i \in new : i.ev # e
        BY <1>1, <2>1
      <4> QED BY <4>1 DEF From
    <3> QED BY <2>0, <3>1, <3>2, <3>3
  <2>2. CASE e \notin 1..Len(events)
    <3>1. e \in (Len(events) + 1)..Len(events')
      BY <1>1, <2>2
    <3>2. From(world'.props[d], e) = From(new, e)
      <4>1. \A i \in world.props[d] : i.ev # e
        BY <2>2 DEF DirOk
      <4> QED BY <4>1 DEF From
    <3> QED BY <2>0, <1>3, <3>1, <3>2
  <2> QED BY <2>1, <2>2
<1>4. \A i \in world'.props[d] : i.ev \in 1..Len(events')
  BY <1>1 DEF DirOk
<1> QED BY <1>3, <1>4 DEF DirOk

\* No target was created by a command at directory scope.
LEMMA CreationStays ==
    ASSUME Longer, DirectoryInv, UNCHANGED targets
    PROVE  \A t \in DOMAIN targets' : targets'[t].ev \in 1..Len(events') /\ ~IsDir(targets[t].ev)'
<1> SUFFICES ASSUME NEW t \in DOMAIN targets
             PROVE  targets'[t].ev \in 1..Len(events') /\ ~IsDir(targets[t].ev)'
  OBVIOUS
<1>1. PICK e : e = targets[t].ev
  OBVIOUS
<1>2. e \in 1..Len(events) /\ ~IsDir(e) /\ EventsInv /\ targets'[t].ev = e
  BY <1>1 DEF DirectoryInv, TargetsInv
<1>3. e \in 1..Len(events') /\ ~IsDir(e)'
  BY <1>2, EventsStay
<1> QED BY <1>2, <1>3 DEF IsDir

\* What a step adds to a target.
LEMMA TargetStays ==
    ASSUME Longer, EventsInv, NEW t, TargetOk(t), targets[t].ev \in 1..Len(events), NEW new,
           targets'[t] = targets[t], world'.home[t] = world.home[t],
           world'.own[t] = world.own[t] \cup new,
           \A i \in new : i.ev \in (Len(events) + 1)..Len(events'),
           \A e \in (Len(events) + 1)..Len(events') : IsDir(e)' =>
               From(new, e) = IF Given(e, t)' THEN GivenBy(e)' ELSE {}
    PROVE  TargetOk(t)'
<1>1. Len(events) \in Nat /\ Len(events') \in Nat /\ Len(events) <= Len(events')
  BY DEF Longer
<1>2. PICK s : s = DefScope(t)
  OBVIOUS
<1>3. s \in 1..Len(scopes) /\ DefScope(t)' = s /\ targets'[t].ev = targets[t].ev
  BY <1>2, EventsStay DEF DefScope, EventsInv
<1>4. /\ Innermost(s, Acting)' = Innermost(s, Acting) /\ (HasTryCompile(s)' <=> HasTryCompile(s))
      /\ \A a : ChainContains(s, a)' <=> ChainContains(s, a)
  BY <1>3, ScopesStay
<1>5. /\ Innermost(DefScope(t), Acting)' = Innermost(s, Acting)
      /\ HasTryCompile(DefScope(t))' <=> HasTryCompile(s)
  <2>1. Innermost(DefScope(t), Acting)' = Innermost(s, Acting)'
    BY <1>3 DEF Innermost
  <2>2. HasTryCompile(DefScope(t))' <=> HasTryCompile(s)'
    BY <1>3 DEF HasTryCompile
  <2> QED BY <1>4, <2>1, <2>2
<1>6. ASSUME NEW e \in 1..Len(events) PROVE Given(e, t)' <=> Given(e, t)
  <2>1. PICK d : d = DirOf(e)
    OBVIOUS
  <2>2. DirOf(e)' = d /\ events'[e] = events[e]
    BY <2>1, EventsStay
  <2>3. ChainContains(DefScope(t), DirOf(e))' <=> ChainContains(s, d)'
    BY <1>3, <2>2 DEF ChainContains
  <2>4. ChainContains(DefScope(t), DirOf(e)) <=> ChainContains(s, d)
    BY <1>2, <2>1
  <2>5. Compiles(t)' <=> Compiles(t)
    BY DEF Compiles
  <2> QED BY <1>3, <1>4, <2>1, <2>2, <2>3, <2>4, <2>5 DEF Given
<1>7. ASSUME NEW e \in 1..Len(events'), IsDir(e)'
      PROVE  From(world'.own[t], e) = IF Given(e, t)' THEN GivenBy(e)' ELSE {}
  <2>1. CASE e \in 1..Len(events)
    <3>1. GivenBy(e)' = GivenBy(e) /\ IsDir(e)
      BY <1>7, <2>1, EventsStay
    <3>2. From(world.own[t], e) = IF Given(e, t) THEN GivenBy(e) ELSE {}
      BY <2>1, <3>1 DEF TargetOk
    <3>3. From(world'.own[t], e) = From(world.own[t], e)
      <4>1. \A i \in new : i.ev # e
        BY <1>1, <2>1
      <4> QED BY <4>1 DEF From
    <3> QED BY <1>6, <2>1, <3>1, <3>2, <3>3
  <2>2. CASE e \notin 1..Len(events)
    <3>1. e \in (Len(events) + 1)..Len(events')
      BY <1>1, <2>2
    <3>2. From(world'.own[t], e) = From(new, e)
      <4>1. \A i \in world.own[t] : i.ev # e
        BY <2>2 DEF TargetOk
      <4> QED BY <4>1 DEF From
    <3> QED BY <1>7, <3>1, <3>2
  <2> QED BY <2>1, <2>2
<1>8. \A i \in world'.own[t] : i.ev \in 1..Len(events')
  BY <1>1 DEF TargetOk
<1>9. world'.home[t] \in 1..Len(scopes') /\ scopes'[world'.home[t]].kind \in DirKinds
  BY DEF TargetOk, Longer
<1>10. world'.home[t] = Innermost(s, Acting) /\ ~HasTryCompile(s)
  BY <1>2 DEF TargetOk
<1>11. targets'[t].type # "ALIAS" /\ (targets'[t].type = "UNKNOWN" => targets'[t].imported)
  BY DEF TargetOk
<1>12. (world.home[t] = Innermost(DefScope(t), Acting))' /\ ~HasTryCompile(DefScope(t))'
  BY <1>5, <1>10
<1> QED BY <1>7, <1>8, <1>9, <1>11, <1>12 DEF TargetOk

-----------------------------------------------------------------------------
(* Calls.                                                                  *)

\* The commands at directory scope.
LEMMA DirCommandNames ==
    /\ DOMAIN DirKind = {"include_directories", "add_definitions", "add_compile_definitions",
                         "add_compile_options", "link_libraries"}
    /\ DOMAIN ReqKind \cap DOMAIN DirKind = {}
  BY DEF DirKind, ReqKind

\* A call that gives nothing at directory scope leaves the directories.
LEMMA CallKeeps ==
    ASSUME DirectoryInv, NEW c \in Calls, Log(c), UNCHANGED <<project, scopes, stack>>,
           DOMAIN world' = Fields, world'.dir = world.dir, world'.props = world.props,
           c.cmd \notin DOMAIN DirKind, NEW n, n = Now
    PROVE  /\ TypeInv' /\ TreeInv' /\ EventsInv' /\ PropsInv' /\ Longer
           /\ Len(events) \in Nat /\ n = Len(events) + 1 /\ Len(events') = n
           /\ events'[n].scope = Last(stack) /\ ~IsDir(n)'
<1>1. /\ TypeInv' /\ TreeInv' /\ EventsInv' /\ Longer
      /\ Len(events) \in Nat /\ n = Len(events) + 1 /\ Len(events') = n
      /\ events'[n].c = c /\ events'[n].scope = Last(stack)
  BY Logged DEF DirectoryInv
<1>2. ~IsDir(n)'
  BY <1>1 DEF IsDir
<1>3. ASSUME NEW k \in 1..Len(world.dir) PROVE DirOk(world.dir[k])'
  <2>1. PICK d : d = world.dir[k]
    OBVIOUS
  <2>2. DirOk(d) /\ d \in 1..Len(scopes) /\ d \in DOMAIN world.props
    BY <2>1 DEF DirectoryInv, PropsInv, DirOk
  <2>n. PICK new : new = {}
    OBVIOUS
  <2>3. /\ world'.props[d] = world.props[d] \cup new /\ d \in DOMAIN world'.props
        /\ \A i \in new : i.ev \in (Len(events) + 1)..Len(events')
    BY <2>2, <2>n
  <2>4. \A e \in (Len(events) + 1)..Len(events') : ~IsDir(e)'
    <3> SUFFICES ASSUME NEW e \in (Len(events) + 1)..Len(events') PROVE ~IsDir(e)'
      OBVIOUS
    <3>1. e = n
      BY <1>1
    <3> QED BY <1>2, <3>1 DEF IsDir
  <2>5. DirOk(d)'
    <3>1. EventsInv
      BY DEF DirectoryInv
    <3> QED BY <1>1, <2>2, <2>3, <2>4, <3>1, DirStays
  <2>6. world'.dir[k] = d
    BY <2>1
  <2> QED BY <2>5, <2>6 DEF DirOk, ChainContains, Chain
<1>4. PropsInv'
  BY <1>3 DEF PropsInv, DirectoryInv
<1> QED BY <1>1, <1>2, <1>4

\* So does one that adds requirements to a target leave what directories gave.
LEMMA RequirementsKeep ==
    ASSUME DirectoryInv, Longer, UNCHANGED targets, NEW n, n = Len(events) + 1, Len(events') = n,
           Len(events) \in Nat, ~IsDir(n)', world'.home = world.home, DOMAIN world'.own = Real,
           \A t \in Real : \E new : /\ world'.own[t] = world.own[t] \cup new
                                    /\ \A i \in new : i.ev = n
    PROVE  TargetsInv'
<1>1. Real' = Real
  BY DEF Real
<1>2. ASSUME NEW t \in Real PROVE TargetOk(t)'
  <2>1. PICK new : world'.own[t] = world.own[t] \cup new /\ \A i \in new : i.ev = n
    OBVIOUS
  <2>2. TargetOk(t) /\ targets[t].ev \in 1..Len(events)
    BY DEF DirectoryInv, TargetsInv, Real
  <2>3. \A e \in (Len(events) + 1)..Len(events') : ~IsDir(e)'
    <3> SUFFICES ASSUME NEW e \in (Len(events) + 1)..Len(events') PROVE ~IsDir(e)'
      OBVIOUS
    <3>1. e = n
      OBVIOUS
    <3> QED BY <3>1 DEF IsDir
  <2>4. \A i \in new : i.ev \in (Len(events) + 1)..Len(events')
    BY <2>1
  <2> QED BY <2>1, <2>2, <2>3, <2>4, TargetStays DEF DirectoryInv
<1>3. \A t \in DOMAIN targets' : targets'[t].ev \in 1..Len(events') /\ ~IsDir(targets[t].ev)'
  BY CreationStays
<1>4. DOMAIN world'.home = Real' /\ DOMAIN world'.own = Real'
  BY <1>1 DEF DirectoryInv, TargetsInv
<1> QED BY <1>1, <1>2, <1>3, <1>4 DEF TargetsInv

\* target_link_libraries, the calls that add requirements, properties, and the
\* calls of scratch projects.
LEMMA TargetCallKeeps ==
    ASSUME DirectoryInv, NEW c \in Calls,
           LinkLibraries(c) \/ Requirement(c) \/ SetProperty(c) \/ Scratch(c)
    PROVE  DirectoryInv'
<1>1. /\ Log(c) /\ UNCHANGED <<project, scopes, stack, targets>>
      /\ c.cmd \notin DOMAIN DirKind
  BY DirCommandNames DEF LinkLibraries, Requirement, SetProperty, Scratch
<1>2. DOMAIN world = Fields
  BY DEF DirectoryInv, TypeInv
<1>3. PICK n : n = Now
  OBVIOUS
<1>4. /\ DOMAIN world' = Fields /\ world'.dir = world.dir /\ world'.props = world.props
      /\ world'.home = world.home /\ DOMAIN world'.own = DOMAIN world.own
      /\ \A t \in DOMAIN world.own : \E new : /\ world'.own[t] = world.own[t] \cup new
                                              /\ \A i \in new : i.ev = n
  <2>1. ASSUME world'.own = world.own
        PROVE  \A t \in DOMAIN world.own : \E new : /\ world'.own[t] = world.own[t] \cup new
                                                    /\ \A i \in new : i.ev = n
    <3> SUFFICES ASSUME NEW t \in DOMAIN world.own
                 PROVE  \E new : /\ world'.own[t] = world.own[t] \cup new
                                 /\ \A i \in new : i.ev = n
      OBVIOUS
    <3>1. PICK new : new = {}
      OBVIOUS
    <3>2. world'.own[t] = world.own[t] \cup new /\ \A i \in new : i.ev = n
      BY <2>1, <3>1
    <3> QED BY <3>2
  <2>2. CASE LinkLibraries(c)
    <3>1. /\ DOMAIN world' = Fields /\ world'.dir = world.dir /\ world'.props = world.props
          /\ world'.home = world.home /\ world'.own = world.own
      BY <1>2, <2>2 DEF LinkLibraries, Fields
    <3> QED BY <2>1, <3>1
  <2>3. CASE Requirement(c)
    <3> DEFINE add == ReqItems(c, Now, {"PUBLIC", "PRIVATE"})
    <3>1. /\ DOMAIN world' = Fields /\ world'.dir = world.dir /\ world'.props = world.props
          /\ world'.home = world.home
          /\ world'.own = [world.own EXCEPT ![c.args[1]] = @ \cup add]
      BY <1>2, <2>3 DEF Requirement, Fields
    <3>2. \A i \in add : i.ev = n
      BY <1>3 DEF ReqItems
    <3> HIDE DEF add
    <3>3. ASSUME NEW t \in DOMAIN world.own
          PROVE  \E new : /\ world'.own[t] = world.own[t] \cup new
                          /\ \A i \in new : i.ev = n
      <4>1. CASE t = c.args[1]
        <5>1. world'.own[t] = world.own[t] \cup add
          BY <3>1, <4>1
        <5> QED BY <3>2, <5>1
      <4>2. CASE t # c.args[1]
        <5>1. PICK new : new = {}
          OBVIOUS
        <5>2. world'.own[t] = world.own[t] \cup new /\ \A i \in new : i.ev = n
          BY <3>1, <4>2, <5>1
        <5> QED BY <5>2
      <4> QED BY <4>1, <4>2
    <3> QED BY <3>1, <3>3
  <2>4. CASE SetProperty(c)
    <3>1. /\ DOMAIN world' = Fields /\ world'.dir = world.dir /\ world'.props = world.props
          /\ world'.home = world.home /\ world'.own = world.own
      BY <1>2, <2>4 DEF SetProperty, Fields
    <3> QED BY <2>1, <3>1
  <2>5. CASE Scratch(c)
    <3>1. world' = world
      BY <2>5 DEF Scratch
    <3> QED BY <1>2, <2>1, <3>1
  <2> QED BY <2>2, <2>3, <2>4, <2>5
<1>5. /\ TypeInv' /\ TreeInv' /\ EventsInv' /\ PropsInv' /\ Longer
      /\ Len(events) \in Nat /\ n = Len(events) + 1 /\ Len(events') = n /\ ~IsDir(n)'
  BY <1>1, <1>3, <1>4, CallKeeps
<1>6. DOMAIN world.own = Real
  BY DEF DirectoryInv, TargetsInv
<1>7. TargetsInv'
  BY <1>1, <1>4, <1>5, <1>6, RequirementsKeep
<1> QED BY <1>5, <1>7 DEF DirectoryInv

\* A target created.
LEMMA AddTargetKeeps ==
    ASSUME DirectoryInv, NEW c \in Calls, AddTarget(c)
    PROVE  DirectoryInv'
<1> DEFINE name == c.args[1]
<1>n. PICK n : n = Now
  OBVIOUS
<1>t. PICK t : t = TargetOf(c, n)
  OBVIOUS
<1>1. /\ Log(c) /\ UNCHANGED <<project, scopes, stack>> /\ c.cmd \notin DOMAIN DirKind
      /\ ~InTry /\ name \notin DOMAIN targets /\ targets' = Put(targets, name, t)
      /\ t.alias # None => t.alias \in Real
      /\ t.type = "UNKNOWN" => t.imported
  BY <1>n, <1>t, DirCommandNames DEF AddTarget
<1>2. /\ t.alias # None => world' = world
      /\ t.alias = None =>
           world' = [world EXCEPT
                        !.home = Put(@, name, Here),
                        !.own = Put(@, name, IF t.imported \/ t.type \in {"INTERFACE", "UTILITY"}
                                             THEN {} ELSE world.props[Here]),
                        !.iface = Put(@, name, {}), !.links = Put(@, name, {}),
                        !.ilinks = Put(@, name, {})]
  BY <1>n, <1>t DEF AddTarget
<1>3. t.ev = n
  BY <1>t DEF TargetOf
<1>4. DOMAIN world = Fields /\ DOMAIN world.own = Real /\ DOMAIN world.home = Real
  BY DEF DirectoryInv, TypeInv, TargetsInv
<1>5. /\ DOMAIN world' = Fields /\ world'.dir = world.dir /\ world'.props = world.props
  BY <1>2, <1>4 DEF Fields
<1>6. /\ TypeInv' /\ TreeInv' /\ EventsInv' /\ PropsInv' /\ Longer
      /\ Len(events) \in Nat /\ n = Len(events) + 1 /\ Len(events') = n
      /\ events'[n].scope = Last(stack) /\ ~IsDir(n)'
  BY <1>1, <1>5, <1>n, CallKeeps
<1>7. /\ DOMAIN targets' = {name} \cup DOMAIN targets /\ targets'[name] = t
      /\ \A u \in DOMAIN targets : targets'[u] = targets[u]
  BY <1>1 DEF Put
<1>8. Real' = Real \cup (IF t.alias = None THEN {name} ELSE {})
  BY <1>7, <1>1 DEF Real
<1>9. /\ DOMAIN world'.own = Real' /\ DOMAIN world'.home = Real'
      /\ \A u \in Real : world'.own[u] = world.own[u] /\ world'.home[u] = world.home[u]
      /\ t.alias = None =>
           /\ world'.home[name] = Here
           /\ world'.own[name] = IF t.imported \/ t.type \in {"INTERFACE", "UTILITY"}
                                 THEN {} ELSE world.props[Here]
  <2>1. CASE t.alias # None
    BY <1>2, <1>4, <1>8, <2>1
  <2>2. CASE t.alias = None
    <3>1. /\ world'.home = Put(world.home, name, Here)
          /\ world'.own = Put(world.own, name, IF t.imported \/ t.type \in {"INTERFACE", "UTILITY"}
                                               THEN {} ELSE world.props[Here])
      BY <1>2, <1>4, <2>2 DEF Fields
    <3>2. name \notin Real
      BY <1>1 DEF Real
    <3> QED BY <1>4, <1>8, <2>2, <3>1, <3>2 DEF Put
  <2> QED BY <2>1, <2>2
<1>10. ASSUME NEW u \in Real PROVE TargetOk(u)'
  <2>1. TargetOk(u) /\ targets[u].ev \in 1..Len(events) /\ targets'[u] = targets[u]
    BY <1>7 DEF DirectoryInv, TargetsInv, Real
  <2>2. PICK new : new = {}
    OBVIOUS
  <2>3. /\ world'.own[u] = world.own[u] \cup new /\ world'.home[u] = world.home[u]
        /\ \A i \in new : i.ev \in (Len(events) + 1)..Len(events')
    BY <1>9, <2>2
  <2>4. \A e \in (Len(events) + 1)..Len(events') : ~IsDir(e)'
    <3> SUFFICES ASSUME NEW e \in (Len(events) + 1)..Len(events') PROVE ~IsDir(e)'
      OBVIOUS
    <3>1. e = n
      BY <1>6
    <3> QED BY <1>6, <3>1 DEF IsDir
  <2>5. EventsInv
    BY DEF DirectoryInv
  <2> QED BY <1>6, <2>1, <2>3, <2>4, <2>5, TargetStays
<1>11. ASSUME t.alias = None PROVE TargetOk(name)'
  <2>1. PICK s : s = Last(stack)
    OBVIOUS
  <2>2. PICK h : h = Here
    OBVIOUS
  <2>3. /\ s \in 1..Len(scopes) /\ h \in 1..Len(scopes) /\ scopes[h].kind \in Acting
        /\ Chain(s) = {stack[j] : j \in 1..Len(stack)} /\ h \in Chain(s) /\ Len(scopes) \in Nat
        /\ Innermost(s, Acting) = h
        /\ \A a : scopes[a].kind \in Acting => (ChainContains(s, a) <=> ChainContains(h, a))
        /\ ChainContains(h, h)
    BY <2>1, <2>2, HereIs, AroundHere DEF DirectoryInv
  <2>4. DefScope(name)' = s /\ targets'[name].ev = n
    BY <1>3, <1>6, <1>7, <2>1 DEF DefScope
  <2>5. ~HasTryCompile(s)
    <3>1. DOMAIN stack = 1..Len(stack)
      BY LenProperties DEF DirectoryInv, TypeInv
    <3> QED BY <1>1, <2>3, <3>1 DEF InTry, HasTryCompile
  <2>6. scopes[h].kind \in DirKinds
    BY <2>3, <2>5 DEF HasTryCompile, Acting
  <2>7. t.type # "ALIAS"
    <3>1. \A i \in 1..Len(c.args) : c.args[i] # None
      BY DirAssumption DEF Calls, CallOk
    <3>2. ~(Len(c.args) = 3 /\ c.args[2] = "ALIAS")
      <4> SUFFICES ASSUME Len(c.args) = 3, c.args[2] = "ALIAS" PROVE FALSE
        OBVIOUS
      <4>1. t.alias = c.args[3]
        BY <1>t DEF TargetOf
      <4>2. 3 \in 1..Len(c.args)
        OBVIOUS
      <4> QED BY <1>11, <3>1, <4>1, <4>2
    <3>3. ASSUME NEW S \in SUBSET DOMAIN LibraryTypes, S # {}
          PROVE  LibraryTypes[CHOOSE i \in S : \A j \in S : i <= j] # "ALIAS"
      <4>1. DOMAIN LibraryTypes = 1..6
        BY DEF LibraryTypes
      <4>2. \E i \in S : \A j \in S : i <= j
        BY <3>3, <4>1, LeastOf
      <4>3. PICK k : k = CHOOSE i \in S : \A j \in S : i <= j
        OBVIOUS
      <4>4. k \in 1..6
        BY <4>1, <4>2, <4>3
      <4>5. \A i \in 1..6 : LibraryTypes[i] # "ALIAS"
        BY DEF LibraryTypes
      <4> QED BY <4>3, <4>4, <4>5
    <3>4. None # "ALIAS"
      BY ConfigureAssumption
    <3>5. PICK S : S = {i \in DOMAIN LibraryTypes : LibraryTypes[i] \in ToSet(Tail(c.args))}
      OBVIOUS
    <3>6. t.type = CASE c.cmd = "add_executable" -> "EXECUTABLE"
                     [] c.cmd = "add_custom_target" -> "UTILITY"
                     [] OTHER -> IF S = {} THEN None
                                 ELSE LibraryTypes[CHOOSE i \in S : \A j \in S : i <= j]
      BY <1>t, <3>2, <3>5 DEF TargetOf
    <3>7. S \in SUBSET DOMAIN LibraryTypes
      BY <3>5
    <3>8. S # {} => LibraryTypes[CHOOSE i \in S : \A j \in S : i <= j] # "ALIAS"
      BY <3>3, <3>7
    <3> QED BY <3>4, <3>6, <3>8
  <2>8. PICK q : q = DefScope(name)'
    OBVIOUS
  <2>9. q = s
    BY <2>4, <2>8
  <2>10. /\ Innermost(s, Acting)' = h /\ ~HasTryCompile(s)'
         /\ \A a : ChainContains(s, a)' <=> ChainContains(s, a)
    BY <1>6, <2>3, <2>5, ScopesStay
  <2>11. (world.home[name] = Innermost(DefScope(name), Acting))' /\ ~HasTryCompile(DefScope(name))'
    <3>1. Innermost(DefScope(name), Acting)' = Innermost(s, Acting)'
      BY <2>4 DEF Innermost
    <3>2. HasTryCompile(DefScope(name))' <=> HasTryCompile(s)'
      BY <2>4 DEF HasTryCompile
    <3> QED BY <1>9, <1>11, <2>2, <2>10, <3>1, <3>2
  <2>12. DirOk(h) /\ h \in DOMAIN world.props
    <3>1. PICK k \in 1..Len(world.dir) : Here = world.dir[k]
      BY LastIs DEF DirectoryInv, TypeInv, TreeInv, Here
    <3> QED BY <2>2, <3>1 DEF DirectoryInv, PropsInv, DirOk
  <2>13. PICK compiles : compiles <=> ~t.imported /\ t.type \notin {"INTERFACE", "UTILITY"}
    OBVIOUS
  <2>14. (Compiles(name)' <=> compiles)
         /\ world'.own[name] = IF compiles THEN world.props[h] ELSE {}
    BY <1>7, <1>9, <1>11, <2>2, <2>13 DEF Compiles
  <2>15. \A i \in world'.own[name] : i.ev \in 1..Len(events')
    BY <1>6, <2>12, <2>14 DEF DirOk
  <2>16. ASSUME NEW e \in 1..Len(events'), IsDir(e)'
         PROVE  From(world'.own[name], e) = IF Given(e, name)' THEN GivenBy(e)' ELSE {}
    <3>1. e # n
      BY <1>6, <2>16 DEF IsDir
    <3>2. e \in 1..Len(events)
      BY <1>6, <3>1
    <3>3. EventsInv
      BY DEF DirectoryInv
    <3>4. PICK d : d = DirOf(e)
      OBVIOUS
    <3>5. DirOf(e)' = d /\ GivenBy(e)' = GivenBy(e) /\ IsDir(e) /\ scopes[d].kind \in Acting
          /\ events'[e] = events[e]
      BY <1>6, <2>16, <3>2, <3>3, <3>4, EventsStay DEF EventsInv
    <3>6. From(world.props[h], e) = IF ChainContains(h, d) THEN GivenBy(e) ELSE {}
      BY <2>12, <3>2, <3>4, <3>5 DEF DirOk
    <3>7. ChainContains(DefScope(name), DirOf(e))' <=> ChainContains(s, d)'
      BY <2>4, <3>5 DEF ChainContains
    <3>8. ChainContains(s, d)' <=> ChainContains(h, d)
      BY <2>3, <2>10, <3>5
    <3>9. h = d => ChainContains(h, d)
      BY <2>3
    <3>10. Given(e, name)' <=> compiles /\ ChainContains(h, d)
      <4>1. e < targets'[name].ev
        BY <1>6, <2>4, <3>2
      <4>2. world'.home[name] = DirOf(e)' <=> h = d
        BY <1>9, <1>11, <2>2, <3>5
      <4> QED BY <2>14, <3>7, <3>8, <3>9, <4>1, <4>2 DEF Given
    <3>11. compiles \/ From(world'.own[name], e) = {}
      BY <2>14 DEF From
    <3> QED BY <2>14, <3>5, <3>6, <3>10, <3>11
  <2>17. /\ targets'[name].type # "ALIAS"
         /\ targets'[name].type = "UNKNOWN" => targets'[name].imported
    BY <1>1, <1>7, <2>7
  <2>18. world'.home[name] \in 1..Len(scopes') /\ scopes'[world'.home[name]].kind \in DirKinds
    BY <1>1, <1>9, <1>11, <2>2, <2>3, <2>6
  <2> QED BY <2>11, <2>15, <2>16, <2>17, <2>18 DEF TargetOk
<1>12. ASSUME NEW u \in DOMAIN targets'
       PROVE  targets'[u].ev \in 1..Len(events') /\ ~IsDir(targets[u].ev)'
  <2>1. PICK e : e = targets'[u].ev
    OBVIOUS
  <2>2. CASE u = name
    <3>1. e = n
      BY <1>3, <1>7, <2>1, <2>2
    <3> QED BY <1>6, <2>1, <3>1 DEF IsDir
  <2>3. CASE u # name
    <3>1. e = targets[u].ev /\ e \in 1..Len(events) /\ ~IsDir(e) /\ EventsInv
      BY <1>7, <2>1, <2>3 DEF DirectoryInv, TargetsInv
    <3>2. e \in 1..Len(events') /\ ~IsDir(e)'
      BY <1>6, <3>1, EventsStay
    <3> QED BY <2>1, <3>2 DEF IsDir
  <2> QED BY <2>2, <2>3
<1>13. TargetsInv'
  BY <1>8, <1>9, <1>10, <1>11, <1>12 DEF TargetsInv
<1> QED BY <1>6, <1>13 DEF DirectoryInv

\* A command at directory scope.
LEMMA DirectoryCommandKeeps ==
    ASSUME DirectoryInv, NEW c \in Calls, DirectoryCommand(c)
    PROVE  DirectoryInv'
<1>n. PICK n : n = Now
  OBVIOUS
<1>h. PICK h : h = Here
  OBVIOUS
<1>g. PICK new : new = DirItems(c, n, h)
  OBVIOUS
<1>r. PICK hit : hit = {t \in DOMAIN world.home :
                          /\ world.home[t] = h /\ c.cmd \in Retroactive
                          /\ ~targets[t].imported /\ targets[t].type \notin {"INTERFACE", "UTILITY"}}
  OBVIOUS
<1>1. /\ Log(c) /\ UNCHANGED <<project, scopes, stack, targets>>
      /\ world' = [world EXCEPT
                     !.props[h] = @ \cup new,
                     !.own = [t \in DOMAIN @ |-> IF t \in hit THEN @[t] \cup new ELSE @[t]]]
  BY <1>n, <1>h, <1>g, <1>r DEF DirectoryCommand
<1>2. /\ TypeInv /\ TreeInv /\ EventsInv /\ PropsInv /\ TargetsInv /\ DOMAIN world = Fields
      /\ DOMAIN world.own = Real /\ DOMAIN world.home = Real
  BY DEF DirectoryInv, TypeInv, TargetsInv
<1>3. /\ DOMAIN world' = Fields /\ world'.dir = world.dir /\ world'.home = world.home
      /\ world'.props = [world.props EXCEPT ![h] = @ \cup new]
      /\ world'.own = [t \in Real |-> IF t \in hit THEN world.own[t] \cup new ELSE world.own[t]]
  BY <1>1, <1>2 DEF Fields
<1>4. /\ TypeInv' /\ TreeInv' /\ EventsInv' /\ Longer
      /\ Len(events) \in Nat /\ n = Len(events) + 1 /\ Len(events') = n
      /\ events'[n].c = c /\ DirOf(n)' = h /\ GivenBy(n)' = new
  BY <1>1, <1>2, <1>3, <1>n, <1>h, <1>g, Logged
<1>5. \A i \in new : i.ev = n
  BY <1>g DEF DirItems
<1>6. From(new, n) = new
  BY <1>5 DEF From
<1>7. ASSUME NEW e \in (Len(events) + 1)..Len(events')
      PROVE  e = n /\ DirOf(e)' = h /\ GivenBy(e)' = new /\ From(new, e) = new
             /\ events'[e].c = c
  <2>1. e = n
    BY <1>4
  <2>2. DirOf(e)' = h
    BY <1>4, <2>1 DEF DirOf
  <2>3. GivenBy(e)' = new
    BY <1>4, <2>1 DEF GivenBy, DirOf
  <2> QED BY <1>4, <1>6, <2>1, <2>2, <2>3
<1>8. \A k \in 1..Len(world.dir) : world.dir[k] <= h /\ world.dir[k] \in 1..Len(scopes)
                                   /\ world.dir[k] \in DOMAIN world.props /\ DirOk(world.dir[k])
  <2>1. \A k \in 1..Len(world.dir) : world.dir[k] <= h
    BY <1>2, <1>h, LastIs DEF TypeInv, TreeInv, Here
  <2> QED BY <1>2, <2>1 DEF PropsInv, DirOk
<1>9. h \in DOMAIN world.props /\ h \in 1..Len(scopes) /\ ChainContains(h, h)
  <2>1. PICK k \in 1..Len(world.dir) : Here = world.dir[k]
    BY <1>2, LastIs DEF TypeInv, TreeInv, Here
  <2> QED BY <1>2, <1>8, <1>h, <2>1, AroundHere
<1>10. ASSUME NEW k \in 1..Len(world.dir) PROVE DirOk(world.dir[k])'
  <2>1. PICK d : d = world.dir[k]
    OBVIOUS
  <2>2. d <= h /\ d \in 1..Len(scopes) /\ d \in DOMAIN world.props /\ DirOk(d)
    BY <1>8, <2>1
  <2>3. PICK add : add = IF d = h THEN new ELSE {}
    OBVIOUS
  <2>4. world'.props[d] = world.props[d] \cup add /\ d \in DOMAIN world'.props
    BY <1>3, <1>9, <2>2, <2>3
  <2>5. ChainContains(d, h) <=> d = h
    <3>1. ASSUME ChainContains(d, h) PROVE d = h
      <4>1. Chain(d) \subseteq 1..d /\ h \in Chain(d)
        BY <1>4, <2>2, <3>1, ScopesStay DEF ChainContains, Longer
      <4> QED BY <2>2, <4>1
    <3> QED BY <1>9, <3>1
  <2>6. \A i \in add : i.ev \in (Len(events) + 1)..Len(events')
    BY <1>4, <1>5, <2>3
  <2>7. \A e \in (Len(events) + 1)..Len(events') : IsDir(e)' =>
           From(add, e) = IF ChainContains(d, DirOf(e)') THEN GivenBy(e)' ELSE {}
    <3> SUFFICES ASSUME NEW e \in (Len(events) + 1)..Len(events')
                 PROVE  From(add, e) = IF ChainContains(d, DirOf(e)') THEN GivenBy(e)' ELSE {}
      OBVIOUS
    <3>1. From(add, e) = IF d = h THEN new ELSE {}
      BY <1>7, <2>3 DEF From
    <3> QED BY <1>7, <2>5, <3>1
  <2>8. DirOk(d)'
    BY <1>2, <1>4, <2>2, <2>4, <2>6, <2>7, DirStays
  <2>9. world'.dir[k] = d
    BY <1>3, <2>1
  <2> QED BY <2>8, <2>9 DEF DirOk, ChainContains, Chain
<1>11. PropsInv'
  <2>1. DOMAIN world'.props \subseteq 1..Len(scopes')
    BY <1>1, <1>2, <1>3 DEF PropsInv
  <2> QED BY <1>3, <1>10, <2>1 DEF PropsInv
<1>12. Real' = Real
  BY <1>1 DEF Real
<1>13. ASSUME NEW t \in Real PROVE TargetOk(t)'
  <2>1. TargetOk(t) /\ targets[t].ev \in 1..Len(events) /\ targets'[t] = targets[t]
    BY <1>1, <1>2 DEF TargetsInv, Real
  <2>2. PICK add : add = IF t \in hit THEN new ELSE {}
    OBVIOUS
  <2>3. world'.own[t] = world.own[t] \cup add /\ world'.home[t] = world.home[t]
    BY <1>3, <2>2
  <2>4. \A i \in add : i.ev \in (Len(events) + 1)..Len(events')
    BY <1>4, <1>5, <2>2
  <2>5. \A e \in (Len(events) + 1)..Len(events') : IsDir(e)' =>
           From(add, e) = IF Given(e, t)' THEN GivenBy(e)' ELSE {}
    <3> SUFFICES ASSUME NEW e \in (Len(events) + 1)..Len(events')
                 PROVE  From(add, e) = IF Given(e, t)' THEN GivenBy(e)' ELSE {}
      OBVIOUS
    <3>1. From(add, e) = IF t \in hit THEN new ELSE {}
      BY <1>7, <2>2 DEF From
    <3>2. ~(e < targets'[t].ev)
      BY <1>4, <1>7, <2>1
    <3>3. t \in hit <=> c.cmd \in Retroactive /\ world.home[t] = h /\ Compiles(t)
      BY <1>2, <1>r DEF Compiles
    <3>4. Compiles(t)' <=> Compiles(t)
      BY <2>1 DEF Compiles
    <3>5. Given(e, t)' <=> t \in hit
      BY <1>7, <2>3, <3>2, <3>3, <3>4 DEF Given
    <3> QED BY <1>7, <3>1, <3>5
  <2> QED BY <1>2, <1>4, <2>1, <2>3, <2>4, <2>5, TargetStays
<1>14. \A t \in DOMAIN targets' : targets'[t].ev \in 1..Len(events') /\ ~IsDir(targets[t].ev)'
  BY <1>1, <1>4, CreationStays
<1>15. TargetsInv'
  BY <1>2, <1>3, <1>12, <1>13, <1>14 DEF TargetsInv
<1> QED BY <1>4, <1>11, <1>15 DEF DirectoryInv

-----------------------------------------------------------------------------
(* Scopes entered and left.                                                *)

\* A sequence without its last element.
LEMMA FrontIs ==
    ASSUME NEW s \in Seq(Nat), Len(s) > 0
    PROVE  /\ Front(s) \in Seq(Nat) /\ Len(Front(s)) = Len(s) - 1
           /\ \A i \in 1..(Len(s) - 1) : Front(s)[i] = s[i]
<1>1. Len(s) \in Nat /\ \A i \in 1..Len(s) : s[i] \in Nat
  BY LenProperties
<1>2. PICK m : m = Len(s) - 1
  OBVIOUS
<1>3. m \in Nat /\ \A i \in 1..m : s[i] \in Nat
  BY <1>1, <1>2
<1>4. /\ SubSeq(s, 1, m) \in Seq(Nat) /\ Len(SubSeq(s, 1, m)) = m
      /\ \A i \in 1..m : SubSeq(s, 1, m)[i] = s[i]
  BY <1>3, SubSeqProperties
<1> QED BY <1>2, <1>4 DEF Front

\* The scopes around one entered are itself and those that were open.
LEMMA OpenTree ==
    ASSUME TypeInv, TreeInv, EventsInv, NEW kind, Open(kind), NEW n, n = Len(scopes) + 1
    PROVE  /\ TypeInv' /\ TreeInv' /\ EventsInv' /\ Longer
           /\ n \in Nat \ {0} /\ Len(scopes') = n /\ scopes'[n].kind = kind
           /\ Chain(n)' = {n} \cup Chain(Last(stack))
<1> DEFINE top == Last(stack)
           row == [kind |-> kind, parent |-> top]
<1>1. /\ kind \in project.kinds /\ scopes' = Append(scopes, row) /\ stack' = Append(stack, n)
      /\ UNCHANGED <<project, events, targets>>
      /\ world' = IF kind \notin {"directory", "try_compile"} THEN world
                  ELSE [world EXCEPT !.dir = Append(@, n),
                            !.props = Put(@, n, IF kind = "directory" THEN @[Here] ELSE {})]
  BY DEF Open
<1>2. /\ top \in 1..Len(scopes) /\ Len(scopes) \in Nat
      /\ Chain(top) = {stack[j] : j \in 1..Len(stack)}
      /\ \A i \in 1..Len(stack) : stack[i] \in 1..Len(scopes)
      /\ Len(stack) \in Nat /\ Len(stack) > 0
  BY HereIs, LenProperties DEF TreeInv, TypeInv
<1>3. row \in ScopeRow /\ row.kind = kind /\ row.parent = top /\ kind # "root"
  BY <1>1, <1>2, DirAssumption DEF ScopeRow, TypeInv
<1>4. /\ scopes' \in Seq(ScopeRow) /\ Len(scopes') = n /\ scopes'[n] = row
      /\ \A r \in 1..Len(scopes) : scopes'[r] = scopes[r]
  <2> HIDE DEF row
  <2> QED BY <1>1, <1>3, AppendProperties DEF TypeInv
<1>5. /\ stack' \in Seq(Nat) /\ Len(stack') = Len(stack) + 1 /\ stack'[Len(stack) + 1] = n
      /\ \A j \in 1..Len(stack) : stack'[j] = stack[j]
  BY <1>1, <1>2, AppendProperties DEF TypeInv
<1>6. Longer
  <2>1. Parented(scopes')
    <3> SUFFICES ASSUME NEW s \in 1..n PROVE scopes'[s].parent \in 0..(s - 1)
      BY <1>4 DEF Parented
    <3>1. CASE s = n
      BY <1>2, <1>3, <1>4, <3>1
    <3>2. CASE s # n
      <4>1. s \in 1..Len(scopes)
        BY <1>2, <3>2
      <4> QED BY <1>4, <4>1 DEF TreeInv, Parented
    <3> QED BY <3>1, <3>2
  <2>2. Len(events) \in Nat
    BY LenProperties DEF TypeInv
  <2> QED BY <1>1, <1>2, <1>4, <2>1, <2>2 DEF Longer, TreeInv
<1>7. Chain(n)' = {n} \cup Chain(top)
  <2>1. PICK rows : rows = scopes'
    OBVIOUS
  <2>2. PICK t : t = top
    OBVIOUS
  <2>3. Up(rows, n) = {n} \cup Up(rows, t)
    BY <1>2, <1>3, <1>4, <1>6, <2>1, <2>2, UpIs DEF Longer
  <2>4. Up(rows, t) = Up(scopes, t)
    BY <1>2, <1>6, <2>1, <2>2, UpKept DEF Longer
  <2> QED BY <2>1, <2>2, <2>3, <2>4, ChainIs
<1>8. /\ DOMAIN world' = Fields /\ world'.dir \in Seq(Nat)
      /\ kind \notin Acting => world'.dir = world.dir
      /\ kind \in Acting => /\ Len(world'.dir) = Len(world.dir) + 1
                            /\ world'.dir[Len(world.dir) + 1] = n
                            /\ \A k \in 1..Len(world.dir) : world'.dir[k] = world.dir[k]
  <2>1. DOMAIN world = Fields /\ world.dir \in Seq(Nat)
    BY DEF TypeInv
  <2>2. kind \in Acting <=> kind \in {"directory", "try_compile"}
    BY <1>3 DEF Acting, DirKinds
  <2>3. CASE kind \notin Acting
    BY <1>1, <2>1, <2>2, <2>3
  <2>4. CASE kind \in Acting
    <3>1. DOMAIN world' = Fields /\ world'.dir = Append(world.dir, n)
      BY <1>1, <2>1, <2>2, <2>4 DEF Fields
    <3>2. n \in Nat
      BY <1>2
    <3> QED BY <2>1, <2>4, <3>1, <3>2, AppendProperties
  <2> QED BY <2>3, <2>4
<1>9. TypeInv'
  BY <1>1, <1>4, <1>5, <1>8 DEF TypeInv
<1>10. ASSUME NEW i \in 1..(Len(stack) + 1)
       PROVE  stack'[i] \in 1..n /\ Chain(stack[i])' = {stack'[j] : j \in 1..i}
  <2>1. PICK s : s = stack'[i]
    OBVIOUS
  <2>2. Chain(stack[i])' = Chain(s)'
    BY <2>1, ChainIs
  <2>3. CASE i = Len(stack) + 1
    <3>1. s = n
      BY <1>5, <2>1, <2>3
    <3>2. Chain(s)' = Chain(n)'
      BY <3>1, ChainIs
    <3>3. {stack'[j] : j \in 1..i} = {n} \cup {stack[j] : j \in 1..Len(stack)}
      <4>1. 1..i = 1..Len(stack) \cup {Len(stack) + 1}
        BY <1>2, <2>3
      <4>2. {stack'[j] : j \in 1..i} = {stack'[j] : j \in 1..Len(stack)} \cup {stack'[Len(stack) + 1]}
        BY <4>1
      <4> QED BY <1>5, <4>2
    <3>4. n \in 1..n
      BY <1>2
    <3> QED BY <1>2, <1>7, <2>1, <2>2, <3>1, <3>2, <3>3, <3>4
  <2>4. CASE i # Len(stack) + 1
    <3>1. i \in 1..Len(stack) /\ 1..i \subseteq 1..Len(stack)
      BY <1>2, <2>4
    <3>2. s = stack[i] /\ s \in 1..Len(scopes) /\ s \in 1..n
      BY <1>2, <1>5, <2>1, <3>1
    <3>3. Chain(s)' = Chain(s)
      BY <1>6, <3>2, ScopesStay
    <3>4. Chain(s) = {stack[j] : j \in 1..i}
      BY <3>1, <3>2 DEF TreeInv
    <3>5. {stack'[j] : j \in 1..i} = {stack[j] : j \in 1..i}
      BY <1>5, <3>1
    <3> QED BY <2>1, <2>2, <3>2, <3>3, <3>4, <3>5
  <2> QED BY <2>3, <2>4
<1>11. Ascending(stack)'
  <2> SUFFICES ASSUME NEW i \in 1..(Len(stack) + 1), NEW j \in 1..(Len(stack) + 1), i < j
               PROVE  stack'[i] < stack'[j]
    BY <1>5 DEF Ascending
  <2>1. i \in 1..Len(stack) /\ stack'[i] = stack[i] /\ stack[i] \in 1..Len(scopes)
    BY <1>2, <1>5
  <2>2. CASE j = Len(stack) + 1
    BY <1>2, <1>5, <2>1, <2>2
  <2>3. CASE j # Len(stack) + 1
    <3>1. j \in 1..Len(stack)
      BY <1>2, <2>3
    <3> QED BY <1>5, <2>1, <3>1 DEF TreeInv, Ascending
  <2> QED BY <2>2, <2>3
<1>12. \A k \in 1..Len(world.dir) : world.dir[k] \in 1..Len(scopes)
  <2> SUFFICES ASSUME NEW k \in 1..Len(world.dir) PROVE world.dir[k] \in 1..Len(scopes)
    OBVIOUS
  <2>1. world.dir[k] \in {world.dir[m] : m \in 1..Len(world.dir)}
    OBVIOUS
  <2>2. world.dir[k] \in {stack[j] : j \in 1..Len(stack)}
    BY <2>1 DEF TreeInv
  <2> QED BY <1>2, <2>2
<1>l. Len(world.dir) \in Nat /\ Len(world.dir) > 0
  BY LenProperties DEF TypeInv, TreeInv
<1>13. Ascending(world.dir)' /\ Len(world'.dir) > 0
  <2>1. CASE kind \notin Acting
    BY <1>8, <2>1 DEF TreeInv, Ascending
  <2>2. CASE kind \in Acting
    <3> SUFFICES ASSUME NEW i \in 1..(Len(world.dir) + 1), NEW j \in 1..(Len(world.dir) + 1), i < j
                 PROVE  world'.dir[i] < world'.dir[j]
      BY <1>l, <1>8, <2>2 DEF Ascending
    <3>1. i \in 1..Len(world.dir) /\ world'.dir[i] = world.dir[i] /\ world.dir[i] \in 1..Len(scopes)
      BY <1>l, <1>8, <1>12, <2>2
    <3>2. CASE j = Len(world.dir) + 1
      BY <1>2, <1>8, <2>2, <3>1, <3>2
    <3>3. CASE j # Len(world.dir) + 1
      <4>1. j \in 1..Len(world.dir)
        BY <1>l, <3>3
      <4> QED BY <1>8, <2>2, <3>1, <4>1 DEF TreeInv, Ascending
    <3> QED BY <3>2, <3>3
  <2> QED BY <2>1, <2>2
<1>14. {world'.dir[k] : k \in 1..Len(world'.dir)}
          = {s \in {stack'[j] : j \in 1..Len(stack')} : scopes'[s].kind \in Acting}
  <2> DEFINE old == {world.dir[k] : k \in 1..Len(world.dir)}
             open == {stack[j] : j \in 1..Len(stack)}
  <2>1. old = {s \in open : scopes[s].kind \in Acting}
    BY DEF TreeInv
  <2>2. {stack'[j] : j \in 1..Len(stack')} = open \cup {n}
    <3>1. 1..Len(stack') = 1..Len(stack) \cup {Len(stack) + 1}
      BY <1>2, <1>5
    <3>2. {stack'[j] : j \in 1..Len(stack')} = {stack'[j] : j \in 1..Len(stack)} \cup {stack'[Len(stack) + 1]}
      BY <3>1
    <3> QED BY <1>5, <3>2
  <2>3. {world'.dir[k] : k \in 1..Len(world'.dir)} = old \cup (IF kind \in Acting THEN {n} ELSE {})
    <3>1. CASE kind \notin Acting
      BY <1>8, <3>1
    <3>2. CASE kind \in Acting
      <4>1. 1..Len(world'.dir) = 1..Len(world.dir) \cup {Len(world.dir) + 1}
        BY <1>l, <1>8, <3>2
      <4>2. {world'.dir[k] : k \in 1..Len(world'.dir)}
              = {world'.dir[k] : k \in 1..Len(world.dir)} \cup {world'.dir[Len(world.dir) + 1]}
        BY <4>1
      <4>3. {world'.dir[k] : k \in 1..Len(world.dir)} = old
        BY <1>8, <3>2
      <4> QED BY <1>8, <3>2, <4>2, <4>3
    <3> QED BY <3>1, <3>2
  <2>4. \A s \in open : scopes'[s] = scopes[s]
    BY <1>2, <1>4
  <2>5. scopes'[n].kind = kind
    BY <1>3, <1>4
  <2>6. {s \in open \cup {n} : scopes'[s].kind \in Acting}
          = {s \in open : scopes[s].kind \in Acting} \cup (IF kind \in Acting THEN {n} ELSE {})
    <3> HIDE DEF open
    <3> QED BY <2>4, <2>5
  <2> QED BY <2>1, <2>2, <2>3, <2>6
<1>15. TreeInv'
  <2>1. scopes'[stack'[1]].kind = "root" /\ Parented(scopes)' /\ Len(stack') > 0
    <3>1. 1 \in 1..Len(stack)
      BY <1>2
    <3>2. stack'[1] = stack[1] /\ stack[1] \in 1..Len(scopes) /\ scopes[stack[1]].kind = "root"
      BY <1>2, <1>5, <3>1 DEF TreeInv
    <3>3. scopes'[stack'[1]].kind = "root"
      BY <1>4, <3>2
    <3>4. Parented(scopes)'
      BY <1>6 DEF Longer, Parented
    <3>5. Len(stack') > 0
      BY <1>2, <1>5
    <3> QED BY <3>3, <3>4, <3>5
  <2>2. \A i \in 1..Len(stack') : /\ stack'[i] \in 1..Len(scopes')
                                  /\ Chain(stack[i])' = {stack'[j] : j \in 1..i}
    BY <1>4, <1>5, <1>10
  <2> QED BY <1>11, <1>13, <1>14, <2>1, <2>2 DEF TreeInv
<1>16. EventsInv'
  <2> SUFFICES ASSUME NEW e \in 1..Len(events)
               PROVE  /\ events'[e].scope \in 1..Len(scopes')
                      /\ DirOf(e)' \in 1..Len(scopes') /\ scopes'[DirOf(e)'].kind \in Acting
    BY <1>1 DEF EventsInv
  <2>1. /\ DirOf(e)' = DirOf(e) /\ events'[e] = events[e]
        /\ scopes'[DirOf(e)] = scopes[DirOf(e)] /\ DirOf(e) \in 1..Len(scopes')
    BY <1>6, EventsStay
  <2>2. events[e].scope \in 1..n /\ scopes[DirOf(e)].kind \in Acting
    BY <1>2 DEF EventsInv
  <2> QED BY <1>4, <2>1, <2>2
<1> QED BY <1>2, <1>3, <1>4, <1>6, <1>7, <1>9, <1>15, <1>16

\* A scope entered: a directory begins with what its parent has, a scratch
\* project with nothing.
LEMMA OpenKeeps ==
    ASSUME DirectoryInv, NEW kind, Open(kind)
    PROVE  DirectoryInv'
<1>n. PICK n : n = Len(scopes) + 1
  OBVIOUS
<1>h. PICK h : h = Here
  OBVIOUS
<1>t. PICK top : top = Last(stack)
  OBVIOUS
<1>1. TypeInv /\ TreeInv /\ EventsInv /\ PropsInv /\ TargetsInv
  BY DEF DirectoryInv
<1>2. /\ TypeInv' /\ TreeInv' /\ EventsInv' /\ Longer
      /\ n \in Nat \ {0} /\ Len(scopes') = n /\ scopes'[n].kind = kind
      /\ Chain(n)' = {n} \cup Chain(top)
  BY <1>1, <1>n, <1>t, OpenTree
<1>3. /\ top \in 1..Len(scopes) /\ Len(scopes) \in Nat /\ Chain(top) \subseteq 1..Len(scopes)
      /\ h \in 1..Len(scopes)
  <2>1. top \in 1..Len(scopes) /\ Len(scopes) \in Nat /\ h \in 1..Len(scopes)
    BY <1>1, <1>t, <1>h, HereIs
  <2>2. Chain(top) \subseteq 1..top
    BY <1>2, <2>1, ScopesStay
  <2> QED BY <2>1, <2>2
<1>4. /\ UNCHANGED <<events, targets>> /\ kind # "root"
      /\ world' = IF kind \notin {"directory", "try_compile"} THEN world
                  ELSE [world EXCEPT !.dir = Append(@, n),
                            !.props = Put(@, n, IF kind = "directory" THEN @[h] ELSE {})]
  <2>1. kind \in project.kinds
    BY DEF Open
  <2>2. kind # "root"
    BY <1>1, <2>1, DirAssumption DEF TypeInv
  <2> QED BY <1>n, <1>h, <2>2 DEF Open
<1>5. Len(events) \in Nat /\ (Len(events) + 1)..Len(events') = {}
  BY <1>2, <1>4 DEF Longer
<1>6. /\ world'.home = world.home /\ world'.own = world.own
      /\ \A d \in DOMAIN world.props : d # n => d \in DOMAIN world'.props /\ world'.props[d] = world.props[d]
      /\ kind \notin {"directory", "try_compile"} => world' = world
      /\ kind \in {"directory", "try_compile"} =>
           /\ DOMAIN world'.props = {n} \cup DOMAIN world.props
           /\ world'.props[n] = IF kind = "directory" THEN world.props[h] ELSE {}
           /\ world'.dir = Append(world.dir, n)
  <2>1. DOMAIN world = Fields
    BY <1>1 DEF TypeInv
  <2>2. CASE kind \notin {"directory", "try_compile"}
    BY <1>4, <2>2
  <2>3. CASE kind \in {"directory", "try_compile"}
    <3>1. /\ world'.home = world.home /\ world'.own = world.own
          /\ world'.dir = Append(world.dir, n)
          /\ world'.props = Put(world.props, n, IF kind = "directory" THEN world.props[h] ELSE {})
      BY <1>4, <2>1, <2>3 DEF Fields
    <3> QED BY <2>3, <3>1 DEF Put
  <2> QED BY <2>2, <2>3
<1>7. \A d \in DOMAIN world.props : d \in 1..Len(scopes) /\ d # n
  BY <1>1, <1>3, <1>n DEF PropsInv
<1>e. PICK none : none = {}
  OBVIOUS
<1>8. ASSUME NEW k \in 1..Len(world.dir) PROVE DirOk(world.dir[k])'
  <2>1. PICK d : d = world.dir[k]
    OBVIOUS
  <2>2. DirOk(d) /\ d \in 1..Len(scopes) /\ d \in DOMAIN world.props /\ d # n
    BY <1>1, <1>7, <2>1 DEF PropsInv, DirOk
  <2>3. world'.props[d] = world.props[d] \cup none /\ d \in DOMAIN world'.props
    BY <1>6, <1>e, <2>2
  <2>4. DirOk(d)'
    BY <1>1, <1>2, <1>5, <1>e, <2>2, <2>3, DirStays
  <2>5. PICK w : w = world'.dir[k]
    OBVIOUS
  <2>6. w = d
    <3>1. world.dir \in Seq(Nat) /\ n \in Nat
      BY <1>1, <1>2 DEF TypeInv
    <3>2. CASE kind \in {"directory", "try_compile"}
      BY <1>6, <2>1, <2>5, <3>1, <3>2, AppendProperties
    <3>3. CASE kind \notin {"directory", "try_compile"}
      BY <1>6, <2>1, <2>5, <3>3
    <3> QED BY <3>2, <3>3
  <2> QED BY <2>4, <2>5, <2>6 DEF DirOk, ChainContains, Chain
<1>9. ASSUME kind \in {"directory", "try_compile"} PROVE DirOk(n)'
  <2>1. DirOk(h)
    <3>1. PICK k \in 1..Len(world.dir) : Here = world.dir[k]
      BY <1>1, LastIs DEF TypeInv, TreeInv, Here
    <3> QED BY <1>1, <1>h, <3>1 DEF PropsInv, DirOk
  <2>2. \A i \in world'.props[n] : i.ev \in 1..Len(events')
    BY <1>4, <1>6, <1>9, <2>1 DEF DirOk
  <2>3. ASSUME NEW e \in 1..Len(events), IsDir(e)'
        PROVE  From(world'.props[n], e) = IF ChainContains(n, DirOf(e))' THEN GivenBy(e)' ELSE {}
    <3>1. PICK a : a = DirOf(e)
      OBVIOUS
    <3>2. /\ DirOf(e)' = a /\ GivenBy(e)' = GivenBy(e) /\ IsDir(e)
          /\ a \in 1..Len(scopes) /\ scopes[a].kind \in Acting
      BY <1>1, <1>2, <2>3, <3>1, EventsStay DEF EventsInv
    <3>3. ChainContains(n, DirOf(e))' <=> ChainContains(n, a)'
      BY <3>2 DEF ChainContains
    <3>4. ChainContains(n, a)' <=> kind # "try_compile" /\ ChainContains(top, a)
      <4>1. \A x \in Chain(top) : scopes'[x] = scopes[x]
        BY <1>2, <1>3 DEF Longer
      <4>2. n > a /\ n # a
        BY <1>3, <1>n, <3>2
      <4>3. a \in {n} \cup Chain(top) <=> a \in Chain(top)
        BY <4>2
      <4> QED BY <1>2, <4>1, <4>2, <4>3 DEF ChainContains
    <3>5. ChainContains(top, a) <=> ChainContains(h, a)
      BY <1>1, <1>h, <1>t, <3>2, AroundHere
    <3>6. From(world.props[h], e) = IF ChainContains(h, a) THEN GivenBy(e) ELSE {}
      BY <2>1, <3>1, <3>2 DEF DirOk
    <3>7. kind = "try_compile" => From(world'.props[n], e) = {}
      BY <1>6 DEF From
    <3>8. kind = "directory" => world'.props[n] = world.props[h]
      BY <1>6
    <3> QED BY <1>9, <3>2, <3>3, <3>4, <3>5, <3>6, <3>7, <3>8
  <2>4. n \in DOMAIN world'.props
    BY <1>6, <1>9
  <2> QED BY <1>4, <2>2, <2>3, <2>4 DEF DirOk
<1>10. PropsInv'
  <2>1. DOMAIN world'.props \subseteq 1..Len(scopes')
    BY <1>2, <1>3, <1>6, <1>7, <1>n
  <2>2. ASSUME NEW k \in 1..Len(world'.dir) PROVE DirOk(world.dir[k])'
    <3>1. world.dir \in Seq(Nat) /\ n \in Nat /\ Len(world.dir) \in Nat
      BY <1>1, <1>2, LenProperties DEF TypeInv
    <3>2. CASE k \in 1..Len(world.dir)
      BY <1>8, <3>2
    <3>3. CASE k \notin 1..Len(world.dir)
      <4>1. kind \in {"directory", "try_compile"}
        BY <1>6, <2>2, <3>3
      <4>2. Len(world'.dir) = Len(world.dir) + 1 /\ world'.dir[Len(world.dir) + 1] = n
        BY <1>6, <3>1, <4>1, AppendProperties
      <4>3. k = Len(world.dir) + 1
        BY <3>1, <3>3, <4>2
      <4>4. PICK w : w = world'.dir[k]
        OBVIOUS
      <4>5. w = n
        BY <4>2, <4>3, <4>4
      <4> QED BY <1>9, <4>1, <4>4, <4>5 DEF DirOk, ChainContains, Chain
    <3> QED BY <3>2, <3>3
  <2> QED BY <2>1, <2>2 DEF PropsInv
<1>11. Real' = Real
  BY <1>4 DEF Real
<1>12. ASSUME NEW t \in Real PROVE TargetOk(t)'
  <2>1. TargetOk(t) /\ targets[t].ev \in 1..Len(events) /\ targets'[t] = targets[t]
    BY <1>1, <1>4 DEF TargetsInv, Real
  <2>2. world'.own[t] = world.own[t] \cup none /\ world'.home[t] = world.home[t]
    BY <1>6, <1>e
  <2> QED BY <1>1, <1>2, <1>5, <1>e, <2>1, <2>2, TargetStays
<1>13. TargetsInv'
  <2>1. \A t \in DOMAIN targets' : targets'[t].ev \in 1..Len(events') /\ ~IsDir(targets[t].ev)'
    BY <1>2, <1>4, CreationStays
  <2> QED BY <1>1, <1>4, <1>6, <1>11, <1>12, <2>1 DEF TargetsInv
<1> QED BY <1>2, <1>10, <1>13 DEF DirectoryInv

\* Nothing is given, and no directory is entered.
LEMMA QuietKeeps ==
    ASSUME DirectoryInv, Longer, TypeInv', TreeInv', UNCHANGED <<scopes, events, targets>>,
           world'.props = world.props, world'.home = world.home, world'.own = world.own,
           \A k \in 1..Len(world'.dir) : k \in 1..Len(world.dir) /\ world'.dir[k] = world.dir[k]
    PROVE  DirectoryInv'
<1>1. EventsInv /\ PropsInv /\ TargetsInv
  BY DEF DirectoryInv
<1>2. EventsInv'
  <2> SUFFICES ASSUME NEW e \in 1..Len(events)
               PROVE  /\ events'[e].scope \in 1..Len(scopes')
                      /\ DirOf(e)' \in 1..Len(scopes') /\ scopes'[DirOf(e)'].kind \in Acting
    BY DEF EventsInv
  <2>1. DirOf(e)' = DirOf(e) /\ events'[e] = events[e]
    BY <1>1, EventsStay
  <2> QED BY <1>1, <2>1 DEF EventsInv
<1>3. Len(events) \in Nat /\ (Len(events) + 1)..Len(events') = {}
  BY DEF Longer
<1>e. PICK none : none = {}
  OBVIOUS
<1>4. ASSUME NEW k \in 1..Len(world'.dir) PROVE DirOk(world.dir[k])'
  <2>1. PICK d : d = world'.dir[k]
    OBVIOUS
  <2>2. DirOk(d) /\ d \in 1..Len(scopes) /\ d \in DOMAIN world.props
    BY <1>1, <2>1 DEF PropsInv, DirOk
  <2>3. world'.props[d] = world.props[d] \cup none /\ d \in DOMAIN world'.props
    BY <1>e, <2>2
  <2>4. DirOk(d)'
    BY <1>1, <1>3, <1>e, <2>2, <2>3, DirStays
  <2> QED BY <2>1, <2>4 DEF DirOk, ChainContains, Chain
<1>5. PropsInv'
  BY <1>1, <1>4 DEF PropsInv
<1>6. Real' = Real
  BY DEF Real
<1>7. ASSUME NEW t \in Real PROVE TargetOk(t)'
  <2>1. TargetOk(t) /\ targets[t].ev \in 1..Len(events) /\ targets'[t] = targets[t]
    BY <1>1 DEF TargetsInv, Real
  <2>2. world'.own[t] = world.own[t] \cup none /\ world'.home[t] = world.home[t]
    BY <1>e
  <2> QED BY <1>1, <1>3, <1>e, <2>1, <2>2, TargetStays
<1>8. TargetsInv'
  <2>1. \A t \in DOMAIN targets' : targets'[t].ev \in 1..Len(events') /\ ~IsDir(targets[t].ev)'
    BY CreationStays
  <2> QED BY <1>1, <1>6, <1>7, <2>1 DEF TargetsInv
<1> QED BY <1>2, <1>5, <1>8 DEF DirectoryInv

\* A scope left.
LEMMA CloseKeeps ==
    ASSUME DirectoryInv, Close
    PROVE  DirectoryInv'
<1>1. /\ TypeInv /\ TreeInv /\ EventsInv /\ PropsInv /\ TargetsInv
      /\ stack \in Seq(Nat) /\ world.dir \in Seq(Nat) /\ DOMAIN world = Fields
  BY DEF DirectoryInv, TypeInv
<1>n. PICK n : n = Len(stack) - 1
  OBVIOUS
<1>m. PICK m : m = Len(world.dir)
  OBVIOUS
<1>l. PICK l : l = stack[n + 1]
  OBVIOUS
<1>2. /\ n \in Nat \ {0} /\ Len(stack) = n + 1 /\ stack' = Front(stack)
      /\ m \in Nat \ {0} /\ UNCHANGED <<project, scopes, events, targets>>
      /\ world' = IF Here = l THEN [world EXCEPT !.dir = Front(@)] ELSE world
      /\ Last(stack) = l
  BY <1>1, <1>n, <1>m, <1>l, LastIs, LenProperties DEF Close, TreeInv
<1>3. /\ stack' \in Seq(Nat) /\ Len(stack') = n /\ \A i \in 1..n : stack'[i] = stack[i]
  BY <1>1, <1>2, FrontIs
<1>4. Longer
  <2>1. Len(scopes) \in Nat /\ Len(events) \in Nat
    BY <1>1, LenProperties DEF TypeInv
  <2> QED BY <1>1, <1>2, <2>1 DEF Longer, TreeInv
<1>5. /\ Here = world.dir[m] /\ \A k \in 1..m : world.dir[k] \in Nat /\ world.dir[k] <= Here
      /\ \A i \in 1..(n + 1) : stack[i] \in Nat
      /\ \A i \in 1..n : stack[i] < l
  <2>1. \A i \in 1..n : i \in 1..Len(stack) /\ n + 1 \in 1..Len(stack) /\ i < n + 1
    BY <1>2
  <2>2. \A i \in 1..n : stack[i] < l
    BY <1>1, <1>l, <2>1 DEF TreeInv, Ascending
  <2>3. \A i \in 1..(n + 1) : stack[i] \in Nat
    BY <1>1, <1>2, LenProperties
  <2>4. \A k \in 1..m : world.dir[k] \in Nat
    BY <1>1, <1>m, LenProperties
  <2>5. Last(world.dir) = world.dir[m] /\ \A k \in 1..m : world.dir[k] <= Last(world.dir)
    BY <1>1, <1>m, LastIs DEF TreeInv
  <2> QED BY <2>2, <2>3, <2>4, <2>5 DEF Here
<1>6. {world.dir[k] : k \in 1..m} = {s \in {stack[j] : j \in 1..(n + 1)} : scopes[s].kind \in Acting}
  BY <1>1, <1>2, <1>m DEF TreeInv
<1>7. 1..(n + 1) = 1..n \cup {n + 1}
  BY <1>2
<1>8. {stack[j] : j \in 1..(n + 1)} = {stack[j] : j \in 1..n} \cup {l}
  BY <1>l, <1>7
<1>9. l \notin {stack[j] : j \in 1..n}
  BY <1>2, <1>5
<1>10. scopes[stack[1]].kind = "root" /\ 1 \in 1..n
  BY <1>1, <1>2 DEF TreeInv
<1>11. /\ DOMAIN world' = Fields /\ world'.props = world.props /\ world'.home = world.home
       /\ world'.own = world.own /\ world'.dir \in Seq(Nat) /\ Len(world'.dir) \in Nat \ {0}
       /\ Len(world'.dir) <= m /\ \A k \in 1..Len(world'.dir) : world'.dir[k] = world.dir[k]
       /\ {world'.dir[k] : k \in 1..Len(world'.dir)}
            = {s \in {stack[j] : j \in 1..n} : scopes[s].kind \in Acting}
  <2>1. CASE Here = l
    <3>1. world' = [world EXCEPT !.dir = Front(@)]
      BY <1>2, <2>1
    <3>2. /\ DOMAIN world' = Fields /\ world'.props = world.props /\ world'.home = world.home
          /\ world'.own = world.own /\ world'.dir = Front(world.dir)
      BY <1>1, <3>1 DEF Fields
    <3>3. /\ world'.dir \in Seq(Nat) /\ Len(world'.dir) = m - 1
          /\ \A k \in 1..(m - 1) : world'.dir[k] = world.dir[k]
      <4>1. PICK s : s = world.dir
        OBVIOUS
      <4>2. s \in Seq(Nat) /\ Len(s) > 0 /\ Len(s) = m
        BY <1>1, <1>2, <1>m, <4>1
      <4>3. /\ Front(s) \in Seq(Nat) /\ Len(Front(s)) = m - 1
            /\ \A k \in 1..(m - 1) : Front(s)[k] = s[k]
        BY <4>2, FrontIs
      <4> QED BY <3>2, <4>1, <4>3
    <3>4. \A k \in 1..(m - 1) : world.dir[k] # l
      <4>1. \A k \in 1..(m - 1) : k \in 1..Len(world.dir) /\ m \in 1..Len(world.dir) /\ k < m
        BY <1>2, <1>m
      <4>2. \A k \in 1..(m - 1) : world.dir[k] < world.dir[m]
        BY <1>1, <4>1 DEF TreeInv, Ascending
      <4>3. \A k \in 1..(m - 1) : k \in 1..m
        BY <1>2
      <4> QED BY <1>5, <2>1, <4>2, <4>3
    <3>5. 1..m = 1..(m - 1) \cup {m}
      BY <1>2
    <3>6. {world.dir[k] : k \in 1..m} = {world.dir[k] : k \in 1..(m - 1)} \cup {l}
      BY <1>5, <2>1, <3>5
    <3>7. {world.dir[k] : k \in 1..(m - 1)} = {world.dir[k] : k \in 1..m} \ {l}
      BY <3>4, <3>6
    <3>8. {s \in {stack[j] : j \in 1..(n + 1)} : scopes[s].kind \in Acting} \ {l}
            = {s \in {stack[j] : j \in 1..n} : scopes[s].kind \in Acting}
      BY <1>8, <1>9
    <3>9. {world'.dir[k] : k \in 1..(m - 1)} = {world.dir[k] : k \in 1..(m - 1)}
      BY <3>3
    <3>10. {world'.dir[k] : k \in 1..Len(world'.dir)}
             = {s \in {stack[j] : j \in 1..n} : scopes[s].kind \in Acting}
      BY <1>6, <3>3, <3>7, <3>8, <3>9
    <3>11. m - 1 # 0
      <4> SUFFICES ASSUME m - 1 = 0 PROVE FALSE
        OBVIOUS
      <4>1. {world.dir[k] : k \in 1..(m - 1)} = {}
        OBVIOUS
      <4>2. stack[1] \in {s \in {stack[j] : j \in 1..n} : scopes[s].kind \in Acting}
        BY <1>10 DEF Acting, DirKinds
      <4> QED BY <1>6, <3>7, <3>8, <4>1, <4>2
    <3>12. m - 1 \in Nat \ {0} /\ m - 1 <= m
      BY <1>2, <3>11
    <3>13. Len(world'.dir) \in Nat \ {0} /\ Len(world'.dir) <= m
      BY <3>3, <3>12
    <3>14. \A k \in 1..Len(world'.dir) : world'.dir[k] = world.dir[k]
      BY <3>3
    <3> QED BY <3>2, <3>3, <3>10, <3>13, <3>14
  <2>2. CASE Here # l
    <3>1. world' = world
      BY <1>2, <2>2
    <3>2. scopes[l].kind \notin Acting
      <4> SUFFICES ASSUME scopes[l].kind \in Acting PROVE FALSE
        OBVIOUS
      <4>1. l \in {world.dir[k] : k \in 1..m}
        BY <1>6, <1>8
      <4>2. l <= Here
        BY <1>5, <4>1
      <4>3. Here \in {world.dir[k] : k \in 1..m}
        BY <1>2, <1>5
      <4>4. Here \in {stack[j] : j \in 1..n} \cup {l}
        BY <1>6, <1>8, <4>3
      <4>5. Here < l
        BY <1>5, <2>2, <4>4
      <4>6. l \in Nat /\ Here \in Nat
        BY <1>2, <1>5, <1>l
      <4> QED BY <4>2, <4>5, <4>6
    <3>3. {s \in {stack[j] : j \in 1..(n + 1)} : scopes[s].kind \in Acting}
            = {s \in {stack[j] : j \in 1..n} : scopes[s].kind \in Acting}
      BY <1>8, <3>2
    <3>4. Len(world'.dir) = m /\ m <= m
      <4>1. m \in Nat
        BY <1>2
      <4> QED BY <1>m, <3>1, <4>1
    <3>5. {world'.dir[k] : k \in 1..Len(world'.dir)}
            = {s \in {stack[j] : j \in 1..n} : scopes[s].kind \in Acting}
      BY <1>6, <3>1, <3>3, <3>4
    <3>6. Len(world'.dir) \in Nat \ {0} /\ \A k \in 1..Len(world'.dir) : world'.dir[k] = world.dir[k]
      BY <1>2, <3>1, <3>4
    <3> QED BY <1>1, <3>1, <3>4, <3>5, <3>6
  <2> QED BY <2>1, <2>2
<1>12. TypeInv'
  BY <1>1, <1>2, <1>3, <1>11 DEF TypeInv
<1>13. TreeInv'
  <2>1. ASSUME NEW i \in 1..n
        PROVE  stack'[i] \in 1..Len(scopes') /\ Chain(stack[i])' = {stack'[j] : j \in 1..i}
    <3>1. PICK s : s = stack'[i]
      OBVIOUS
    <3>2. Chain(stack[i])' = Chain(s)'
      BY <3>1, ChainIs
    <3>3. i \in 1..Len(stack) /\ 1..i \subseteq 1..n
      BY <1>2
    <3>4. s = stack[i] /\ s \in 1..Len(scopes) /\ Chain(s) = {stack[j] : j \in 1..i}
      BY <1>1, <1>3, <3>1, <3>3 DEF TreeInv
    <3>5. Chain(s)' = Chain(s)
      BY <1>4, <3>4, ScopesStay DEF Longer
    <3>6. {stack'[j] : j \in 1..i} = {stack[j] : j \in 1..i}
      BY <1>3, <3>3
    <3> QED BY <1>2, <3>1, <3>2, <3>4, <3>5, <3>6
  <2>2. Ascending(stack)'
    <3> SUFFICES ASSUME NEW i \in 1..n, NEW j \in 1..n, i < j PROVE stack'[i] < stack'[j]
      BY <1>3 DEF Ascending
    <3>1. i \in 1..Len(stack) /\ j \in 1..Len(stack)
      BY <1>2
    <3> QED BY <1>1, <1>3, <3>1 DEF TreeInv, Ascending
  <2>3. Ascending(world.dir)'
    <3> SUFFICES ASSUME NEW i \in 1..Len(world'.dir), NEW j \in 1..Len(world'.dir), i < j
                 PROVE  world'.dir[i] < world'.dir[j]
      BY DEF Ascending
    <3>1. i \in 1..Len(world.dir) /\ j \in 1..Len(world.dir)
      BY <1>2, <1>11, <1>m
    <3> QED BY <1>1, <1>11, <3>1 DEF TreeInv, Ascending
  <2>4. /\ Parented(scopes)' /\ Len(stack') > 0 /\ scopes'[stack'[1]].kind = "root"
        /\ Len(world'.dir) > 0
    <3>1. Parented(scopes)'
      BY <1>1, <1>2 DEF TreeInv, Parented
    <3>2. Len(stack') > 0 /\ scopes'[stack'[1]].kind = "root"
      BY <1>2, <1>3, <1>10
    <3>3. Len(world'.dir) > 0
      BY <1>11
    <3> QED BY <3>1, <3>2, <3>3
  <2>5. {stack'[j] : j \in 1..Len(stack')} = {stack[j] : j \in 1..n}
    BY <1>3
  <2>6. {world'.dir[k] : k \in 1..Len(world'.dir)}
          = {s \in {stack'[j] : j \in 1..Len(stack')} : scopes'[s].kind \in Acting}
    BY <1>2, <1>11, <2>5
  <2>7. \A i \in 1..Len(stack') : /\ stack'[i] \in 1..Len(scopes')
                                  /\ Chain(stack[i])' = {stack'[j] : j \in 1..i}
    BY <1>3, <2>1
  <2> QED BY <2>2, <2>3, <2>4, <2>6, <2>7 DEF TreeInv
<1>14. \A k \in 1..Len(world'.dir) : k \in 1..Len(world.dir) /\ world'.dir[k] = world.dir[k]
  BY <1>2, <1>11, <1>m
<1> QED BY <1>2, <1>4, <1>11, <1>12, <1>13, <1>14, QuietKeeps

\* A step of something else.
LEMMA StutterKeeps ==
    ASSUME DirectoryInv, UNCHANGED <<project, scopes, stack, events, targets, world>>
    PROVE  DirectoryInv'
<1>1. TypeInv /\ TypeInv' /\ TreeInv
  BY DEF DirectoryInv, TypeInv
<1>2. Longer
  <2>1. Len(scopes) \in Nat /\ Len(events) \in Nat
    BY <1>1, LenProperties DEF TypeInv
  <2> QED BY <1>1, <2>1 DEF Longer, TreeInv
<1>3. TreeInv'
  <2>1. ASSUME NEW i \in 1..Len(stack)
        PROVE  stack'[i] \in 1..Len(scopes') /\ Chain(stack[i])' = {stack'[j] : j \in 1..i}
    <3>1. PICK s : s = stack[i]
      OBVIOUS
    <3>2. s = stack'[i] /\ s \in 1..Len(scopes) /\ Chain(s) = {stack[j] : j \in 1..i}
      BY <1>1, <3>1 DEF TreeInv
    <3>3. Chain(stack[i])' = Chain(s)' /\ Chain(s)' = Chain(s)
      BY <3>2, ChainIs
    <3> QED BY <3>2, <3>3
  <2>2. \A i \in 1..Len(stack') : /\ stack'[i] \in 1..Len(scopes')
                                  /\ Chain(stack[i])' = {stack'[j] : j \in 1..i}
    BY <2>1
  <2>3. /\ Parented(scopes)' /\ Len(stack') > 0 /\ Ascending(stack)' /\ scopes'[stack'[1]].kind = "root"
        /\ Len(world'.dir) > 0 /\ Ascending(world.dir)'
    BY <1>1 DEF TreeInv, Parented, Ascending
  <2>4. {world'.dir[k] : k \in 1..Len(world'.dir)}
          = {s \in {stack'[j] : j \in 1..Len(stack')} : scopes'[s].kind \in Acting}
    <3>1. {world.dir[k] : k \in 1..Len(world.dir)}
            = {s \in {stack[j] : j \in 1..Len(stack)} : scopes[s].kind \in Acting}
      BY <1>1 DEF TreeInv
    <3>2. world'.dir = world.dir /\ stack' = stack /\ scopes' = scopes
      OBVIOUS
    <3> QED BY <3>1, <3>2
  <2> QED BY <2>2, <2>3, <2>4 DEF TreeInv
<1> QED BY <1>1, <1>2, <1>3, QuietKeeps

\* Calls made are calls of the project.
LEMMA DoableAreCalls ==
    ASSUME TypeInv, NEW c \in Doable
    PROVE  c \in Calls
<1>1. project \in Projects /\ Len(events) \in Nat
  BY LenProperties DEF TypeInv
<1>2. CASE Len(events) < Len(project.lead)
  <2>1. c = project.lead[Len(events) + 1]
    BY <1>2 DEF Doable
  <2>2. project.lead \in Seq(ToSet(project.lead))
    BY <1>1, ConfigureAssumption
  <2>3. c \in ToSet(project.lead)
    <3>1. Len(project.lead) \in Nat /\ \A i \in 1..Len(project.lead) : project.lead[i] \in ToSet(project.lead)
      BY <2>2, LenProperties
    <3> QED BY <1>1, <1>2, <2>1, <3>1
  <2> QED BY <1>1, <2>3 DEF Calls
<1>3. CASE ~(Len(events) < Len(project.lead))
  <2>1. c \in project.calls
    BY <1>3 DEF Doable
  <2> QED BY <1>1, <2>1 DEF Calls
<1> QED BY <1>2, <1>3

\* Nothing is given before the first call.
LEMMA DirectoryInit ==
    ASSUME Init
    PROVE  DirectoryInv
<1>1. /\ project \in Projects /\ scopes = <<[kind |-> "root", parent |-> 0]>> /\ stack = <<1>>
      /\ events = <<>> /\ targets = <<>>
      /\ world = [dir |-> <<1>>, props |-> <<{}>>, home |-> <<>>, own |-> <<>>,
                  iface |-> <<>>, links |-> <<>>, ilinks |-> <<>>]
  BY DEF Init
<1>2. /\ Len(scopes) = 1 /\ scopes[1] = [kind |-> "root", parent |-> 0]
      /\ Len(stack) = 1 /\ stack[1] = 1 /\ Len(events) = 0
      /\ world.dir = <<1>> /\ Len(world.dir) = 1 /\ world.dir[1] = 1
      /\ world.props = <<{}>> /\ DOMAIN world.props = {1} /\ world.props[1] = {}
      /\ world.home = <<>> /\ world.own = <<>> /\ DOMAIN targets = {}
      /\ DOMAIN world.home = {} /\ DOMAIN world.own = {}
  BY <1>1
<1>3. TypeInv
  <2>1. scopes \in Seq(ScopeRow)
    BY <1>1 DEF ScopeRow
  <2>2. DOMAIN world = Fields
    BY <1>1 DEF Fields
  <2> QED BY <1>1, <1>2, <2>1, <2>2 DEF TypeInv
<1>4. TreeInv
  <2>1. Parented(scopes)
    BY <1>2 DEF Parented
  <2>2. Chain(1) = {1}
    <3>1. Len(scopes) \in Nat /\ 1 \in 1..Len(scopes) /\ scopes[1].parent = 0
      BY <1>2
    <3>2. Up(scopes, 0) = {} /\ Up(scopes, 1) = {1} \cup Up(scopes, scopes[1].parent)
      BY <2>1, <3>1, UpIs
    <3> QED BY <3>1, <3>2, ChainIs
  <2>3. \A i \in 1..Len(stack) : i = 1 /\ {stack[j] : j \in 1..i} = {1}
    BY <1>2
  <2>4. Ascending(stack) /\ Ascending(world.dir)
    BY <1>2 DEF Ascending
  <2>5. {world.dir[k] : k \in 1..Len(world.dir)} = {1} /\ {stack[j] : j \in 1..Len(stack)} = {1}
    BY <1>2
  <2>6. {s \in {1} : scopes[s].kind \in Acting} = {1}
    BY <1>2 DEF Acting, DirKinds
  <2> QED BY <1>2, <2>1, <2>2, <2>3, <2>4, <2>5, <2>6 DEF TreeInv
<1>5. EventsInv
  BY <1>2 DEF EventsInv
<1>6. PropsInv
  <2>1. DirOk(1)
    BY <1>2 DEF DirOk
  <2>2. \A k \in 1..Len(world.dir) : world.dir[k] = 1
    BY <1>2
  <2> QED BY <1>2, <2>1, <2>2 DEF PropsInv
<1>7. TargetsInv
  BY <1>2 DEF TargetsInv, Real
<1> QED BY <1>3, <1>4, <1>5, <1>6, <1>7 DEF DirectoryInv

\* What a directory and a target have of every command holds at every moment.
THEOREM DirectoriesKept == Spec => []DirectoryInv
<1>1. Init => DirectoryInv
  BY DirectoryInit
<1>2. DirectoryInv /\ [Next]_vars => DirectoryInv'
  <2> SUFFICES ASSUME DirectoryInv, [Next]_vars PROVE DirectoryInv'
    OBVIOUS
  <2>1. ASSUME NEW c \in Doable,
               \/ AddTarget(c) \/ LinkLibraries(c) \/ Requirement(c)
               \/ SetProperty(c) \/ DirectoryCommand(c) \/ Scratch(c)
        PROVE  DirectoryInv'
    <3>1. c \in Calls
      BY DoableAreCalls DEF DirectoryInv
    <3> QED BY <2>1, <3>1, AddTargetKeeps, TargetCallKeeps, DirectoryCommandKeeps
  <2>2. ASSUME NEW kind \in project.kinds, Open(kind) PROVE DirectoryInv'
    BY <2>2, OpenKeeps
  <2>3. CASE Close
    BY <2>3, CloseKeeps
  <2>4. CASE UNCHANGED vars
    BY <2>4, StutterKeeps DEF vars
  <2> QED BY <2>1, <2>2, <2>3, <2>4 DEF Next
<1> QED BY <1>1, <1>2, PTL DEF Spec

-----------------------------------------------------------------------------
(* What directory-commands reports.                                        *)

\* Where a command at directory scope acts for the pass is where it acts.
LEMMA EffectiveDirIs ==
    ASSUME Len(scopes) \in Nat, Parented(scopes), NEW s \in 0..Len(scopes), EffectiveDir(s) # 0
    PROVE  EffectiveDir(s) = Innermost(s, Acting)
<1> DEFINE kinds == DirKinds \cup {"function", "try_compile"}
<1>1. PICK m : m = Innermost(s, kinds)
  OBVIOUS
<1>2. EffectiveDir(s) = m /\ m # 0 /\ scopes[m].kind \in DirKinds
  BY <1>1 DEF EffectiveDir, DirOr0
<1>3. /\ m \in Chain(s) /\ m \in 1..s
      /\ \A x \in Chain(s) : scopes[x].kind \in kinds => x <= m
  BY <1>1, <1>2, InnermostIs
<1>4. PICK a : a = Innermost(s, Acting)
  OBVIOUS
<1>5. \/ a = 0 /\ \A x \in Chain(s) : scopes[x].kind \notin Acting
      \/ /\ a \in Chain(s) /\ a \in 1..s /\ scopes[a].kind \in Acting
         /\ \A x \in Chain(s) : scopes[x].kind \in Acting => x <= a
  BY <1>4, InnermostIs
<1>6. scopes[m].kind \in Acting /\ \A k \in Acting : k \in kinds
  BY <1>2 DEF Acting
<1>7. a \in Chain(s) /\ a \in 1..s /\ m <= a /\ a <= m
  BY <1>3, <1>5, <1>6
<1>8. a = m
  BY <1>3, <1>7
<1> QED BY <1>2, <1>4, <1>8

\* What the pass asks of an event and a target, in the words of DirectoryInv.
LEMMA PassReads ==
    ASSUME DirectoryInv, NEW ev \in DirEvents(DOMAIN DirKind)
    PROVE  /\ ev \in 1..Len(events) /\ IsDir(ev) /\ EffectiveDir(events[ev].scope) = DirOf(ev)
           /\ Len(events) \in Nat /\ GivenBy(ev) # {} /\ DirOf(ev) # 0
           /\ \A t \in Real : /\ NearestDir(DefScope(t)) = world.home[t]
                              /\ t \in Candidates <=> Compiles(t)
<1>1. /\ TypeInv /\ EventsInv /\ TargetsInv /\ Parented(scopes)
      /\ Len(scopes) \in Nat /\ Len(events) \in Nat /\ DOMAIN events = 1..Len(events)
  BY LenProperties DEF DirectoryInv, TypeInv, TreeInv
<1>2. ev \in 1..Len(events) /\ IsDir(ev) /\ EffectiveDir(events[ev].scope) # 0
  BY <1>1 DEF DirEvents, IsDir
<1>3. events[ev].scope \in 0..Len(scopes)
  BY <1>1, <1>2 DEF EventsInv
<1>4. EffectiveDir(events[ev].scope) = DirOf(ev)
  BY <1>1, <1>2, <1>3, EffectiveDirIs DEF DirOf
<1>5. GivenBy(ev) # {}
  <2>1. events[ev].c \in Calls
    <3>1. events[ev] \in [c : Calls, scope : Nat]
      BY <1>1, <1>2, LenProperties DEF TypeInv
    <3> QED BY <3>1
  <2>2. DirWords(events[ev].c) # {}
    BY <1>2, <2>1, DirAssumption DEF Calls, CallOk, IsDir
  <2> QED BY <2>2 DEF GivenBy, DirItems
<1>6. ASSUME NEW t \in Real
      PROVE  /\ NearestDir(DefScope(t)) = world.home[t]
             /\ t \in Candidates <=> Compiles(t)
  <2>1. TargetOk(t) /\ t \in DOMAIN targets /\ targets[t].alias = None
    BY <1>1 DEF TargetsInv, Real
  <2>2. PICK h : h = world.home[t]
    OBVIOUS
  <2>3. h = Innermost(DefScope(t), Acting) /\ h # 0 /\ scopes[h].kind \in DirKinds
    BY <1>1, <2>1, <2>2 DEF TargetOk
  <2>4. NearestDir(DefScope(t)) = h
    BY <2>3 DEF NearestDir, DirOr0, Acting
  <2>5. ~InTryCompile(targets[t].ev)
    BY <2>1 DEF TargetOk, InTryCompile, DefScope
  <2>6. t \in Candidates <=> Compiles(t)
    BY <2>1, <2>5 DEF TargetOk, Candidates, Compiles
  <2> QED BY <2>2, <2>4, <2>6
<1> QED BY <1>1, <1>2, <1>4, <1>5, <1>6

\* Of the targets, those the pass lists are those that have something of a
\* command of that site and directory.
LEMMA AffectedIs ==
    ASSUME DirectoryInv, NEW ev \in FirstEvents(DirEvents(DOMAIN DirKind))
    PROVE  {t \in Candidates : Reaches(ev, t, ReachesBack(events[ev].c.cmd))}
             = {t \in Real : \E i \in world.own[t] :
                  i.ev \in DirEvents({events[ev].c.cmd}) /\ SiteInDir(i.ev) = SiteInDir(ev)}
<1>1. TargetsInv /\ ev \in DirEvents(DOMAIN DirKind)
  BY DEF DirectoryInv, FirstEvents
<1>2. PICK cmd : cmd = events[ev].c.cmd
  OBVIOUS
<1>3. /\ ev \in 1..Len(events) /\ IsDir(ev) /\ EffectiveDir(events[ev].scope) = DirOf(ev)
      /\ Len(events) \in Nat /\ GivenBy(ev) # {}
  BY <1>1, PassReads
<1>4. cmd \in DOMAIN DirKind /\ ev \in DirEvents({cmd})
  BY <1>1, <1>2 DEF DirEvents
<1>5. ReachesBack(cmd) <=> cmd \in Retroactive
  BY DEF ReachesBack, Retroactive
<1>6. Candidates \subseteq Real
  BY DEF Candidates, Real
<1>7. ASSUME NEW t \in Real PROVE Reaches(ev, t, ReachesBack(cmd)) /\ Compiles(t) <=> Given(ev, t)
  <2>1. NearestDir(DefScope(t)) = world.home[t] /\ targets[t].ev \in 1..Len(events)
    BY <1>1, PassReads DEF TargetsInv, Real
  <2>2. targets[t].ev > ev <=> ev < targets[t].ev
    BY <1>3, <2>1
  <2> QED BY <1>2, <1>3, <1>5, <2>1, <2>2 DEF Reaches, Given
<1>8. ASSUME NEW t \in Candidates, Reaches(ev, t, ReachesBack(cmd))
      PROVE  \E i \in world.own[t] : i.ev \in DirEvents({cmd}) /\ SiteInDir(i.ev) = SiteInDir(ev)
  <2>1. t \in Real /\ TargetOk(t) /\ Compiles(t)
    BY <1>1, <1>6, PassReads DEF TargetsInv
  <2>2. From(world.own[t], ev) = GivenBy(ev)
    BY <1>3, <1>7, <1>8, <2>1 DEF TargetOk
  <2>3. PICK i \in world.own[t] : i.ev = ev
    BY <1>3, <2>2 DEF From
  <2> QED BY <1>4, <2>3
<1>9. ASSUME NEW t \in Real, NEW i \in world.own[t],
             i.ev \in DirEvents({cmd}), SiteInDir(i.ev) = SiteInDir(ev)
      PROVE  t \in Candidates /\ Reaches(ev, t, ReachesBack(cmd))
  <2>1. PICK e : e = i.ev
    OBVIOUS
  <2>2. e \in DirEvents(DOMAIN DirKind) /\ events[e].c.cmd = cmd
    BY <1>4, <1>9, <2>1 DEF DirEvents
  <2>3. /\ e \in 1..Len(events) /\ IsDir(e) /\ EffectiveDir(events[e].scope) = DirOf(e)
    BY <2>2, PassReads
  <2>4. ev <= e
    BY <1>9, <2>1, <2>2 DEF FirstEvents
  <2>5. DirOf(e) = DirOf(ev)
    BY <1>3, <1>9, <2>1, <2>3 DEF SiteInDir
  <2>6. TargetOk(t) /\ targets[t].ev \in 1..Len(events)
    BY <1>1 DEF TargetsInv, Real
  <2>7. Given(e, t)
    <3>1. i \in From(world.own[t], e)
      BY <2>1 DEF From
    <3> QED BY <2>3, <2>6, <3>1 DEF TargetOk
  <2>8. Given(ev, t)
    <3>1. e < targets[t].ev => ev < targets[t].ev
      BY <1>3, <2>3, <2>4, <2>6
    <3> QED BY <1>2, <2>2, <2>5, <2>7, <3>1 DEF Given
  <2>9. Compiles(t)
    BY <2>8 DEF Given
  <2> QED BY <1>1, <1>7, <2>8, <2>9, PassReads
<1> QED BY <1>2, <1>6, <1>8, <1>9

\* directory-commands lists exactly the targets that CMake gives something of a
\* command, whatever the project does and in whatever order.
THEOREM AffectedTargetsAreExact == Spec => []AffectedExact
<1>1. DirectoryInv => AffectedExact
  <2> SUFFICES ASSUME DirectoryInv, NEW f \in DirectoryCommands
               PROVE  f.affected =
                        {t \in Real : \E i \in world.own[t] :
                            i.ev \in DirEvents({events[f.first].c.cmd}) /\ SiteInDir(i.ev) = SiteInDir(f.first)}
    BY DEF AffectedExact
  <2>1. PICK ev \in FirstEvents(DirEvents(DOMAIN DirKind)) :
           f = [first |-> ev, affected |-> {t \in Candidates : Reaches(ev, t, ReachesBack(events[ev].c.cmd))}]
    BY DEF DirectoryCommands
  <2>2. f.first = ev /\ f.affected = {t \in Candidates : Reaches(ev, t, ReachesBack(events[ev].c.cmd))}
    BY <2>1
  <2> QED BY <2>2, AffectedIs
<1> QED BY <1>1, DirectoriesKept, PTL

-----------------------------------------------------------------------------
(* What modernize plans.                                                   *)

Pairs(items) == {<<i.kind, i.value>> : i \in items}

\* The File API shows of a target's values their kinds and spellings.
LEMMA ResolvedIs ==
    ASSUME NEW t, InFileApi(t)
    PROVE  Resolved(t) = Pairs(Values(t) \cup LinkFragments(t))
<1>1. PICK items : items = Values(t) \cup LinkFragments(t)
  OBVIOUS
<1>2. \A r \in ApiRows(t) : \E i \in items : r.kind = i.kind /\ r.value = i.value
  BY <1>1 DEF ApiRows, Reply
<1>3. ASSUME NEW i \in items PROVE \E r \in ApiRows(t) : r.kind = i.kind /\ r.value = i.value
  <2>1. PICK told : told = [kind |-> i.kind, value |-> i.value,
                            frames |-> IF i.kind = "option" THEN <<>> ELSE Backtrace(i.ev)]
    OBVIOUS
  <2>2. told \in Reply(t) /\ told.kind = i.kind /\ told.value = i.value
    BY <1>1, <2>1 DEF Reply
  <2>3. PICK r : r = [kind |-> told.kind, value |-> told.value,
                      ev |-> LookupEvent(ResolveBacktrace(told.frames))]
    OBVIOUS
  <2>4. r \in ApiRows(t) /\ r.kind = told.kind /\ r.value = told.value
    BY <2>2, <2>3 DEF ApiRows
  <2> QED BY <2>2, <2>4
<1> QED BY <1>1, <1>2, <1>3 DEF Resolved, Pairs

\* The directory of a plan is the one its command acts in.
LEMMA PlainDirIs ==
    ASSUME Len(scopes) \in Nat, Parented(scopes), NEW s \in 0..Len(scopes), PlainDirScope(s) # 0
    PROVE  /\ PlainDirScope(s) = Innermost(s, Acting) /\ EffectiveDir(s) = Innermost(s, Acting)
           /\ scopes[PlainDirScope(s)].kind \in DirKinds
<1> DEFINE around == {x \in Chain(s) : scopes[x].kind \notin Transparent}
           kinds == DirKinds \cup {"function", "try_compile"}
<1>1. PICK m : m = PlainDirScope(s)
  OBVIOUS
<1>2. around # {} /\ m = Max(around) /\ scopes[m].kind \in DirKinds
  BY <1>1 DEF PlainDirScope, DirOr0
<1>3. Chain(s) \subseteq 1..s /\ s \in Nat
  BY UpBelow, ChainIs
<1>4. m \in around /\ \A x \in around : x <= m
  <2>1. around \in SUBSET (1..s)
    BY <1>3
  <2> HIDE DEF around
  <2> QED BY <1>2, <1>3, <2>1, MaxIs
<1>5. m \in Chain(s) /\ m \in 1..s
  BY <1>3, <1>4
<1>6. ASSUME NEW ks, scopes[m].kind \in ks, ks \cap Transparent = {}
      PROVE  Innermost(s, ks) = m
  <2>1. PICK a : a = Innermost(s, ks)
    OBVIOUS
  <2>2. \/ a = 0 /\ \A x \in Chain(s) : scopes[x].kind \notin ks
        \/ /\ a \in Chain(s) /\ a \in 1..s /\ scopes[a].kind \in ks
           /\ \A x \in Chain(s) : scopes[x].kind \in ks => x <= a
    BY <2>1, InnermostIs
  <2>3. a \in Chain(s) /\ a \in 1..s /\ scopes[a].kind \in ks /\ m <= a
    BY <1>5, <1>6, <2>2
  <2>4. a \in around
    BY <1>6, <2>3
  <2> QED BY <1>4, <1>5, <2>1, <2>3, <2>4
<1>7. Innermost(s, Acting) = m
  BY <1>2, <1>6 DEF Acting, DirKinds, Transparent
<1>8. Innermost(s, kinds) = m
  BY <1>2, <1>6 DEF DirKinds, Transparent
<1>9. EffectiveDir(s) = m
  BY <1>2, <1>5, <1>8 DEF EffectiveDir, DirOr0
<1> QED BY <1>1, <1>2, <1>7, <1>9

\* What a command gives that gives one kind.
LEMMA ItemPairs ==
    ASSUME NEW c, NEW ev, NEW dir, NEW kind, kind = DirKind[c.cmd],
           c.cmd = "add_definitions" => DirWords(c) \subseteq DOMAIN DashD
    PROVE  Pairs(DirItems(c, ev, dir))
             = {<<kind, Meaning(IF kind = "define" THEN Strip(w) ELSE w, kind, dir)>> : w \in DirWords(c)}
<1> DEFINE Value(w) == Meaning(IF kind = "define" THEN Strip(w) ELSE w, kind, dir)
           Item(w) == [kind |-> kind, value |-> Value(w), sys |-> "SYSTEM" \in ToSet(c.args), ev |-> ev]
<1>1. DirItems(c, ev, dir) = {Item(w) : w \in DirWords(c)}
  BY DEF DirItems
<1>2. \A w : Item(w).kind = kind /\ Item(w).value = Value(w)
  OBVIOUS
<1> HIDE DEF Item, Value
<1>3. Pairs({Item(w) : w \in DirWords(c)}) = {<<kind, Value(w)>> : w \in DirWords(c)}
  BY <1>2 DEF Pairs
<1> QED BY <1>1, <1>3 DEF Value

\* The plan's values are those its command gives.
LEMMA WantedIs ==
    ASSUME NEW c, c.cmd \in Legacy, NEW ev, NEW dir, dir # 0, scopes[dir].kind \in DirKinds,
           None \notin ExtractValues(c)
    PROVE  {<<DirKind[c.cmd], Absolutize(v, c.cmd, dir)>> : v \in ExtractValues(c)}
             = Pairs(DirItems(c, ev, dir))
<1>1. SourceDir(dir) = dir
  BY DEF SourceDir, DirOr0
<1>2. CASE c.cmd = "include_directories"
  <2>1. ExtractValues(c) = DirWords(c) /\ DirKind[c.cmd] = "include"
    BY <1>2 DEF ExtractValues, DirWords, DirKind
  <2>2. \A w : Absolutize(w, c.cmd, dir) = Meaning(w, "include", dir)
    BY <1>1, <1>2 DEF Absolutize, Meaning
  <2>3. Pairs(DirItems(c, ev, dir)) = {<<"include", Meaning(w, "include", dir)>> : w \in DirWords(c)}
    BY <1>2, <2>1, ItemPairs
  <2> QED BY <2>1, <2>2, <2>3
<1>3. CASE c.cmd = "add_definitions"
  <2>1. /\ ToSet(c.args) \subseteq DOMAIN DashD /\ DirWords(c) = ToSet(c.args)
        /\ ExtractValues(c) = {DashD[w] : w \in ToSet(c.args)} /\ DirKind[c.cmd] = "define"
    BY <1>3 DEF ExtractValues, DirWords, DirKind
  <2>2. \A v : Absolutize(v, c.cmd, dir) = <<0, v>>
    BY <1>3 DEF Absolutize
  <2>3. \A w \in DirWords(c) : Meaning(Strip(w), "define", dir) = <<0, DashD[w]>>
    BY <2>1 DEF Meaning, Strip
  <2>4. Pairs(DirItems(c, ev, dir)) = {<<"define", Meaning(Strip(w), "define", dir)>> : w \in DirWords(c)}
    BY <1>3, <2>1, ItemPairs
  <2>5. {<<"define", Absolutize(v, c.cmd, dir)>> : v \in ExtractValues(c)}
          = {<<"define", <<0, DashD[w]>>>> : w \in ToSet(c.args)}
    <3>1. PICK words : words = ToSet(c.args)
      OBVIOUS
    <3>2. PICK values : values = ExtractValues(c)
      OBVIOUS
    <3>3. values = {DashD[w] : w \in words}
      BY <2>1, <3>1, <3>2
    <3>4. {<<"define", Absolutize(v, c.cmd, dir)>> : v \in values} = {<<"define", <<0, v>>>> : v \in values}
      BY <2>2
    <3>5. {<<"define", <<0, v>>>> : v \in values} = {<<"define", <<0, DashD[w]>>>> : w \in words}
      BY <3>3
    <3> QED BY <3>1, <3>2, <3>4, <3>5
  <2>6. {<<"define", Meaning(Strip(w), "define", dir)>> : w \in DirWords(c)}
          = {<<"define", <<0, DashD[w]>>>> : w \in ToSet(c.args)}
    BY <2>1, <2>3
  <2> QED BY <2>1, <2>4, <2>5, <2>6
<1>4. CASE c.cmd = "add_compile_options"
  <2>1. ExtractValues(c) = DirWords(c) /\ DirKind[c.cmd] = "option"
    BY <1>4 DEF ExtractValues, DirWords, DirKind
  <2>2. \A w : Absolutize(w, c.cmd, dir) = <<0, w>> /\ Meaning(w, "option", dir) = <<0, w>>
    BY <1>4 DEF Absolutize, Meaning
  <2>3. Pairs(DirItems(c, ev, dir)) = {<<"option", Meaning(w, "option", dir)>> : w \in DirWords(c)}
    BY <1>4, <2>1, ItemPairs
  <2> QED BY <2>1, <2>2, <2>3
<1>5. CASE c.cmd = "link_libraries"
  <2>1. ExtractValues(c) = DirWords(c) /\ DirKind[c.cmd] = "link"
    BY <1>5 DEF ExtractValues, DirWords, DirKind
  <2>2. \A w : Absolutize(w, c.cmd, dir) = <<0, w>> /\ Meaning(w, "link", dir) = <<0, w>>
    BY <1>5 DEF Absolutize, Meaning
  <2>3. Pairs(DirItems(c, ev, dir)) = {<<"link", Meaning(w, "link", dir)>> : w \in DirWords(c)}
    BY <1>5, <2>1, ItemPairs
  <2> QED BY <2>1, <2>2, <2>3
<1> QED BY <1>2, <1>3, <1>4, <1>5 DEF Legacy

\* A target keeps its values under the plan of a plain command.
LEMMA PlainPlanKeeps ==
    ASSUME DirectoryInv, NEW plan \in Plans, Plain(plan), NEW t \in Real
    PROVE  ResolvedAfter(plan, t) = Resolved(t)
<1>1. /\ TypeInv /\ EventsInv /\ TargetsInv /\ Parented(scopes)
      /\ Len(scopes) \in Nat /\ Len(events) \in Nat /\ DOMAIN events = 1..Len(events)
  BY LenProperties DEF DirectoryInv, TypeInv, TreeInv
<1>2. PICK e \in DOMAIN events :
         /\ events[e].c.cmd \in Legacy
         /\ plan = PlanNode(events[e].c.node, events[e].c.cmd) /\ plan # None
  BY DEF Plans
<1> DEFINE cmd == events[e].c.cmd
           evs == Evaluations(events[e].c.node, cmd)
           first == Min(evs)
           dir == PlainDirScope(events[first].scope)
           values == ExtractValues(events[first].c)
           wanted == {<<DirKind[cmd], Absolutize(v, cmd, dir)>> : v \in values}
           given == AffectedTargets(first, dir, wanted)
<1>3. /\ plan = [deletes |-> evs, gives |-> wanted, to |-> given]
      /\ dir # 0 /\ values # {} /\ None \notin values
  BY <1>2 DEF PlanNode
<1>4. plan.deletes = evs /\ plan.gives = wanted /\ plan.to = given
  BY <1>3
<1>5. PICK ev : evs = {ev}
  <2>1. evs \subseteq 1..Len(events)
    BY <1>1 DEF Evaluations
  <2>2. IsFiniteSet(evs)
    <3> HIDE DEF evs
    <3>1. IsFiniteSet(1..Len(events))
      BY <1>1, FS_Interval
    <3> QED BY <2>1, <3>1, FS_Subset
  <2>3. Cardinality(evs) = 1
    BY <1>4 DEF Plain
  <2> HIDE DEF evs
  <2> QED BY <2>2, <2>3, FS_Singleton
<1>6. ev \in 1..Len(events) /\ events[ev].c.cmd = cmd
  BY <1>1, <1>5 DEF Evaluations
<1>7. first = ev
  <2>1. ev \in Nat
    BY <1>1, <1>6
  <2>2. Min({ev}) = ev
    BY <2>1 DEF Min
  <2> QED BY <1>5, <2>2
<1>8. PICK c, d, pairs : c = events[ev].c /\ d = dir /\ pairs = wanted
  OBVIOUS
<1>9. /\ plan.deletes = {ev} /\ plan.gives = pairs /\ plan.to = AffectedTargets(ev, d, pairs)
      /\ c.cmd \in Legacy /\ d # 0 /\ None \notin ExtractValues(c)
      /\ pairs = {<<DirKind[c.cmd], Absolutize(v, c.cmd, d)>> : v \in ExtractValues(c)}
      /\ d = PlainDirScope(events[ev].scope)
  BY <1>2, <1>3, <1>4, <1>5, <1>6, <1>7, <1>8
<1> HIDE DEF cmd, evs, first, dir, values, wanted, given
<1>10. /\ d = DirOf(ev) /\ EffectiveDir(events[ev].scope) = d /\ scopes[d].kind \in DirKinds
       /\ IsDir(ev)
  <2>1. events[ev].scope \in 0..Len(scopes)
    BY <1>1, <1>6 DEF EventsInv
  <2>2. c.cmd \in DOMAIN DirKind
    BY <1>9 DEF Legacy, DirKind
  <2> QED BY <1>1, <1>8, <1>9, <2>1, <2>2, PlainDirIs DEF DirOf, IsDir
<1>11. pairs = Pairs(GivenBy(ev))
  BY <1>8, <1>9, <1>10, WantedIs DEF GivenBy
<1>12. \A g \in pairs : g = <<g[1], g[2]>>
  BY <1>11 DEF Pairs
<1>13. TargetOk(t) /\ targets[t].ev \in 1..Len(events) /\ ~IsDir(targets[t].ev)
  BY <1>1 DEF TargetsInv, Real
<1>14. From(world.own[t], ev) = IF Given(ev, t) THEN GivenBy(ev) ELSE {}
  BY <1>6, <1>10, <1>13 DEF TargetOk
<1>i. PICK ifaces : ifaces = UNION {world.iface[u] : u \in Closure(t)}
  OBVIOUS
<1>15. PICK own, rest : own = world.own[t] /\ rest = ifaces \cup LinkFragments(t)
  OBVIOUS
<1>16. CASE ~InFileApi(t)
  BY <1>16 DEF ResolvedAfter, Resolved, ApiRows
<1>17. CASE InFileApi(t)
  <2>1. Resolved(t) = Pairs(own \cup rest)
    <3>1. Values(t) \cup LinkFragments(t) = own \cup rest
      <4>1. Values(t) = own \cup ifaces
        BY <1>i, <1>15 DEF Values
      <4> QED BY <1>15, <4>1
    <3> QED BY <1>17, <3>1, ResolvedIs
  <2>2. ResolvedAfter(plan, t) = Pairs(OwnAfter(plan, t) \cup rest)
    <3>1. ValuesAfter(plan, t) \cup LinkFragments(t) = OwnAfter(plan, t) \cup rest
      <4>1. ValuesAfter(plan, t) = OwnAfter(plan, t) \cup ifaces
        BY <1>i DEF ValuesAfter
      <4> QED BY <1>15, <4>1
    <3> QED BY <1>17, <3>1 DEF ResolvedAfter, Pairs
  <2>3. CASE t \in plan.to
    <3>0. PICK new : new = {[kind |-> g[1], value |-> g[2], sys |-> FALSE, ev |-> 0] : g \in pairs}
      OBVIOUS
    <3>l. PICK left : left = {i \in own : i.ev # ev}
      OBVIOUS
    <3>1. OwnAfter(plan, t) = left \cup new
      BY <1>9, <1>15, <2>3, <3>0, <3>l DEF OwnAfter
    <3>2. pairs \subseteq Pairs(own \cup rest)
      <4>1. t \in AffectedTargets(ev, d, pairs)
        BY <1>9, <2>3
      <4>2. pairs \subseteq Resolved(t)
        BY <4>1 DEF AffectedTargets
      <4> QED BY <2>1, <4>2
    <3>3. From(own, ev) = {} \/ Pairs(From(own, ev)) = pairs
      BY <1>11, <1>14, <1>15
    <3>4. Pairs(new) = pairs
      <4> DEFINE New(g) == [kind |-> g[1], value |-> g[2], sys |-> FALSE, ev |-> 0]
      <4>1. new = {New(g) : g \in pairs}
        BY <3>0
      <4>2. \A g : New(g).kind = g[1] /\ New(g).value = g[2]
        OBVIOUS
      <4> HIDE DEF New
      <4>3. Pairs(new) = {<<g[1], g[2]>> : g \in pairs}
        BY <4>1, <4>2 DEF Pairs
      <4>4. \A p : p \in {<<g[1], g[2]>> : g \in pairs} <=> p \in pairs
        BY <1>12
      <4> QED BY <4>3, <4>4
    <3>5. own = left \cup From(own, ev)
      BY <3>l DEF From
    <3>6. PICK taken : taken = From(own, ev)
      OBVIOUS
    <3>7. taken = {} \/ Pairs(taken) = Pairs(new)
      BY <3>3, <3>4, <3>6
    <3>8. PICK after, before : after = (left \cup new) \cup rest /\ before = own \cup rest
      OBVIOUS
    <3>9. before = (left \cup taken) \cup rest /\ Pairs(new) \subseteq Pairs(before)
      BY <3>2, <3>4, <3>5, <3>6, <3>8
    <3>10. Pairs(after) = Pairs(before)
      <4>1. Pairs(after) = (Pairs(left) \cup Pairs(new)) \cup Pairs(rest)
        BY <3>8 DEF Pairs
      <4>2. Pairs(before) = (Pairs(left) \cup Pairs(taken)) \cup Pairs(rest)
        BY <3>9 DEF Pairs
      <4>3. Pairs(taken) \subseteq Pairs(new)
        BY <3>7 DEF Pairs
      <4> QED BY <3>9, <4>1, <4>2, <4>3
    <3> QED BY <2>1, <2>2, <3>1, <3>8, <3>10
  <2>4. CASE t \notin plan.to
    <3>1. ~Given(ev, t)
      <4> SUFFICES ASSUME Given(ev, t) PROVE FALSE
        OBVIOUS
      <4>1. From(own, ev) = GivenBy(ev)
        BY <1>14, <1>15
      <4>2. pairs \subseteq Resolved(t)
        BY <1>11, <2>1, <4>1 DEF Pairs, From
      <4>3. ~targets[t].imported
        BY DEF Given, Compiles
      <4>4. ~(targets[t].ev > ev /\ d \in Chain(DefScope(t)))
        BY <1>9, <1>17, <2>4, <4>2, <4>3 DEF AffectedTargets, ScopeWithin
      <4>5. ChainContains(DefScope(t), d) => d \in Chain(DefScope(t))
        BY DEF ChainContains
      <4>6. events[ev].c.cmd \in Retroactive /\ world.home[t] = d
        BY <1>6, <1>10, <1>13, <4>4, <4>5 DEF Given
      <4>7. d \in Chain(DefScope(t))
        <5>1. DefScope(t) \in 0..Len(scopes)
          BY <1>1, <1>13 DEF EventsInv, DefScope
        <5>2. PICK s : s = DefScope(t)
          OBVIOUS
        <5>3. Innermost(s, Acting) = d /\ s \in 0..Len(scopes)
          BY <1>13, <4>6, <5>1, <5>2 DEF TargetOk
        <5>4. d \in Chain(s)
          BY <1>1, <1>9, <5>3, InnermostIs
        <5> QED BY <5>2, <5>4
      <4>8. targets[t].ev < ev
        BY <1>6, <1>10, <1>13, <4>4, <4>7
      <4>9. t \in Candidates
        <5>1. ~InTryCompile(targets[t].ev)
          BY <1>13 DEF TargetOk, InTryCompile, DefScope
        <5>2. Compiles(t)
          BY DEF Given
        <5> QED BY <1>13, <5>1, <5>2 DEF Candidates, Compiles, TargetOk, Real
      <4>10. ev \in plan.deletes
        BY <1>9
      <4>11. world.home[t] # EffectiveDir(events[ev].scope)
        BY <4>6, <4>8, <4>9, <4>10 DEF Plain
      <4> QED BY <1>10, <4>6, <4>11
    <3>2. OwnAfter(plan, t) = own
      <4>1. \A i \in own : i.ev # ev
        BY <1>14, <1>15, <3>1 DEF From
      <4> QED BY <1>9, <1>15, <2>4, <4>1 DEF OwnAfter
    <3> QED BY <2>1, <2>2, <3>2
  <2> QED BY <2>3, <2>4
<1> QED BY <1>16, <1>17

\* The plan of a plain command survives its verification, whatever the project
\* does and in whatever order.
THEOREM PlainPlansSurvive == Spec => []PlainPlansVerify
<1>1. DirectoryInv => PlainPlansVerify
  <2> SUFFICES ASSUME DirectoryInv, NEW plan \in Plans, Plain(plan)
               PROVE  Verified(plan)
    BY DEF PlainPlansVerify
  <2> DEFINE old == [t \in Real |-> Resolved(t)]
             new == [t \in Real |-> ResolvedAfter(plan, t)]
             all == UNION {old[t] \cup new[t] : t \in Real}
  <2>1. new = old
    BY PlainPlanKeeps
  <2>2. Verification(all)!NoProblems(BuildGraphOf(old), BuildGraphOf(new))
    <3> HIDE DEF old, new, all
    <3> QED BY <2>1 DEF Verification!NoProblems, Verification!Problems, Verification!Missing
  <2> QED BY <2>2 DEF Verified
<1> QED BY <1>1, DirectoriesKept, PTL

-----------------------------------------------------------------------------
(* What is invariant of the rows.                                          *)

\* An alias is of a target that is there, and each target has its links and
\* interface.
NamesInv ==
    /\ IsFiniteSet(DOMAIN targets) /\ None \notin DOMAIN targets
    /\ \A t \in DOMAIN targets : targets[t].alias # None => targets[t].alias \in Real
    /\ DOMAIN world.links = Real /\ DOMAIN world.ilinks = Real /\ DOMAIN world.iface = Real

Words == UNION {ToSet(c.args) : c \in Calls}
Named == Words \cup {c.tgt : c \in Calls}
Setters == {"set_property", "set_target_properties"}

LinkRow == [src : Named, dst : Words, vis : Vis, ev : Nat]

LinkRowOk(e) ==
    /\ e.src \in Real /\ e.ev \in 1..Len(events)
    /\ e.vis # "INTERFACE" => OwnLink(e)
    /\ e.vis # "PRIVATE" => ExportedLink(e) \/ LinkReset(e)

LinkHasRow(rows, t, l, vis) ==
    \E e \in rows : /\ e.src = t /\ [dst |-> e.dst, ev |-> e.ev] = l
                    /\ e.vis \in {vis, "PUBLIC"}

\* The rows collected so far are the links made so far, but for a reset.
LinksInv ==
    /\ edges \in Seq(LinkRow)
    /\ \A e \in ToSet(edges) : LinkRowOk(e)
    /\ \A t \in Real : /\ \A l \in world.links[t] : LinkHasRow(ToSet(edges), t, l, "PRIVATE")
                       /\ \A l \in world.ilinks[t] : LinkHasRow(ToSet(edges), t, l, "INTERFACE")

Kinds == {ReqKind[cmd] : cmd \in DOMAIN ReqKind} \cup {PropKind[p] : p \in DOMAIN PropKind}

ReqRow == [tgt : Named, kind : Kinds, vis : Vis, ev : Nat,
           value : Words \cup {DashD[w] : w \in DOMAIN DashD}]

\* The row of an item.
IsRowOf(q, i) == q.kind = i.kind /\ q.value = i.value[2] /\ q.ev = i.ev

ReqRowOk(q) ==
    /\ q.tgt \in Real /\ q.ev \in 1..Len(events)
    /\ \/ events[q.ev].c.cmd \in DOMAIN ReqKind /\ q.tgt = events[q.ev].c.args[1]
       \/ events[q.ev].c.cmd \in Setters /\ q.tgt = events[q.ev].c.tgt
    /\ q.vis # "INTERFACE" => \E i \in world.own[q.tgt] : IsRowOf(q, i)
    /\ q.vis # "PRIVATE" => (\E i \in world.iface[q.tgt] : IsRowOf(q, i)) \/ ReqReset(q)

ReqHasRow(rows, t, i, vis) ==
    \E q \in rows : q.tgt = t /\ IsRowOf(q, i) /\ q.vis \in {vis, "PUBLIC"}

\* The same of requirements; what else a target has is from directories.
ReqsInv ==
    /\ reqs \in Seq(ReqRow)
    /\ \A q \in ToSet(reqs) : ReqRowOk(q)
    /\ \A t \in Real :
        /\ \A i \in world.own[t] : ~IsDir(i.ev) => ReqHasRow(ToSet(reqs), t, i, "PRIVATE")
        /\ \A i \in world.iface[t] : ReqHasRow(ToSet(reqs), t, i, "INTERFACE") /\ (i.sys <=> HasSystem(i.ev))
    /\ \A d \in DOMAIN world.props : \A i \in world.props[d] : IsDir(i.ev) /\ i.ev \in 1..Len(events)

RowsInv == NamesInv /\ LinksInv /\ ReqsInv

-----------------------------------------------------------------------------
(* What the folds of ingestion collect.                                    *)

\* f folds 1..n, from below, by a step that is given the number too.
Folds(f, n, base, step) ==
    \A s \in SUBSET (1..n) :
        f[s] = IF s = {} THEN base ELSE step[<<Max(s), f[s \ {Max(s)}]>>]

\* A fold over 1..n that stays in V has a solution.
LEMMA FoldSolved ==
    ASSUME NEW n \in Nat, NEW V, NEW base \in V, NEW step \in [(1..n) \X V -> V]
    PROVE  \E f \in [SUBSET (1..n) -> V] : Folds(f, n, base, step)
<1> DEFINE Solves(f, k) == Folds(f, k, base, step)
           Bad == {k \in 0..n : ~(\E f \in [SUBSET (1..k) -> V] : Solves(f, k))}
<1>1. ASSUME Bad # {} PROVE FALSE
  <2>1. PICK k \in Bad : \A m \in Bad : k <= m
    <3>1. Bad \in SUBSET Nat
      OBVIOUS
    <3> HIDE DEF Bad
    <3> QED BY <3>1, <1>1, LeastOf
  <2>2. k # 0
    <3> SUFFICES ASSUME k = 0 PROVE FALSE
      OBVIOUS
    <3> DEFINE f == [s \in SUBSET (1..0) |-> base]
    <3>1. \A s \in SUBSET (1..0) : s = {}
      OBVIOUS
    <3>2. f \in [SUBSET (1..0) -> V] /\ Solves(f, 0)
      BY <3>1 DEF Folds
    <3> QED BY <2>1, <3>2
  <2>3. k \in 1..n /\ k - 1 \in 0..n /\ k - 1 \notin Bad
    <3>1. k \in 0..n
      BY <2>1
    <3>2. k \in 1..n /\ k - 1 \in 0..n /\ ~(k <= k - 1)
      BY <3>1, <2>2
    <3> HIDE DEF Bad
    <3> QED BY <2>1, <3>2
  <2>4. PICK f \in [SUBSET (1..(k - 1)) -> V] : Solves(f, k - 1)
    BY <2>3
  <2> DEFINE g == [s \in SUBSET (1..k) |->
                     IF k \in s THEN step[<<k, f[s \ {k}]>>] ELSE f[s]]
  <2>5. \A s \in SUBSET (1..k) : /\ k \in s => s \ {k} \in SUBSET (1..(k - 1))
                                 /\ k \notin s => s \in SUBSET (1..(k - 1))
    BY <2>3
  <2>6. g \in [SUBSET (1..k) -> V]
    BY <2>3, <2>5
  <2>7. ASSUME NEW s \in SUBSET (1..k)
        PROVE  g[s] = IF s = {} THEN base ELSE step[<<Max(s), g[s \ {Max(s)}]>>]
    <3>1. CASE k \in s
      <4>1. Max(s) = k
        <5>1. k \in Nat /\ s # {}
          BY <2>3, <3>1
        <5>2. Max(s) \in s /\ \A x \in s : x <= Max(s)
          BY <5>1, MaxIs
        <5>3. PICK m \in 1..k : m = Max(s)
          BY <5>2
        <5>4. k <= m /\ m <= k
          BY <5>2, <5>3, <3>1
        <5> QED BY <5>1, <5>3, <5>4
      <4>2. g[s \ {k}] = f[s \ {k}]
        BY <2>5
      <4> QED BY <3>1, <4>1, <4>2
    <3>2. CASE k \notin s
      <4>1. g[s] = f[s] /\ s \in SUBSET (1..(k - 1))
        BY <3>2, <2>5
      <4>2. g[s \ {Max(s)}] = f[s \ {Max(s)}]
        BY <3>2, <2>5
      <4>3. f[s] = IF s = {} THEN base ELSE step[<<Max(s), f[s \ {Max(s)}]>>]
        BY <2>4, <4>1 DEF Folds
      <4> QED BY <4>1, <4>2, <4>3
    <3> QED BY <3>1, <3>2
  <2>8. Solves(g, k)
    <3> HIDE DEF g
    <3> QED BY <2>7 DEF Folds
  <2> HIDE DEF g, Solves
  <2> QED BY <2>1, <2>6, <2>8
<1>2. n \notin Bad /\ n \in 0..n
  <2>1. n \in 0..n
    OBVIOUS
  <2> HIDE DEF Bad
  <2> QED BY <2>1, <1>1
<1>3. \E f \in [SUBSET (1..n) -> V] : Solves(f, n)
  <2> HIDE DEF Solves
  <2> QED BY <1>2
<1> QED BY <1>3

\* The last keyword before a position, and before the next.
LEMMA KeywordNext ==
    ASSUME NEW words, NEW i \in Nat \ {0}, NEW keys
    PROVE  /\ KeywordBefore(words, 1, keys) = None
           /\ KeywordBefore(words, i + 1, keys)
                = IF words[i] \in keys THEN words[i] ELSE KeywordBefore(words, i, keys)
<1> DEFINE before(k) == {j \in 1..(k - 1) : words[j] \in keys}
           last(S) == IF S = {} THEN None ELSE words[CHOOSE j \in S : \A k \in S : k <= j]
<1>1. before(1) = {}
  OBVIOUS
<1>2. CASE words[i] \in keys
  <2>1. i \in before(i + 1) /\ \A j \in before(i + 1) : j <= i
    BY <1>2
  <2>2. \A m \in before(i + 1) : (\A j \in before(i + 1) : j <= m) => m = i
    BY <2>1
  <2>3. (CHOOSE m \in before(i + 1) : \A j \in before(i + 1) : j <= m) = i
    BY <2>1, <2>2
  <2> QED BY <1>1, <1>2, <2>1, <2>3 DEF KeywordBefore
<1>3. CASE words[i] \notin keys
  <2>1. before(i + 1) = before(i)
    <3>1. \A j \in 1..i : j # i => j \in 1..(i - 1)
      OBVIOUS
    <3>2. 1..(i - 1) \subseteq 1..i /\ (i + 1) - 1 = i
      OBVIOUS
    <3> QED BY <1>3, <3>1, <3>2
  <2>2. KeywordBefore(words, i + 1, keys) = last(before(i + 1)) /\ KeywordBefore(words, i, keys) = last(before(i))
    BY DEF KeywordBefore
  <2>4. KeywordBefore(words, i + 1, keys) = KeywordBefore(words, i, keys)
    <3> HIDE DEF before, last
    <3> QED BY <2>1, <2>2
  <2>5. KeywordBefore(words, 1, keys) = None
    BY <1>1 DEF KeywordBefore
  <2> QED BY <1>3, <2>4, <2>5
<1> QED BY <1>2, <1>3

\* The visibility of the words at a position of a call.
VisAt(words, i, visOf, plain) ==
    LET k == KeywordBefore(words, i, DOMAIN visOf) IN IF k = None THEN plain ELSE visOf[k]

\* One step of the fold of WordsWithVis.
WordStep(acc, w, visOf, skipped) ==
    IF w \in DOMAIN visOf THEN [acc EXCEPT !.vis = visOf[w]]
    ELSE IF w \in skipped THEN acc
    ELSE [acc EXCEPT !.items = Append(@, [word |-> w, vis |-> acc.vis])]

Collected(S) == [vis : Vis, items : Seq([word : S, vis : Vis])]

\* What a step from acc to next does with a word.
Stepped(next, acc, w, visOf, skipped, S) ==
    /\ next \in Collected(S)
    /\ next.vis = IF w \in DOMAIN visOf THEN visOf[w] ELSE acc.vis
    /\ ToSet(next.items) = ToSet(acc.items) \cup IF w \in DOMAIN visOf \cup skipped THEN {}
                                                 ELSE {[word |-> w, vis |-> acc.vis]}

LEMMA WordStepIs ==
    ASSUME NEW S, NEW w \in S, NEW visOf, NEW skipped, \A k \in DOMAIN visOf : visOf[k] \in Vis,
           NEW acc \in Collected(S)
    PROVE  Stepped(WordStep(acc, w, visOf, skipped), acc, w, visOf, skipped, S)
<1> DEFINE item == [word |-> w, vis |-> acc.vis]
           I == [word : S, vis : Vis]
<1>1. acc.items \in Seq(I) /\ acc.vis \in Vis /\ item \in I
  BY DEF Collected
<1>2. Append(acc.items, item) \in Seq(I) /\ ToSet(Append(acc.items, item)) = ToSet(acc.items) \cup {item}
  <2> HIDE DEF item, I
  <2>1. /\ Append(acc.items, item) \in Seq(I) /\ Len(acc.items) \in Nat
        /\ Len(Append(acc.items, item)) = Len(acc.items) + 1
        /\ \A i \in 1..Len(acc.items) : Append(acc.items, item)[i] = acc.items[i]
        /\ Append(acc.items, item)[Len(acc.items) + 1] = item
        /\ DOMAIN acc.items = 1..Len(acc.items)
        /\ DOMAIN Append(acc.items, item) = 1..(Len(acc.items) + 1)
    BY <1>1, AppendProperties, LenProperties
  <2>2. ToSet(Append(acc.items, item)) \subseteq ToSet(acc.items) \cup {item}
    BY <2>1 DEF ToSet
  <2>3. ToSet(acc.items) \subseteq ToSet(Append(acc.items, item))
    BY <2>1 DEF ToSet
  <2>4. item \in ToSet(Append(acc.items, item))
    BY <2>1 DEF ToSet
  <2> QED BY <2>1, <2>2, <2>3, <2>4
<1>3. CASE w \in DOMAIN visOf
  BY <1>1, <1>3 DEF WordStep, Collected, Stepped
<1>4. CASE w \notin DOMAIN visOf /\ w \in skipped
  BY <1>1, <1>4 DEF WordStep, Collected, Stepped
<1>5. CASE w \notin DOMAIN visOf /\ w \notin skipped
  <2>1. WordStep(acc, w, visOf, skipped) = [acc EXCEPT !.items = Append(@, item)]
    BY <1>5 DEF WordStep
  <2> HIDE DEF item, I
  <2>2. WordStep(acc, w, visOf, skipped) = [vis |-> acc.vis, items |-> Append(acc.items, item)]
    BY <2>1, <1>1 DEF Collected
  <2> QED BY <2>2, <1>1, <1>2, <1>5 DEF Collected, I, item, Stepped
<1> QED BY <1>3, <1>4, <1>5

\* The items of a call are its words that are no keywords, each with the
\* visibility of the last keyword before it.
Keywords(visOf) == None \notin DOMAIN visOf /\ \A k \in DOMAIN visOf : visOf[k] \in Vis

ItemsOf(words, visOf, skipped, plain) ==
    {[word |-> words[i], vis |-> VisAt(words, i, visOf, plain)] :
        i \in {j \in 1..Len(words) : words[j] \notin DOMAIN visOf \cup skipped}}

LEMMA WordsWithVisAre ==
    ASSUME NEW S, NEW words \in Seq(S), NEW visOf, NEW skipped, NEW plain \in Vis,
           Keywords(visOf)
    PROVE  /\ WordsWithVis(words, visOf, skipped, plain) \in Seq([word : S, vis : Vis])
           /\ ToSet(WordsWithVis(words, visOf, skipped, plain)) = ItemsOf(words, visOf, skipped, plain)
<1> DEFINE n == Len(words)
           base == [vis |-> plain, items |-> <<>>]
           V == Collected(S)
           Eq(g) == g = [s \in SUBSET DOMAIN words |->
                           IF s = {} THEN base
                           ELSE WordStep(g[s \ {Max(s)}], words[Max(s)], visOf, skipped)]
           f == CHOOSE g : Eq(g)
           step == [p \in (1..n) \X V |-> WordStep(p[2], words[p[1]], visOf, skipped)]
           Upto(k) == {[word |-> words[i], vis |-> VisAt(words, i, visOf, plain)] :
                         i \in {j \in 1..k : words[j] \notin DOMAIN visOf \cup skipped}}
<1>1. n \in Nat /\ DOMAIN words = 1..n /\ \A i \in 1..n : words[i] \in S
  BY LenProperties
<1>2. base \in V
  BY DEF Collected
<1>3. step \in [(1..n) \X V -> V]
  <2>1. ASSUME NEW p \in (1..n) \X V PROVE WordStep(p[2], words[p[1]], visOf, skipped) \in V
    <3>1. p[1] \in 1..n /\ p[2] \in V /\ words[p[1]] \in S
      BY <1>1
    <3>2. Stepped(WordStep(p[2], words[p[1]], visOf, skipped), p[2], words[p[1]], visOf, skipped, S)
      BY <3>1, WordStepIs DEF Keywords
    <3> QED BY <3>2 DEF Stepped
  <2> HIDE DEF V
  <2> QED BY <2>1
<1>4. \E g : Eq(g)
  <2> HIDE DEF base, V, step
  <2>1. PICK g \in [SUBSET (1..n) -> V] : Folds(g, n, base, step)
    BY <1>1, <1>2, <1>3, FoldSolved
  <2>2. ASSUME NEW s \in SUBSET (1..n), s # {}
        PROVE  g[s] = WordStep(g[s \ {Max(s)}], words[Max(s)], visOf, skipped)
    <3>1. Max(s) \in 1..n
      BY <1>1, <2>2, MaxIs
    <3>2. g[s \ {Max(s)}] \in V
      OBVIOUS
    <3>3. <<Max(s), g[s \ {Max(s)}]>> \in (1..n) \X V
      BY <3>1, <3>2
    <3>4. step[<<Max(s), g[s \ {Max(s)}]>>] = WordStep(g[s \ {Max(s)}], words[Max(s)], visOf, skipped)
      BY <3>3 DEF step
    <3> QED BY <2>1, <2>2, <3>4 DEF Folds
  <2>3. g = [s \in SUBSET (1..n) |->
               IF s = {} THEN base ELSE WordStep(g[s \ {Max(s)}], words[Max(s)], visOf, skipped)]
    BY <2>1, <2>2 DEF Folds
  <2>4. Eq(g)
    BY <1>1, <2>3
  <2> QED BY <2>4
<1>5. Eq(f)
  BY <1>4
<1>6. WordsWithVis(words, visOf, skipped, plain) = f[DOMAIN words].items
  BY DEF WordsWithVis, FoldLeft, MapThenFoldSet, WordStep
<1> HIDE DEF f, V, base
<1>7. f[{}] = base
  BY <1>5
<1>8. ASSUME NEW k \in 1..n
      PROVE  f[1..k] = WordStep(f[1..(k - 1)], words[k], visOf, skipped)
  <2>1. 1..k \in SUBSET DOMAIN words /\ 1..k # {} /\ 1..k \in SUBSET (1..n)
    <3>1. k \in 1..k /\ \A j \in 1..k : j \in 1..n
      BY <1>1
    <3> QED BY <1>1, <3>1
  <2>2. Max(1..k) = k
    <3>1. Max(1..k) \in 1..k /\ \A x \in 1..k : x <= Max(1..k)
      BY <1>1, <2>1, MaxIs
    <3>2. PICK m : m = Max(1..k)
      OBVIOUS
    <3>3. m \in 1..k /\ k <= m
      BY <3>1, <3>2
    <3> QED BY <3>2, <3>3
  <2>3. (1..k) \ {k} = 1..(k - 1)
    OBVIOUS
  <2>4. f[1..k] = WordStep(f[(1..k) \ {Max(1..k)}], words[Max(1..k)], visOf, skipped)
    BY <1>5, <2>1
  <2> QED BY <2>2, <2>3, <2>4
<1> DEFINE Good(k) == /\ f[1..k] \in V
                      /\ f[1..k].vis = VisAt(words, k + 1, visOf, plain)
                      /\ ToSet(f[1..k].items) = Upto(k)
           Bad == {k \in 0..n : ~Good(k)}
<1>9. Good(0)
  <2>1. 1..0 = {}
    OBVIOUS
  <2>2. f[1..0] = base
    BY <1>7, <2>1
  <2>3. base.vis = plain /\ base.items = <<>> /\ ToSet(<<>>) = {}
    BY DEF base, ToSet
  <2>4. KeywordBefore(words, 0 + 1, DOMAIN visOf) = None
    <3>1. KeywordBefore(words, 1, DOMAIN visOf) = None
      BY KeywordNext
    <3> QED BY <3>1
  <2>5. Upto(0) = {}
    OBVIOUS
  <2> QED BY <1>2, <2>2, <2>3, <2>4, <2>5 DEF VisAt
<1>10. ASSUME NEW k \in 1..n, Good(k - 1) PROVE Good(k)
  <2> DEFINE item == [word |-> words[k], vis |-> VisAt(words, k, visOf, plain)]
  <2>1. k \in Nat \ {0} /\ (k - 1) + 1 = k /\ words[k] \in S
    BY <1>1
  <2>2. /\ f[1..(k - 1)] \in Collected(S)
        /\ f[1..(k - 1)].vis = VisAt(words, k, visOf, plain)
        /\ ToSet(f[1..(k - 1)].items) = Upto(k - 1)
    BY <1>10, <2>1 DEF V
  <2>3. VisAt(words, k + 1, visOf, plain)
          = IF words[k] \in DOMAIN visOf THEN visOf[words[k]] ELSE VisAt(words, k, visOf, plain)
    BY <2>1, KeywordNext DEF VisAt, Keywords
  <2>4. Upto(k) = Upto(k - 1) \cup IF words[k] \in DOMAIN visOf \cup skipped THEN {} ELSE {item}
    <3>1. 1..k = (1..(k - 1)) \cup {k}
      OBVIOUS
    <3> QED BY <3>1
  <2> HIDE DEF Upto
  <2>5. /\ f[1..k] \in V
        /\ f[1..k].vis = IF words[k] \in DOMAIN visOf THEN visOf[words[k]] ELSE f[1..(k - 1)].vis
        /\ ToSet(f[1..k].items)
             = ToSet(f[1..(k - 1)].items) \cup IF words[k] \in DOMAIN visOf \cup skipped THEN {}
                                               ELSE {[word |-> words[k], vis |-> f[1..(k - 1)].vis]}
    <3>1. PICK acc : acc = f[1..(k - 1)]
      OBVIOUS
    <3>2. Stepped(WordStep(acc, words[k], visOf, skipped), acc, words[k], visOf, skipped, S)
      BY <2>1, <2>2, <3>1, WordStepIs DEF Keywords
    <3>3. f[1..k] = WordStep(acc, words[k], visOf, skipped)
      BY <1>8, <3>1
    <3> QED BY <3>1, <3>2, <3>3 DEF V, Stepped
  <2> QED BY <2>2, <2>3, <2>4, <2>5
<1>11. Good(n)
  <2> HIDE DEF Good
  <2> SUFFICES ASSUME Bad # {} PROVE FALSE
    <3>1. n \in 0..n
      BY <1>1
    <3> QED BY <3>1
  <2>1. PICK k \in Bad : \A m \in Bad : k <= m
    <3>1. Bad \in SUBSET Nat
      BY <1>1
    <3> HIDE DEF Bad
    <3> QED BY <3>1, LeastOf
  <2>2. k \in 0..n /\ k # 0
    BY <2>1, <1>9
  <2>3. k \in 1..n /\ k - 1 \in 0..n /\ ~(k <= k - 1)
    BY <2>2, <1>1
  <2>4. Good(k - 1)
    BY <2>1, <2>3
  <2> QED BY <2>1, <2>3, <2>4, <1>10
<1> QED BY <1>1, <1>6, <1>11 DEF V, Collected, ItemsOf

\* What two lists have together.
LEMMA ConcatSet ==
    ASSUME NEW A, NEW s \in Seq(A), NEW t \in Seq(A)
    PROVE  s \o t \in Seq(A) /\ ToSet(s \o t) = ToSet(s) \cup ToSet(t)
<1> DEFINE m == Len(s)
           n == Len(t)
           st == s \o t
<1>1. /\ st \in Seq(A) /\ m \in Nat /\ n \in Nat /\ Len(st) = m + n
      /\ DOMAIN s = 1..m /\ DOMAIN t = 1..n /\ DOMAIN st = 1..(m + n)
      /\ \A i \in 1..(m + n) : st[i] = IF i <= m THEN s[i] ELSE t[i - m]
  BY ConcatProperties, LenProperties
<1> HIDE DEF m, n, st
<1>2. ASSUME NEW i \in 1..(m + n) PROVE st[i] \in ToSet(s) \cup ToSet(t)
  <2>1. CASE i <= m
    <3>1. i \in 1..m /\ st[i] = s[i]
      BY <1>1, <2>1
    <3> QED BY <1>1, <3>1 DEF ToSet
  <2>2. CASE ~(i <= m)
    <3>1. i - m \in 1..n /\ st[i] = t[i - m]
      BY <1>1, <2>2
    <3> QED BY <1>1, <3>1 DEF ToSet
  <2> QED BY <2>1, <2>2
<1>3. ASSUME NEW i \in 1..m PROVE s[i] \in ToSet(st)
  <2>1. i \in 1..(m + n) /\ st[i] = s[i]
    BY <1>1
  <2> QED BY <1>1, <2>1 DEF ToSet
<1>4. ASSUME NEW i \in 1..n PROVE t[i] \in ToSet(st)
  <2>1. i + m \in 1..(m + n) /\ ~(i + m <= m) /\ (i + m) - m = i
    BY <1>1
  <2>2. st[i + m] = t[i]
    BY <1>1, <2>1
  <2> QED BY <1>1, <2>1, <2>2 DEF ToSet
<1>5. ToSet(st) \subseteq ToSet(s) \cup ToSet(t)
  BY <1>1, <1>2 DEF ToSet
<1>6. ToSet(s) \subseteq ToSet(st)
  BY <1>1, <1>3 DEF ToSet
<1>7. ToSet(t) \subseteq ToSet(st)
  BY <1>1, <1>4 DEF ToSet
<1>8. st = s \o t
  BY DEF st
<1> QED BY <1>1, <1>5, <1>6, <1>7, <1>8

\* The words of a call, and those after its first.
LEMMA CallWords ==
    ASSUME NEW c \in Calls
    PROVE  /\ c.args \in Seq(Words) /\ CallOk(c) /\ c.tgt \in Named
           /\ c.args # <<>> => /\ c.args[1] \in Named /\ Tail(c.args) \in Seq(Words)
                               /\ ToSet(Tail(c.args)) \subseteq ToSet(c.args)
                               /\ ToSet(c.args) \subseteq {c.args[1]} \cup ToSet(Tail(c.args))
<1>1. c.args \in Seq(ToSet(c.args)) /\ CallOk(c)
  BY ConfigureAssumption, DirAssumption DEF Calls
<1>2. c.args \in Seq(Words)
  <2>1. ToSet(c.args) \subseteq Words
    BY DEF Words
  <2>2. /\ Len(c.args) \in Nat /\ DOMAIN c.args = 1..Len(c.args)
        /\ \A i \in 1..Len(c.args) : c.args[i] \in ToSet(c.args)
    BY <1>1, LenProperties
  <2>3. c.args = [i \in 1..Len(c.args) |-> c.args[i]]
    BY <1>1, <2>2
  <2>4. c.args \in [1..Len(c.args) -> Words]
    BY <2>1, <2>2, <2>3
  <2> QED BY <2>2, <2>4
<1>3. ASSUME c.args # <<>>
      PROVE  /\ c.args[1] \in Named /\ Tail(c.args) \in Seq(Words)
             /\ ToSet(Tail(c.args)) \subseteq ToSet(c.args)
             /\ ToSet(c.args) \subseteq {c.args[1]} \cup ToSet(Tail(c.args))
  <2>1. PICK args : args = c.args
    OBVIOUS
  <2>2. PICK rest : rest = Tail(args)
    OBVIOUS
  <2>3. PICK n : n = Len(args)
    OBVIOUS
  <2>4. /\ n \in Nat /\ DOMAIN args = 1..n /\ \A i \in 1..n : args[i] \in Words
        /\ rest \in Seq(Words) /\ Len(rest) = n - 1
        /\ \A i \in 1..Len(rest) : rest[i] = args[i + 1]
    BY <1>2, <1>3, <2>1, <2>2, <2>3, LenProperties, HeadTailProperties
  <2>5. n # 0
    BY <1>2, <1>3, <2>1, <2>3, EmptySeq
  <2>6. DOMAIN rest = 1..(n - 1) /\ \A i \in 1..(n - 1) : i + 1 \in 1..n /\ rest[i] = args[i + 1]
    BY <2>4, LenProperties
  <2>7. ToSet(rest) \subseteq ToSet(args)
    BY <2>4, <2>6 DEF ToSet
  <2>8. ASSUME NEW i \in 1..n PROVE args[i] \in {args[1]} \cup ToSet(rest)
    <3>1. CASE i = 1
      BY <3>1
    <3>2. CASE i # 1
      <4>1. i - 1 \in 1..(n - 1) /\ (i - 1) + 1 = i
        BY <2>4, <3>2
      <4> QED BY <2>6, <4>1 DEF ToSet
    <3> QED BY <3>1, <3>2
  <2>9. ToSet(args) \subseteq {args[1]} \cup ToSet(rest)
    BY <2>4, <2>8 DEF ToSet
  <2>10. args[1] \in Named
    BY <2>4, <2>5 DEF Named
  <2> QED BY <2>1, <2>2, <2>4, <2>7, <2>9, <2>10
<1>4. c.tgt \in Named
  BY DEF Named
<1> QED BY <1>1, <1>2, <1>3, <1>4

\* A list made item by item.
Mapped(s, f) == [i \in DOMAIN s |-> f[s[i]]]
Into(f, A, B) == f \in [A -> B]
Images(f, S) == {f[x] : x \in S}

LEMMA MappedSet ==
    ASSUME NEW A, NEW s \in Seq(A), NEW B, NEW f, Into(f, A, B)
    PROVE  /\ Mapped(s, f) \in Seq(B)
           /\ ToSet(Mapped(s, f)) = Images(f, ToSet(s))
           /\ ToSet(s) \subseteq A
<1>1. Len(s) \in Nat /\ DOMAIN s = 1..Len(s) /\ \A i \in 1..Len(s) : s[i] \in A
  BY LenProperties
<1>2. Mapped(s, f) \in [1..Len(s) -> B]
  BY <1>1 DEF Mapped, Into
<1> QED BY <1>1, <1>2 DEF ToSet, Mapped, Images

\* The words that keywords and configurations are.
LEMMA KeywordNames ==
    /\ DOMAIN LinkVis = {"PUBLIC", "LINK_PUBLIC", "PRIVATE", "LINK_PRIVATE",
                         "INTERFACE", "LINK_INTERFACE_LIBRARIES"}
    /\ Keywords(LinkVis) /\ Keywords([v \in Vis |-> v]) /\ None \notin Vis
  BY ConfigureAssumption DEF LinkVis, Vis, Keywords

\* The row of an item of a link call.
LinkRowOf(src, x, n) == [src |-> src, dst |-> x.word, vis |-> x.vis, ev |-> n]

LEMMA LinkRowsAre ==
    ASSUME NEW c \in Calls, c.args # <<>>, NEW n \in Nat
    PROVE  /\ LinkRows(c, n) \in Seq(LinkRow)
           /\ ToSet(LinkRows(c, n))
                = {LinkRowOf(c.args[1], x, n) : x \in ItemsOf(Tail(c.args), LinkVis, ConfigWords, "PUBLIC")}
           /\ ItemsOf(Tail(c.args), LinkVis, ConfigWords, "PUBLIC") \subseteq [word : Words, vis : Vis]
<1>1. PICK words : words = Tail(c.args)
  OBVIOUS
<1>2. PICK items : items = WordsWithVis(words, LinkVis, ConfigWords, "PUBLIC")
  OBVIOUS
<1>3. PICK src : src = c.args[1]
  OBVIOUS
<1>4. PICK A : A = [word : Words, vis : Vis]
  OBVIOUS
<1>5. words \in Seq(Words) /\ src \in Named /\ "PUBLIC" \in Vis
  BY <1>1, <1>3, CallWords DEF Vis
<1>6. items \in Seq(A) /\ ToSet(items) = ItemsOf(words, LinkVis, ConfigWords, "PUBLIC")
  BY <1>2, <1>4, <1>5, KeywordNames, WordsWithVisAre
<1>7. PICK f : f = [x \in A |-> LinkRowOf(src, x, n)]
  OBVIOUS
<1>8. Into(f, A, LinkRow) /\ \A x \in A : f[x] = LinkRowOf(src, x, n)
  BY <1>4, <1>5, <1>7 DEF LinkRow, LinkRowOf, Into
<1>9. LinkRows(c, n) = Mapped(items, f)
  <2>1. DOMAIN items = 1..Len(items) /\ \A i \in 1..Len(items) : items[i] \in A
    BY <1>6, LenProperties
  <2>2. LinkRows(c, n) = [i \in DOMAIN items |-> LinkRowOf(src, items[i], n)]
    BY <1>1, <1>2, <1>3 DEF LinkRows, LinkRowOf
  <2> QED BY <2>1, <2>2, <1>8 DEF Mapped
<1>10. LinkRows(c, n) \in Seq(LinkRow) /\ ToSet(LinkRows(c, n)) = Images(f, ToSet(items)) /\ ToSet(items) \subseteq A
  BY <1>6, <1>8, <1>9, MappedSet
<1>11. Images(f, ToSet(items)) = {LinkRowOf(src, x, n) : x \in ToSet(items)}
  BY <1>8, <1>10 DEF Images
<1> QED BY <1>1, <1>3, <1>4, <1>6, <1>10, <1>11

-----------------------------------------------------------------------------
(* Names are resolved as CMake does.                                       *)

\* A name is followed to its target: an alias is one step away from it.
LEMMA ResolveIs ==
    ASSUME NamesInv, NEW name
    PROVE  Resolve(name) = Meant(name)
<1> DEFINE N == Cardinality(DOMAIN targets)
           hop(x) == IF x \in DOMAIN targets /\ targets[x].alias # None THEN targets[x].alias ELSE x
           Eq(g) == g = [k \in 0..N |-> IF k = 0 THEN name ELSE hop(g[k - 1])]
           after == CHOOSE g : Eq(g)
           sol == [k \in 0..N |-> IF k = 0 THEN name ELSE hop(name)]
<1>1. N \in Nat /\ (DOMAIN targets # {} => N # 0)
  BY FS_CardinalityType, FS_EmptySet DEF NamesInv
<1>2. hop(hop(name)) = hop(name)
  BY DEF NamesInv, Real
<1> HIDE DEF hop, N
<1>3. Eq(sol)
  <2>1. \A k \in 0..N : k # 0 => k - 1 \in 0..N
    BY <1>1
  <2> QED BY <1>2, <2>1
<1>4. Eq(after)
  <2> HIDE DEF sol
  <2> QED BY <1>3
<1>5. Resolve(name) = IF after[N] \in DOMAIN targets /\ targets[after[N]].alias = None THEN after[N] ELSE None
  BY DEF Resolve, hop, N
<1> HIDE DEF after
<1>6. after[0] = name
  BY <1>1, <1>4
<1>7. N # 0 => after[N] = hop(name)
  <2> DEFINE Bad == {k \in 1..N : after[k] # hop(name)}
  <2>1. ASSUME Bad # {} PROVE FALSE
    <3>1. Bad \in SUBSET Nat
      BY <1>1
    <3>2. PICK k \in Bad : \A m \in Bad : k <= m
      <4> HIDE DEF Bad
      <4> QED BY <2>1, <3>1, LeastOf
    <3>3. k \in 1..N /\ after[k] = hop(after[k - 1]) /\ k - 1 \in 0..N /\ ~(k <= k - 1)
      BY <1>1, <1>4, <3>2
    <3>4. CASE k = 1
      BY <1>6, <3>2, <3>3, <3>4
    <3>5. CASE k # 1
      <4>1. k - 1 \in 1..N
        BY <3>3, <3>5
      <4>2. after[k - 1] = hop(name)
        BY <3>2, <3>3, <4>1
      <4> QED BY <1>2, <3>2, <3>3, <4>2
    <3> QED BY <3>4, <3>5
  <2>2. N # 0 => N \in 1..N
    BY <1>1
  <2> QED BY <2>1, <2>2
<1>8. CASE name \notin DOMAIN targets
  <2>1. after[N] = name
    BY <1>6, <1>7, <1>8 DEF hop
  <2> QED BY <1>5, <1>8, <2>1 DEF Meant
<1>9. CASE name \in DOMAIN targets
  <2>1. after[N] = hop(name)
    BY <1>1, <1>7, <1>9
  <2> QED BY <1>5, <1>9, <2>1 DEF Meant, hop, NamesInv, Real
<1> QED BY <1>8, <1>9

\* A name that means something means a target that is no alias.
LEMMA MeantIs ==
    ASSUME NamesInv
    PROVE  /\ None \notin Real
           /\ \A t \in Real : Resolve(t) = t /\ Meant(t) = t
           /\ \A name : Resolve(name) = Meant(name) /\ Meant(name) \in Real \cup {None}
<1>1. \A t \in Real : Meant(t) = t
  BY DEF NamesInv, Real, Meant
<1>2. \A name : Resolve(name) = Meant(name)
  BY ResolveIs
<1>3. ASSUME NEW name PROVE Meant(name) \in Real \cup {None}
  BY DEF NamesInv, Real, Meant
<1>4. None \notin Real
  BY DEF NamesInv, Real
<1> QED BY <1>1, <1>2, <1>3, <1>4

\* When none is left out, all are kept.
LEMMA AllKept ==
    ASSUME NEW A, NEW rows \in Seq(A), NEW ok, ToSet(rows) \subseteq ok
    PROVE  KeptRows(rows, ok) = rows
<1> DEFINE n == Len(rows)
           V == Seq(A)
           Eq(g) == g = [s \in SUBSET DOMAIN rows |->
                           IF s = {} THEN <<>>
                           ELSE IF rows[Max(s)] \in ok THEN Append(g[s \ {Max(s)}], rows[Max(s)])
                                                       ELSE g[s \ {Max(s)}]]
           f == CHOOSE g : Eq(g)
           step == [p \in (1..n) \X V |-> Append(p[2], rows[p[1]])]
<1>1. n \in Nat /\ DOMAIN rows = 1..n /\ \A i \in 1..n : rows[i] \in A /\ rows[i] \in ok
  BY LenProperties DEF ToSet
<1>2. step \in [(1..n) \X V -> V] /\ <<>> \in V
  <2>1. ASSUME NEW p \in (1..n) \X V PROVE Append(p[2], rows[p[1]]) \in V
    BY <1>1, AppendProperties
  <2> HIDE DEF V
  <2>2. step \in [(1..n) \X V -> V]
    BY <2>1
  <2> QED BY <2>2, EmptySeq DEF V
<1>3. ASSUME NEW s \in SUBSET (1..n), s # {}
      PROVE  Max(s) \in 1..n /\ rows[Max(s)] \in ok
  <2>1. Max(s) \in 1..n
    BY <1>1, <1>3, MaxIs
  <2> QED BY <1>1, <2>1
<1>4. \E g : Eq(g)
  <2> HIDE DEF V, step
  <2>1. PICK g \in [SUBSET (1..n) -> V] : Folds(g, n, <<>>, step)
    BY <1>1, <1>2, FoldSolved
  <2>2. ASSUME NEW s \in SUBSET (1..n), s # {}
        PROVE  g[s] = Append(g[s \ {Max(s)}], rows[Max(s)])
    <3>1. g[s \ {Max(s)}] \in V
      OBVIOUS
    <3>2. <<Max(s), g[s \ {Max(s)}]>> \in (1..n) \X V
      BY <1>3, <2>2, <3>1
    <3>3. step[<<Max(s), g[s \ {Max(s)}]>>] = Append(g[s \ {Max(s)}], rows[Max(s)])
      BY <3>2 DEF step
    <3> QED BY <2>1, <2>2, <3>3 DEF Folds
  <2>3. g = [s \in SUBSET (1..n) |->
               IF s = {} THEN <<>>
               ELSE IF rows[Max(s)] \in ok THEN Append(g[s \ {Max(s)}], rows[Max(s)])
                                           ELSE g[s \ {Max(s)}]]
    BY <1>3, <2>1, <2>2 DEF Folds
  <2> QED BY <1>1, <2>3
<1>5. Eq(f)
  BY <1>4
<1>6. KeptRows(rows, ok) = f[DOMAIN rows]
  BY DEF KeptRows, FoldLeft, MapThenFoldSet
<1> HIDE DEF f, step
<1>7. f[{}] = <<>>
  BY <1>5
<1>8. ASSUME NEW k \in 1..n
      PROVE  f[1..k] = Append(f[1..(k - 1)], rows[k])
  <2>1. 1..k \in SUBSET DOMAIN rows /\ 1..k # {} /\ 1..k \in SUBSET (1..n)
    <3>1. k \in 1..k /\ \A j \in 1..k : j \in 1..n
      BY <1>1
    <3> QED BY <1>1, <3>1
  <2>2. Max(1..k) = k
    <3>1. Max(1..k) \in 1..k /\ \A x \in 1..k : x <= Max(1..k)
      BY <1>1, <2>1, MaxIs
    <3>2. PICK m : m = Max(1..k)
      OBVIOUS
    <3>3. m \in 1..k /\ k <= m
      BY <3>1, <3>2
    <3> QED BY <3>2, <3>3
  <2>3. (1..k) \ {k} = 1..(k - 1)
    OBVIOUS
  <2>4. f[1..k] = Append(f[(1..k) \ {Max(1..k)}], rows[Max(1..k)])
    BY <1>3, <1>5, <2>1
  <2> QED BY <2>2, <2>3, <2>4
<1> DEFINE Good(k) == f[1..k] \in Seq(A) /\ Len(f[1..k]) = k /\ \A i \in 1..k : f[1..k][i] = rows[i]
           Bad == {k \in 0..n : ~Good(k)}
<1>9. Good(0)
  <2>1. 1..0 = {}
    OBVIOUS
  <2>2. f[1..0] = <<>>
    BY <1>7, <2>1
  <2> QED BY <2>2
<1>10. ASSUME NEW k \in 1..n, Good(k - 1) PROVE Good(k)
  <2>1. PICK old : old = f[1..(k - 1)]
    OBVIOUS
  <2>2. PICK new : new = f[1..k]
    OBVIOUS
  <2>3. /\ new = Append(old, rows[k]) /\ old \in Seq(A) /\ Len(old) = k - 1 /\ rows[k] \in A
        /\ \A i \in 1..(k - 1) : old[i] = rows[i]
    BY <1>1, <1>8, <1>10, <2>1, <2>2
  <2>4. /\ new \in Seq(A) /\ Len(new) = Len(old) + 1 /\ new[Len(old) + 1] = rows[k]
        /\ \A i \in 1..Len(old) : new[i] = old[i]
    BY <2>3, AppendProperties
  <2>5. Len(new) = k /\ new[k] = rows[k] /\ \A i \in 1..(k - 1) : new[i] = rows[i]
    BY <2>3, <2>4
  <2>6. \A i \in 1..k : i = k \/ i \in 1..(k - 1)
    OBVIOUS
  <2> QED BY <2>2, <2>4, <2>5, <2>6
<1>11. Good(n)
  <2> HIDE DEF Good
  <2> SUFFICES ASSUME Bad # {} PROVE FALSE
    <3>1. n \in 0..n
      BY <1>1
    <3> QED BY <3>1
  <2>1. PICK k \in Bad : \A m \in Bad : k <= m
    <3>1. Bad \in SUBSET Nat
      BY <1>1
    <3> HIDE DEF Bad
    <3> QED BY <3>1, LeastOf
  <2>2. k \in 0..n /\ k # 0
    BY <2>1, <1>9
  <2>3. k \in 1..n /\ k - 1 \in 0..n /\ ~(k <= k - 1)
    BY <2>2, <1>1
  <2>4. Good(k - 1)
    BY <2>1, <2>3
  <2> QED BY <2>1, <2>3, <2>4, <1>10
<1>12. f[1..n] = rows
  <2>1. PICK g : g = f[1..n]
    OBVIOUS
  <2>2. g \in Seq(A) /\ Len(g) = n /\ \A i \in 1..n : g[i] = rows[i]
    BY <1>11, <2>1
  <2>3. g = rows
    BY <2>2, SeqEqual
  <2> QED BY <2>1, <2>3
<1> QED BY <1>1, <1>6, <1>12

\* The tables that are made of the rows.
EdgeOf(e) == [src |-> e.src, dst |-> e.dst, to |-> Meant(e.dst), vis |-> e.vis, ev |-> e.ev]

LEMMA TablesAre ==
    ASSUME NamesInv, LinksInv, ReqsInv
    PROVE  /\ ToSet(Edges) = {EdgeOf(e) : e \in ToSet(edges)}
           /\ Reqs = reqs
<1>1. /\ Len(edges) \in Nat /\ DOMAIN edges = 1..Len(edges)
      /\ \A i \in 1..Len(edges) : edges[i] \in LinkRow /\ edges[i] \in ToSet(edges)
      /\ Len(reqs) \in Nat /\ DOMAIN reqs = 1..Len(reqs)
      /\ \A i \in 1..Len(reqs) : reqs[i] \in ReqRow /\ reqs[i] \in ToSet(reqs)
  BY LenProperties DEF LinksInv, ReqsInv, ToSet
<1>2. \A e \in ToSet(edges) : Resolve(e.src) = e.src /\ e.src # None
  BY MeantIs DEF LinksInv, LinkRowOk
<1>3. \A q \in ToSet(reqs) : Resolve(q.tgt) = q.tgt /\ q.tgt # None
  BY MeantIs DEF ReqsInv, ReqRowOk
<1>4. KeptRows(edges, {e \in ToSet(edges) : Resolve(e.src) # None}) = edges
  <2>1. PICK ok : ok = {e \in ToSet(edges) : Resolve(e.src) # None}
    OBVIOUS
  <2>2. ToSet(edges) \subseteq ok /\ edges \in Seq(LinkRow)
    BY <1>2, <2>1 DEF LinksInv
  <2>3. KeptRows(edges, ok) = edges
    BY <2>2, AllKept
  <2> QED BY <2>1, <2>3
<1>5. KeptRows(reqs, {q \in ToSet(reqs) : Resolve(q.tgt) # None}) = reqs
  <2>1. PICK ok : ok = {q \in ToSet(reqs) : Resolve(q.tgt) # None}
    OBVIOUS
  <2>2. ToSet(reqs) \subseteq ok /\ reqs \in Seq(ReqRow)
    BY <1>3, <2>1 DEF ReqsInv
  <2>3. KeptRows(reqs, ok) = reqs
    BY <2>2, AllKept
  <2> QED BY <2>1, <2>3
<1>6. Edges = [i \in DOMAIN edges |-> EdgeOf(edges[i])]
  <2>1. Edges = [i \in DOMAIN edges |-> [src |-> Resolve(edges[i].src), dst |-> edges[i].dst,
                    to |-> Resolve(edges[i].dst), vis |-> edges[i].vis, ev |-> edges[i].ev]]
    BY <1>4 DEF Edges
  <2>2. \A i \in DOMAIN edges : /\ Resolve(edges[i].src) = edges[i].src
                                /\ Resolve(edges[i].dst) = Meant(edges[i].dst)
    BY <1>1, <1>2, MeantIs
  <2> QED BY <2>1, <2>2 DEF EdgeOf
<1>7. Reqs = reqs
  <2>1. Reqs = [i \in DOMAIN reqs |-> [reqs[i] EXCEPT !.tgt = Resolve(@)]]
    BY <1>5 DEF Reqs
  <2>2. ASSUME NEW i \in DOMAIN reqs PROVE [reqs[i] EXCEPT !.tgt = Resolve(@)] = reqs[i]
    <3>1. PICK q : q = reqs[i]
      OBVIOUS
    <3>2. q \in ReqRow /\ Resolve(q.tgt) = q.tgt
      BY <1>1, <1>3, <3>1
    <3>3. [q EXCEPT !.tgt = Resolve(@)] = q
      BY <3>2 DEF ReqRow
    <3> QED BY <3>1, <3>3
  <2>3. Reqs = [i \in DOMAIN reqs |-> reqs[i]]
    BY <2>1, <2>2
  <2>4. reqs = [i \in DOMAIN reqs |-> reqs[i]]
    BY DEF ReqsInv
  <2> QED BY <2>3, <2>4
<1>8. ToSet(Edges) = {EdgeOf(e) : e \in ToSet(edges)}
  BY <1>6 DEF ToSet
<1> QED BY <1>7, <1>8

\* No command is both about a directory and about a target.
LEMMA CommandNames ==
    \A cmd : cmd \in DOMAIN DirKind => cmd \notin DOMAIN ReqKind /\ cmd \notin Setters /\ cmd # "target_link_libraries"
  BY DEF DirKind, ReqKind, Setters

\* The rows are what ingestion promises.
LEMMA RowsCover ==
    ASSUME NamesInv, LinksInv, ReqsInv
    PROVE  RowsCoverLinks /\ RowsCoverReqs
<1>1. ToSet(Edges) = {EdgeOf(e) : e \in ToSet(edges)} /\ Reqs = reqs
  BY TablesAre
<1>2. ASSUME NEW t \in Real, NEW l, NEW vis, LinkHasRow(ToSet(edges), t, l, vis)
      PROVE  \E e \in ToSet(Edges) : /\ e.src = t /\ e.dst = l.dst /\ e.ev = l.ev
                                     /\ e.vis \in {vis, "PUBLIC"} /\ e.to = Meant(l.dst)
  <2>1. PICK e \in ToSet(edges) : /\ e.src = t /\ [dst |-> e.dst, ev |-> e.ev] = l
                                  /\ e.vis \in {vis, "PUBLIC"}
    BY <1>2 DEF LinkHasRow
  <2>2. EdgeOf(e) \in ToSet(Edges)
    BY <1>1
  <2>3. l.dst = e.dst /\ l.ev = e.ev
    BY <2>1
  <2>4. PICK r : r = EdgeOf(e)
    OBVIOUS
  <2>5. r.src = t /\ r.dst = l.dst /\ r.ev = l.ev /\ r.vis \in {vis, "PUBLIC"} /\ r.to = Meant(l.dst)
    BY <2>1, <2>3, <2>4 DEF EdgeOf
  <2> QED BY <2>2, <2>4, <2>5
<1>3. ASSUME NEW r \in ToSet(Edges)
      PROVE  /\ r.vis # "INTERFACE" => OwnLink(r)
             /\ r.vis # "PRIVATE" => ExportedLink(r) \/ LinkReset(r)
  <2>1. PICK e \in ToSet(edges) : r = EdgeOf(e)
    BY <1>1
  <2>2. LinkRowOk(e)
    BY DEF LinksInv
  <2>3. r.src = e.src /\ r.dst = e.dst /\ r.ev = e.ev /\ r.vis = e.vis
    BY <2>1 DEF EdgeOf
  <2>4. (OwnLink(r) <=> OwnLink(e)) /\ (ExportedLink(r) <=> ExportedLink(e)) /\ (LinkReset(r) <=> LinkReset(e))
    BY <2>3 DEF OwnLink, ExportedLink, LinkReset
  <2> QED BY <2>2, <2>3, <2>4 DEF LinkRowOk
<1>4. \A t \in Real : /\ \A l \in world.links[t] : LinkHasRow(ToSet(edges), t, l, "PRIVATE")
                      /\ \A l \in world.ilinks[t] : LinkHasRow(ToSet(edges), t, l, "INTERFACE")
  BY DEF LinksInv
<1>5. RowsCoverLinks
  BY <1>2, <1>3, <1>4 DEF RowsCoverLinks
<1>6. ASSUME NEW t \in Real, NEW i, NEW vis, ReqHasRow(ToSet(reqs), t, i, vis)
      PROVE  \E q \in ToSet(Reqs) : /\ q.tgt = t /\ q.kind = i.kind /\ q.value = i.value[2]
                                    /\ q.ev = i.ev /\ q.vis \in {vis, "PUBLIC"}
  BY <1>1, <1>6 DEF ReqHasRow, IsRowOf
<1>7. ASSUME NEW q \in ToSet(Reqs)
      PROVE  /\ q.vis # "INTERFACE" =>
                  \E i \in world.own[q.tgt] : i.kind = q.kind /\ i.value[2] = q.value /\ i.ev = q.ev
             /\ q.vis # "PRIVATE" =>
                  \/ \E i \in world.iface[q.tgt] : i.kind = q.kind /\ i.value[2] = q.value /\ i.ev = q.ev
                  \/ ReqReset(q)
  <2>1. ReqRowOk(q)
    BY <1>1 DEF ReqsInv
  <2> QED BY <2>1 DEF ReqRowOk, IsRowOf
<1>8. ASSUME NEW t \in Real
      PROVE  /\ \A i \in world.own[t] : events[i.ev].c.cmd \in DOMAIN ReqKind => ReqHasRow(ToSet(reqs), t, i, "PRIVATE")
             /\ \A i \in world.iface[t] : ReqHasRow(ToSet(reqs), t, i, "INTERFACE")
  <2>1. /\ \A i \in world.own[t] : ~IsDir(i.ev) => ReqHasRow(ToSet(reqs), t, i, "PRIVATE")
        /\ \A i \in world.iface[t] : ReqHasRow(ToSet(reqs), t, i, "INTERFACE")
    BY DEF ReqsInv
  <2> QED BY <2>1, CommandNames DEF IsDir
<1>9. RowsCoverReqs
  BY <1>6, <1>7, <1>8 DEF RowsCoverReqs
<1> QED BY <1>5, <1>9

-----------------------------------------------------------------------------
(* What a step leaves of the rows.                                         *)

\* What was set again has been since.
LEMMA ResetsStay ==
    ASSUME Longer, NEW ev \in Nat, NEW t, NEW props, ResetAfter(ev, t, props)
    PROVE  ResetAfter(ev, t, props)'
<1>1. Len(events) \in Nat /\ Len(events') \in Nat /\ Len(events) <= Len(events')
  BY DEF Longer
<1>2. PICK i \in (ev + 1)..Len(events) :
         /\ events[i].c.cmd \in {"set_property", "set_target_properties"} /\ ~events[i].c.append
         /\ events[i].c.tgt = t /\ events[i].c.prop \in props
  BY DEF ResetAfter
<1>3. i \in (ev + 1)..Len(events') /\ events'[i] = events[i]
  <2>1. i \in 1..Len(events)
    BY <1>1
  <2> QED BY <1>1, <2>1 DEF Longer
<1> QED BY <1>2, <1>3 DEF ResetAfter

\* The links of target t in a step that collects the rows `new`.
LinksMove(t, new) ==
    /\ world.links[t] \subseteq world'.links[t]
    /\ \A l \in world'.links[t] : l \in world.links[t] \/ LinkHasRow(new, t, l, "PRIVATE")
    /\ \/ world.ilinks[t] \subseteq world'.ilinks[t]
       \/ \A e \in ToSet(edges) : e.src = t => LinkReset(e)'
    /\ \A l \in world'.ilinks[t] : l \in world.ilinks[t] \/ LinkHasRow(new, t, l, "INTERFACE")

LEMMA LinksCarry ==
    ASSUME LinksInv, Longer, Real \subseteq Real', edges' \in Seq(LinkRow),
           NEW new, ToSet(edges') = ToSet(edges) \cup new, \A e \in new : LinkRowOk(e)',
           \A t \in Real : LinksMove(t, new),
           \A t \in Real' \ Real : world'.links[t] = {} /\ world'.ilinks[t] = {}
    PROVE  LinksInv'
<1>1. ASSUME NEW e \in ToSet(edges) PROVE LinkRowOk(e)'
  <2>1. LinkRowOk(e) /\ e.src \in Real
    BY DEF LinksInv, LinkRowOk
  <2>2. LinksMove(e.src, new)
    BY <2>1
  <2>3. e.ev \in 1..Len(events')
    BY <2>1 DEF LinkRowOk, Longer
  <2>4. e.vis # "INTERFACE" => OwnLink(e)'
    BY <2>1, <2>2 DEF LinkRowOk, OwnLink, LinksMove
  <2>5. LinkReset(e) => LinkReset(e)'
    <3>1. e.ev \in Nat
      BY <2>1 DEF LinkRowOk, Longer
    <3> QED BY <3>1, ResetsStay DEF LinkReset
  <2>6. e.vis # "PRIVATE" => ExportedLink(e)' \/ LinkReset(e)'
    BY <2>1, <2>2, <2>5 DEF LinkRowOk, ExportedLink, LinksMove
  <2> QED BY <2>1, <2>3, <2>4, <2>6 DEF LinkRowOk
<1>2. ASSUME NEW t \in Real'
      PROVE  /\ \A l \in world'.links[t] : LinkHasRow(ToSet(edges'), t, l, "PRIVATE")
             /\ \A l \in world'.ilinks[t] : LinkHasRow(ToSet(edges'), t, l, "INTERFACE")
  <2>1. CASE t \in Real
    <3>1. /\ \A l \in world.links[t] : LinkHasRow(ToSet(edges), t, l, "PRIVATE")
          /\ \A l \in world.ilinks[t] : LinkHasRow(ToSet(edges), t, l, "INTERFACE")
      BY <2>1 DEF LinksInv
    <3>2. \A l, vis : LinkHasRow(ToSet(edges), t, l, vis) \/ LinkHasRow(new, t, l, vis)
                        => LinkHasRow(ToSet(edges'), t, l, vis)
      BY DEF LinkHasRow
    <3>3. LinksMove(t, new)
      BY <2>1
    <3> QED BY <3>1, <3>2, <3>3 DEF LinksMove
  <2>2. CASE t \notin Real
    BY <2>2
  <2> QED BY <2>1, <2>2
<1> QED BY <1>1, <1>2 DEF LinksInv

\* The same of requirements.
ReqsMove(t, new) ==
    /\ world.own[t] \subseteq world'.own[t]
    /\ \A i \in world'.own[t] : i \in world.own[t] \/ IsDir(i.ev)' \/ ReqHasRow(new, t, i, "PRIVATE")
    /\ \A i \in world.iface[t] :
        i \in world'.iface[t] \/ \A q \in ToSet(reqs) : q.tgt = t /\ IsRowOf(q, i) => ReqReset(q)'
    /\ \A i \in world'.iface[t] :
        \/ i \in world.iface[t]
        \/ ReqHasRow(new, t, i, "INTERFACE") /\ (i.sys <=> HasSystem(i.ev)')

\* What directories have in a step.
PropsMove ==
    \A d \in DOMAIN world'.props : \A i \in world'.props[d] :
        \/ \E a \in DOMAIN world.props : i \in world.props[a]
        \/ IsDir(i.ev)' /\ i.ev \in 1..Len(events')

LEMMA ReqsCarry ==
    ASSUME ReqsInv, Longer, TargetsInv, Real \subseteq Real', reqs' \in Seq(ReqRow), PropsMove,
           NEW new, ToSet(reqs') = ToSet(reqs) \cup new, \A q \in new : ReqRowOk(q)',
           \A t \in Real : ReqsMove(t, new),
           \A t \in Real' \ Real : world'.iface[t] = {} /\ \A i \in world'.own[t] : IsDir(i.ev)'
    PROVE  ReqsInv'
<1>0. /\ Len(events) \in Nat /\ Len(events') \in Nat /\ Len(events) <= Len(events')
      /\ \A e \in 1..Len(events) : e \in 1..Len(events') /\ events'[e] = events[e]
  BY DEF Longer
<1>1. ASSUME NEW q \in ToSet(reqs) PROVE ReqRowOk(q)'
  <2>1. ReqRowOk(q) /\ q.tgt \in Real
    BY DEF ReqsInv, ReqRowOk
  <2>2. ReqsMove(q.tgt, new)
    BY <2>1
  <2>3. q.ev \in 1..Len(events') /\ events'[q.ev] = events[q.ev]
    BY <1>0, <2>1 DEF ReqRowOk
  <2>4. q.vis # "INTERFACE" => \E i \in world'.own[q.tgt] : IsRowOf(q, i)
    BY <2>1, <2>2 DEF ReqRowOk, ReqsMove
  <2>5. ReqReset(q) => ReqReset(q)'
    <3>1. q.ev \in Nat
      BY <2>1 DEF ReqRowOk, Longer
    <3> QED BY <3>1, ResetsStay DEF ReqReset
  <2>6. q.vis # "PRIVATE" => (\E i \in world'.iface[q.tgt] : IsRowOf(q, i)) \/ ReqReset(q)'
    BY <2>1, <2>2, <2>5 DEF ReqRowOk, ReqsMove
  <2> QED BY <2>1, <2>3, <2>4, <2>6 DEF ReqRowOk
<1>2. \A t, i, vis : ReqHasRow(ToSet(reqs), t, i, vis) \/ ReqHasRow(new, t, i, vis)
                       => ReqHasRow(ToSet(reqs'), t, i, vis)
  BY DEF ReqHasRow
<1>3. ASSUME NEW t \in Real, NEW i \in world'.own[t], ~IsDir(i.ev)'
      PROVE  ReqHasRow(ToSet(reqs'), t, i, "PRIVATE")
  <2>1. CASE i \in world.own[t]
    <3>1. i.ev \in 1..Len(events)
      BY <2>1 DEF TargetsInv, TargetOk
    <3>2. ~IsDir(i.ev)
      BY <1>0, <1>3, <3>1 DEF IsDir
    <3> QED BY <1>2, <2>1, <3>2 DEF ReqsInv
  <2>2. CASE i \notin world.own[t]
    BY <1>2, <1>3, <2>2 DEF ReqsMove
  <2> QED BY <2>1, <2>2
<1>4. ASSUME NEW t \in Real, NEW i \in world'.iface[t]
      PROVE  ReqHasRow(ToSet(reqs'), t, i, "INTERFACE") /\ (i.sys <=> HasSystem(i.ev)')
  <2>1. CASE i \in world.iface[t]
    <3>1. ReqHasRow(ToSet(reqs), t, i, "INTERFACE") /\ (i.sys <=> HasSystem(i.ev))
      BY <2>1 DEF ReqsInv
    <3>2. PICK q \in ToSet(reqs) : IsRowOf(q, i)
      BY <3>1 DEF ReqHasRow
    <3>3. i.ev \in 1..Len(events)
      BY <3>2 DEF IsRowOf, ReqsInv, ReqRowOk
    <3>4. HasSystem(i.ev)' <=> HasSystem(i.ev)
      BY <1>0, <3>3 DEF HasSystem
    <3> QED BY <1>2, <3>1, <3>4
  <2>2. CASE i \notin world.iface[t]
    BY <1>2, <2>2 DEF ReqsMove
  <2> QED BY <2>1, <2>2
<1>5. ASSUME NEW t \in Real'
      PROVE  /\ \A i \in world'.own[t] : ~IsDir(i.ev)' => ReqHasRow(ToSet(reqs'), t, i, "PRIVATE")
             /\ \A i \in world'.iface[t] : ReqHasRow(ToSet(reqs'), t, i, "INTERFACE")
                                           /\ (i.sys <=> HasSystem(i.ev)')
  BY <1>3, <1>4
<1>6. ASSUME NEW d \in DOMAIN world'.props, NEW i \in world'.props[d]
      PROVE  IsDir(i.ev)' /\ i.ev \in 1..Len(events')
  <2>1. CASE \E a \in DOMAIN world.props : i \in world.props[a]
    <3>1. IsDir(i.ev) /\ i.ev \in 1..Len(events)
      BY <2>1 DEF ReqsInv
    <3> QED BY <1>0, <3>1 DEF IsDir
  <2>2. CASE ~(\E a \in DOMAIN world.props : i \in world.props[a])
    BY <2>2 DEF PropsMove
  <2> QED BY <2>1, <2>2
<1> QED BY <1>1, <1>5, <1>6 DEF ReqsInv

LEMMA LinksQuiet ==
    ASSUME LinksInv, Longer, Real \subseteq Real', edges' = edges,
           \A t \in Real : world'.links[t] = world.links[t] /\ world'.ilinks[t] = world.ilinks[t],
           \A t \in Real' \ Real : world'.links[t] = {} /\ world'.ilinks[t] = {}
    PROVE  LinksInv'
<1>1. PICK new : new = {}
  OBVIOUS
<1>2. edges' \in Seq(LinkRow) /\ ToSet(edges') = ToSet(edges) \cup new /\ \A e \in new : LinkRowOk(e)'
  BY <1>1 DEF LinksInv
<1>3. \A t \in Real : LinksMove(t, new)
  BY DEF LinksMove
<1> QED BY <1>2, <1>3, LinksCarry

LEMMA ReqsQuiet ==
    ASSUME ReqsInv, Longer, TargetsInv, Real \subseteq Real', reqs' = reqs, PropsMove,
           \A t \in Real : /\ world.own[t] \subseteq world'.own[t]
                           /\ \A i \in world'.own[t] : i \in world.own[t] \/ IsDir(i.ev)'
                           /\ world'.iface[t] = world.iface[t],
           \A t \in Real' \ Real : world'.iface[t] = {} /\ \A i \in world'.own[t] : IsDir(i.ev)'
    PROVE  ReqsInv'
<1>1. PICK new : new = {}
  OBVIOUS
<1>2. reqs' \in Seq(ReqRow) /\ ToSet(reqs') = ToSet(reqs) \cup new /\ \A q \in new : ReqRowOk(q)'
  BY <1>1 DEF ReqsInv
<1>3. \A t \in Real : ReqsMove(t, new)
  BY DEF ReqsMove
<1> QED BY <1>2, <1>3, ReqsCarry

\* CMake's links of a call are its items.
LEMMA LinksForAre ==
    ASSUME NEW c \in Calls, c.args # <<>>, NEW n, NEW viss
    PROVE  LinksFor(c, n, viss)
             = {[dst |-> x.word, ev |-> n] :
                  x \in {y \in ItemsOf(Tail(c.args), LinkVis, ConfigWords, "PUBLIC") : y.vis \in viss}}
<1>1. PICK words : words = Tail(c.args)
  OBVIOUS
<1>2. PICK it : it = LinkItems(c)
  OBVIOUS
<1>3. PICK J : J = {j \in 1..Len(words) : words[j] \notin DOMAIN LinkVis \cup ConfigWords}
  OBVIOUS
<1>4. DOMAIN words = 1..Len(words)
  BY <1>1, CallWords, LenProperties
<1>5. /\ DOMAIN it = J
      /\ \A i \in J : it[i].dst = words[i] /\ it[i].vis = VisAt(words, i, LinkVis, "PUBLIC")
  BY <1>1, <1>2, <1>3, <1>4 DEF LinkItems, LinkKeys, VisAt
<1>6. ItemsOf(words, LinkVis, ConfigWords, "PUBLIC") = {[word |-> it[i].dst, vis |-> it[i].vis] : i \in J}
  BY <1>3, <1>5 DEF ItemsOf
<1>7. LinksFor(c, n, viss) = {[dst |-> it[i].dst, ev |-> n] : i \in {j \in J : it[j].vis \in viss}}
  BY <1>2, <1>5 DEF LinksFor
<1>8. PICK items : items = ItemsOf(words, LinkVis, ConfigWords, "PUBLIC")
  OBVIOUS
<1>9. /\ \A x \in items : \E i \in J : x.word = it[i].dst /\ x.vis = it[i].vis
      /\ \A i \in J : \E x \in items : x.word = it[i].dst /\ x.vis = it[i].vis
  <2>1. ASSUME NEW i \in J PROVE \E x \in items : x.word = it[i].dst /\ x.vis = it[i].vis
    <3>1. [word |-> it[i].dst, vis |-> it[i].vis] \in items
      BY <1>6, <1>8
    <3> QED BY <3>1
  <2> QED BY <1>6, <1>8, <2>1
<1>10. LinksFor(c, n, viss) = {[dst |-> x.word, ev |-> n] : x \in {y \in items : y.vis \in viss}}
  BY <1>7, <1>9
<1> QED BY <1>1, <1>8, <1>10

\* What a call about a target leaves alone.
LEMMA CallAbout ==
    ASSUME DirectoryInv, NEW c \in Calls, Log(c), UNCHANGED <<project, scopes, stack, targets>>,
           DOMAIN world' = Fields, world'.dir = world.dir
    PROVE  /\ Longer /\ Real' = Real
           /\ Len(events) \in Nat /\ Now = Len(events) + 1 /\ Len(events') = Now
           /\ events'[Now].c = c
<1>1. PICK n : n = Now
  OBVIOUS
<1>2. TypeInv /\ TreeInv /\ EventsInv
  BY DEF DirectoryInv
<1>3. Longer /\ Len(events) \in Nat /\ n = Len(events) + 1 /\ Len(events') = n /\ events'[n].c = c
  BY <1>1, <1>2, Logged
<1>4. Real' = Real
  BY DEF Real
<1> QED BY <1>1, <1>3, <1>4

LEMMA LinkLibrariesRows ==
    ASSUME DirectoryInv, NamesInv, LinksInv, ReqsInv, NEW c \in Calls, LinkLibraries(c)
    PROVE  NamesInv' /\ LinksInv' /\ ReqsInv'
<1>t. PICK t : t = c.args[1]
  OBVIOUS
<1>n. PICK n : n = Now
  OBVIOUS
<1>o. PICK own : own = LinksFor(c, n, {"PUBLIC", "PRIVATE"})
  OBVIOUS
<1>x. PICK exported : exported = LinksFor(c, n, {"PUBLIC", "INTERFACE"})
  OBVIOUS
<1>1. /\ c.args # <<>> /\ t \in Real /\ Log(c)
      /\ UNCHANGED <<project, scopes, stack, targets, reqs>>
      /\ edges' = edges \o LinkRows(c, n)
      /\ world' = [world EXCEPT !.links[t] = @ \cup own, !.ilinks[t] = @ \cup exported]
  BY <1>t, <1>n, <1>o, <1>x DEF LinkLibraries
<1>2. DOMAIN world = Fields /\ DOMAIN world.links = Real /\ DOMAIN world.ilinks = Real
  BY DEF DirectoryInv, TypeInv, NamesInv
<1>3. /\ DOMAIN world' = Fields /\ world'.dir = world.dir /\ world'.props = world.props
      /\ world'.home = world.home /\ world'.own = world.own /\ world'.iface = world.iface
      /\ DOMAIN world'.links = Real /\ DOMAIN world'.ilinks = Real
      /\ world'.links[t] = world.links[t] \cup own
      /\ world'.ilinks[t] = world.ilinks[t] \cup exported
      /\ \A u \in Real : u # t => world'.links[u] = world.links[u] /\ world'.ilinks[u] = world.ilinks[u]
  BY <1>1, <1>2 DEF Fields
<1>4. /\ Longer /\ Real' = Real /\ Len(events) \in Nat /\ n = Len(events) + 1 /\ Len(events') = n
  BY <1>1, <1>3, <1>n, CallAbout
<1>5. NamesInv'
  BY <1>1, <1>3, <1>4 DEF NamesInv
<1>6. ReqsInv'
  <2>1. TargetsInv
    BY DEF DirectoryInv
  <2>2. PropsMove
    BY <1>3 DEF PropsMove
  <2> QED BY <1>1, <1>3, <1>4, <2>1, <2>2, ReqsQuiet
<1>7. PICK items : items = ItemsOf(Tail(c.args), LinkVis, ConfigWords, "PUBLIC")
  OBVIOUS
<1>8. PICK new : new = ToSet(LinkRows(c, n))
  OBVIOUS
<1>9. /\ LinkRows(c, n) \in Seq(LinkRow)
      /\ new = {LinkRowOf(t, x, n) : x \in items} /\ items \subseteq [word : Words, vis : Vis]
  <2>1. n \in Nat
    BY <1>4
  <2>2. PICK rows : rows = LinkRows(c, n)
    OBVIOUS
  <2>3. PICK made : made = {LinkRowOf(c.args[1], x, n) : x \in ItemsOf(Tail(c.args), LinkVis, ConfigWords, "PUBLIC")}
    OBVIOUS
  <2>4. rows \in Seq(LinkRow) /\ ToSet(rows) = made /\ items \subseteq [word : Words, vis : Vis]
    BY <1>1, <1>7, <2>1, <2>2, <2>3, LinkRowsAre
  <2> QED BY <1>7, <1>8, <1>t, <2>2, <2>3, <2>4
<1>10. /\ own = {[dst |-> x.word, ev |-> n] : x \in {y \in items : y.vis \in {"PUBLIC", "PRIVATE"}}}
       /\ exported = {[dst |-> x.word, ev |-> n] : x \in {y \in items : y.vis \in {"PUBLIC", "INTERFACE"}}}
  BY <1>1, <1>7, <1>o, <1>x, LinksForAre
<1>11. edges' \in Seq(LinkRow) /\ ToSet(edges') = ToSet(edges) \cup new
  <2>1. PICK rows : rows = LinkRows(c, n)
    OBVIOUS
  <2>2. rows \in Seq(LinkRow) /\ edges \in Seq(LinkRow)
    BY <1>9, <2>1 DEF LinksInv
  <2>3. edges \o rows \in Seq(LinkRow) /\ ToSet(edges \o rows) = ToSet(edges) \cup ToSet(rows)
    BY <2>2, ConcatSet
  <2> QED BY <1>1, <1>8, <2>1, <2>3
<1>12. ASSUME NEW e \in new PROVE LinkRowOk(e)'
  <2>1. PICK x \in items : e = LinkRowOf(t, x, n)
    BY <1>9
  <2>2. e.src = t /\ e.dst = x.word /\ e.vis = x.vis /\ e.ev = n /\ x.vis \in Vis
    BY <1>9, <2>1 DEF LinkRowOf
  <2>3. n \in 1..Len(events') /\ t \in Real'
    BY <1>1, <1>4
  <2>4. e.vis # "INTERFACE" => OwnLink(e)'
    BY <1>3, <1>10, <2>2 DEF OwnLink, Vis
  <2>5. e.vis # "PRIVATE" => ExportedLink(e)'
    BY <1>3, <1>10, <2>2 DEF ExportedLink, Vis
  <2> QED BY <2>2, <2>3, <2>4, <2>5 DEF LinkRowOk
<1>13. ASSUME NEW l \in own PROVE LinkHasRow(new, t, l, "PRIVATE")
  <2>1. PICK x \in items : l = [dst |-> x.word, ev |-> n] /\ x.vis \in {"PUBLIC", "PRIVATE"}
    BY <1>10
  <2>2. PICK e : e = LinkRowOf(t, x, n)
    OBVIOUS
  <2>3. e \in new /\ e.src = t /\ e.dst = x.word /\ e.ev = n /\ e.vis = x.vis
    BY <1>9, <2>2 DEF LinkRowOf
  <2> QED BY <2>1, <2>3 DEF LinkHasRow
<1>14. ASSUME NEW l \in exported PROVE LinkHasRow(new, t, l, "INTERFACE")
  <2>1. PICK x \in items : l = [dst |-> x.word, ev |-> n] /\ x.vis \in {"PUBLIC", "INTERFACE"}
    BY <1>10
  <2>2. PICK e : e = LinkRowOf(t, x, n)
    OBVIOUS
  <2>3. e \in new /\ e.src = t /\ e.dst = x.word /\ e.ev = n /\ e.vis = x.vis
    BY <1>9, <2>2 DEF LinkRowOf
  <2> QED BY <2>1, <2>3 DEF LinkHasRow
<1>15. ASSUME NEW u \in Real PROVE LinksMove(u, new)
  <2>1. CASE u = t
    BY <1>3, <1>13, <1>14, <2>1 DEF LinksMove
  <2>2. CASE u # t
    BY <1>3, <2>2 DEF LinksMove
  <2> QED BY <2>1, <2>2
<1>16. LinksInv'
  BY <1>4, <1>11, <1>12, <1>15, LinksCarry
<1> QED BY <1>5, <1>6, <1>16

\* What KeywordBefore finds is a keyword.
LEMMA KeywordIs ==
    ASSUME NEW words, NEW i \in Nat \ {0}, NEW keys
    PROVE  KeywordBefore(words, i, keys) \in keys \cup {None}
<1>1. PICK before : before = {j \in 1..(i - 1) : words[j] \in keys}
  OBVIOUS
<1>2. KeywordBefore(words, i, keys)
        = IF before = {} THEN None ELSE words[CHOOSE j \in before : \A k \in before : k <= j]
  BY <1>1 DEF KeywordBefore
<1>3. ASSUME before # {} PROVE words[CHOOSE j \in before : \A k \in before : k <= j] \in keys
  <2>1. i - 1 \in Nat /\ before \in SUBSET (1..(i - 1))
    BY <1>1
  <2>2. PICK n \in Nat : n = i - 1
    BY <2>1
  <2>3. Max(before) \in before /\ \A k \in before : k <= Max(before)
    BY <1>3, <2>1, <2>2, MaxIs
  <2>4. \E j \in before : \A k \in before : k <= j
    BY <2>3
  <2>5. (CHOOSE j \in before : \A k \in before : k <= j) \in before
    BY <2>4
  <2> QED BY <1>1, <2>5
<1> QED BY <1>2, <1>3

\* A value says how it was written.
LEMMA MeaningIs ==
    \A w, kind, d : Meaning(w, kind, d)[2] = w
  BY DEF Meaning

\* The rows and the items of a call that adds requirements.
ItemsOfReqs(c) == ItemsOf(Tail(c.args), [v \in Vis |-> v], OrderWords, "PRIVATE")

ReqRowOf(c, x, n) ==
    [tgt |-> c.args[1], kind |-> ReqKind[c.cmd], vis |-> x.vis, ev |-> n,
     value |-> IF ReqKind[c.cmd] = "define" THEN Strip(x.word) ELSE x.word]

ReqItemOf(c, x, n) ==
    [kind |-> ReqKind[c.cmd], ev |-> n, sys |-> "SYSTEM" \in ToSet(Tail(c.args)),
     value |-> Meaning(IF ReqKind[c.cmd] = "define" THEN Strip(x.word) ELSE x.word, ReqKind[c.cmd], Here)]

LEMMA ReqRowsAre ==
    ASSUME NEW c \in Calls, c.args # <<>>, c.cmd \in DOMAIN ReqKind, NEW n \in Nat
    PROVE  /\ ReqRows(c, n) \in Seq(ReqRow)
           /\ ToSet(ReqRows(c, n)) = {ReqRowOf(c, x, n) : x \in ItemsOfReqs(c)}
           /\ ItemsOfReqs(c) \subseteq [word : Words, vis : Vis]
<1>1. PICK words : words = Tail(c.args)
  OBVIOUS
<1>v. PICK visOf : visOf = [v \in Vis |-> v]
  OBVIOUS
<1>2. PICK items : items = WordsWithVis(words, visOf, OrderWords, "PRIVATE")
  OBVIOUS
<1>4. PICK A : A = [word : Words, vis : Vis]
  OBVIOUS
<1>5. words \in Seq(Words) /\ c.args[1] \in Named /\ "PRIVATE" \in Vis
  BY <1>1, CallWords DEF Vis
<1>6. items \in Seq(A) /\ ToSet(items) = ItemsOf(words, visOf, OrderWords, "PRIVATE")
  BY <1>2, <1>4, <1>5, <1>v, KeywordNames, WordsWithVisAre
<1>7. PICK f : f = [x \in A |-> ReqRowOf(c, x, n)]
  OBVIOUS
<1>8. Into(f, A, ReqRow) /\ \A x \in A : f[x] = ReqRowOf(c, x, n)
  <2>1. ReqKind[c.cmd] \in Kinds
    BY DEF Kinds
  <2>2. ASSUME NEW x \in A PROVE ReqRowOf(c, x, n) \in ReqRow
    BY <1>4, <1>5, <2>1 DEF ReqRow, ReqRowOf, Strip
  <2> QED BY <1>7, <2>2 DEF Into
<1>9. ReqRows(c, n) = Mapped(items, f)
  <2>1. DOMAIN items = 1..Len(items) /\ \A i \in 1..Len(items) : items[i] \in A
    BY <1>6, LenProperties
  <2>2. ReqRows(c, n) = [i \in DOMAIN items |-> ReqRowOf(c, items[i], n)]
    BY <1>1, <1>2, <1>v DEF ReqRows, RowsOfReqs, ReqRowOf
  <2> QED BY <2>1, <2>2, <1>8 DEF Mapped
<1>10. ReqRows(c, n) \in Seq(ReqRow) /\ ToSet(ReqRows(c, n)) = Images(f, ToSet(items)) /\ ToSet(items) \subseteq A
  BY <1>6, <1>8, <1>9, MappedSet
<1>11. Images(f, ToSet(items)) = {ReqRowOf(c, x, n) : x \in ToSet(items)}
  BY <1>8, <1>10 DEF Images
<1> QED BY <1>1, <1>4, <1>6, <1>10, <1>11, <1>v DEF ItemsOfReqs

\* No value comes before the first visibility.
Ordered(c) ==
    \A i \in DOMAIN Tail(c.args) :
        Tail(c.args)[i] \notin Vis \cup OrderWords => KeywordBefore(Tail(c.args), i, Vis) # None

LEMMA ReqItemsAre ==
    ASSUME NEW c \in Calls, c.args # <<>>, NEW n, NEW viss, Ordered(c)
    PROVE  ReqItems(c, n, viss) = {ReqItemOf(c, x, n) : x \in {y \in ItemsOfReqs(c) : y.vis \in viss}}
<1>1. PICK words : words = Tail(c.args)
  OBVIOUS
<1>v. PICK visOf : visOf = [v \in Vis |-> v]
  OBVIOUS
<1>2. DOMAIN words = 1..Len(words) /\ Len(words) \in Nat
  BY <1>1, CallWords, LenProperties
<1>3. PICK J : J = {j \in 1..Len(words) : words[j] \notin Vis \cup OrderWords}
  OBVIOUS
<1>4. ASSUME NEW i \in J PROVE VisAt(words, i, visOf, "PRIVATE") = KeywordBefore(words, i, Vis)
  <2>1. PICK k : k = KeywordBefore(words, i, Vis)
    OBVIOUS
  <2>2. i \in Nat \ {0} /\ i \in DOMAIN words /\ words[i] \notin Vis \cup OrderWords
    BY <1>2, <1>3
  <2>3. k # None /\ k \in Vis
    BY <1>1, <2>1, <2>2, KeywordIs DEF Ordered
  <2> QED BY <1>v, <2>1, <2>3 DEF VisAt
<1>5. PICK items : items = ItemsOf(words, visOf, OrderWords, "PRIVATE")
  OBVIOUS
<1>6. items = {[word |-> words[i], vis |-> KeywordBefore(words, i, Vis)] : i \in J}
  <2>1. items = {[word |-> words[i], vis |-> VisAt(words, i, visOf, "PRIVATE")] : i \in J}
    BY <1>3, <1>5, <1>v DEF ItemsOf
  <2> QED BY <1>4, <2>1
<1>7. /\ \A x \in items : \E i \in J : x.word = words[i] /\ x.vis = KeywordBefore(words, i, Vis)
      /\ \A i \in J : \E x \in items : x.word = words[i] /\ x.vis = KeywordBefore(words, i, Vis)
  <2>1. ASSUME NEW i \in J PROVE \E x \in items : x.word = words[i] /\ x.vis = KeywordBefore(words, i, Vis)
    <3>1. [word |-> words[i], vis |-> KeywordBefore(words, i, Vis)] \in items
      BY <1>6
    <3> QED BY <3>1
  <2> QED BY <1>6, <2>1
<1>8. ReqItems(c, n, viss) = {ReqItemOf(c, [word |-> words[i]], n) :
                                i \in {j \in J : KeywordBefore(words, j, Vis) \in viss}}
  BY <1>1, <1>2, <1>3 DEF ReqItems, ReqItemOf
<1>9. ASSUME NEW x, NEW w, x.word = w PROVE ReqItemOf(c, x, n) = ReqItemOf(c, [word |-> w], n)
  BY <1>9 DEF ReqItemOf
<1>10. ASSUME NEW i \in J, KeywordBefore(words, i, Vis) \in viss
       PROVE  \E x \in items : x.vis \in viss /\ ReqItemOf(c, x, n) = ReqItemOf(c, [word |-> words[i]], n)
  BY <1>7, <1>9, <1>10
<1>11. ASSUME NEW x \in items, x.vis \in viss
       PROVE  \E i \in J : /\ KeywordBefore(words, i, Vis) \in viss
                           /\ ReqItemOf(c, x, n) = ReqItemOf(c, [word |-> words[i]], n)
  BY <1>7, <1>9, <1>11
<1>12. ReqItems(c, n, viss) = {ReqItemOf(c, x, n) : x \in {y \in items : y.vis \in viss}}
  BY <1>8, <1>10, <1>11
<1> QED BY <1>1, <1>5, <1>12, <1>v DEF ItemsOfReqs

LEMMA RequirementRows ==
    ASSUME DirectoryInv, NamesInv, LinksInv, ReqsInv, NEW c \in Calls, Requirement(c)
    PROVE  NamesInv' /\ LinksInv' /\ ReqsInv'
<1>t. PICK t : t = c.args[1]
  OBVIOUS
<1>n. PICK n : n = Now
  OBVIOUS
<1>o. PICK own : own = ReqItems(c, n, {"PUBLIC", "PRIVATE"})
  OBVIOUS
<1>x. PICK exported : exported = ReqItems(c, n, {"PUBLIC", "INTERFACE"})
  OBVIOUS
<1>1. /\ c.args # <<>> /\ t \in Real /\ Log(c) /\ c.cmd \in DOMAIN ReqKind
      /\ UNCHANGED <<project, scopes, stack, targets, edges>>
      /\ reqs' = reqs \o ReqRows(c, n)
      /\ world' = [world EXCEPT !.own[t] = @ \cup own, !.iface[t] = @ \cup exported]
      /\ Ordered(c)
  BY <1>t, <1>n, <1>o, <1>x DEF Requirement, Ordered
<1>2. DOMAIN world = Fields /\ DOMAIN world.own = Real /\ DOMAIN world.iface = Real
  BY DEF DirectoryInv, TypeInv, TargetsInv, NamesInv
<1>3. /\ DOMAIN world' = Fields /\ world'.dir = world.dir /\ world'.props = world.props
      /\ world'.links = world.links /\ world'.ilinks = world.ilinks
      /\ DOMAIN world'.own = Real /\ DOMAIN world'.iface = Real
      /\ world'.own[t] = world.own[t] \cup own
      /\ world'.iface[t] = world.iface[t] \cup exported
      /\ \A u \in Real : u # t => world'.own[u] = world.own[u] /\ world'.iface[u] = world.iface[u]
  BY <1>1, <1>2 DEF Fields
<1>4. /\ Longer /\ Real' = Real /\ Len(events) \in Nat /\ n = Len(events) + 1 /\ Len(events') = n
      /\ events'[n].c = c
  BY <1>1, <1>3, <1>n, CallAbout
<1>5. NamesInv'
  BY <1>1, <1>3, <1>4 DEF NamesInv
<1>6. LinksInv'
  BY <1>1, <1>3, <1>4, LinksQuiet
<1>7. PICK items : items = ItemsOfReqs(c)
  OBVIOUS
<1>8. PICK rows : rows = ReqRows(c, n)
  OBVIOUS
<1>9. PICK new : new = ToSet(rows)
  OBVIOUS
<1>10. /\ rows \in Seq(ReqRow) /\ items \subseteq [word : Words, vis : Vis]
       /\ new = {ReqRowOf(c, x, n) : x \in items}
  <2>1. n \in Nat
    BY <1>4
  <2>2. PICK made : made = {ReqRowOf(c, x, n) : x \in ItemsOfReqs(c)}
    OBVIOUS
  <2>3. rows \in Seq(ReqRow) /\ ToSet(rows) = made /\ items \subseteq [word : Words, vis : Vis]
    BY <1>1, <1>7, <1>8, <2>1, <2>2, ReqRowsAre
  <2> QED BY <1>7, <1>9, <2>2, <2>3
<1>11. /\ own = {ReqItemOf(c, x, n) : x \in {y \in items : y.vis \in {"PUBLIC", "PRIVATE"}}}
       /\ exported = {ReqItemOf(c, x, n) : x \in {y \in items : y.vis \in {"PUBLIC", "INTERFACE"}}}
  <2>1. ASSUME NEW viss
        PROVE  ReqItems(c, n, viss) = {ReqItemOf(c, x, n) : x \in {y \in items : y.vis \in viss}}
    <3>1. PICK made : made = {ReqItemOf(c, x, n) : x \in {y \in ItemsOfReqs(c) : y.vis \in viss}}
      OBVIOUS
    <3>2. ReqItems(c, n, viss) = made
      BY <1>1, <3>1, ReqItemsAre
    <3> QED BY <1>7, <3>1, <3>2
  <2> QED BY <1>o, <1>x, <2>1
<1>12. reqs' \in Seq(ReqRow) /\ ToSet(reqs') = ToSet(reqs) \cup new
  <2>1. reqs \in Seq(ReqRow)
    BY DEF ReqsInv
  <2>2. reqs \o rows \in Seq(ReqRow) /\ ToSet(reqs \o rows) = ToSet(reqs) \cup ToSet(rows)
    BY <1>10, <2>1, ConcatSet
  <2> QED BY <1>1, <1>8, <1>9, <2>2
<1>13. ASSUME NEW x \in items
       PROVE  /\ IsRowOf(ReqRowOf(c, x, n), ReqItemOf(c, x, n))
              /\ ReqRowOf(c, x, n).tgt = t /\ ReqRowOf(c, x, n).vis = x.vis
              /\ ReqRowOf(c, x, n).ev = n /\ x.vis \in Vis
              /\ ReqItemOf(c, x, n).sys <=> "SYSTEM" \in ToSet(Tail(c.args))
              /\ ReqItemOf(c, x, n).ev = n
  <2>1. PICK w : w = IF ReqKind[c.cmd] = "define" THEN Strip(x.word) ELSE x.word
    OBVIOUS
  <2>2. PICK v : v = Meaning(w, ReqKind[c.cmd], Here)
    OBVIOUS
  <2>3. v[2] = w
    BY <2>2, MeaningIs
  <2>4. PICK q, i : q = ReqRowOf(c, x, n) /\ i = ReqItemOf(c, x, n)
    OBVIOUS
  <2>5. q = [tgt |-> t, kind |-> ReqKind[c.cmd], vis |-> x.vis, ev |-> n, value |-> w]
    BY <1>t, <2>1, <2>4 DEF ReqRowOf
  <2>6. i = [kind |-> ReqKind[c.cmd], ev |-> n, sys |-> "SYSTEM" \in ToSet(Tail(c.args)), value |-> v]
    BY <2>1, <2>2, <2>4 DEF ReqItemOf
  <2>7. x.vis \in Vis
    BY <1>10
  <2>8. IsRowOf(q, i)
    BY <2>3, <2>5, <2>6 DEF IsRowOf
  <2>9. i.sys <=> "SYSTEM" \in ToSet(Tail(c.args))
    BY <2>6
  <2>10. q.tgt = t /\ q.vis = x.vis /\ q.ev = n /\ i.ev = n
    BY <2>5, <2>6
  <2> QED BY <2>4, <2>7, <2>8, <2>9, <2>10
<1>14. ASSUME NEW q \in new PROVE ReqRowOk(q)'
  <2>1. PICK x \in items : q = ReqRowOf(c, x, n)
    BY <1>10
  <2>2. PICK i : i = ReqItemOf(c, x, n)
    OBVIOUS
  <2>3. IsRowOf(q, i) /\ q.tgt = t /\ q.vis = x.vis /\ q.ev = n /\ x.vis \in Vis
    BY <1>13, <2>1, <2>2
  <2>4. q.vis # "INTERFACE" => i \in world'.own[t]
    BY <1>3, <1>11, <2>2, <2>3 DEF Vis
  <2>5. q.vis # "PRIVATE" => i \in world'.iface[t]
    BY <1>3, <1>11, <2>2, <2>3 DEF Vis
  <2>6. q.tgt \in Real' /\ q.ev \in 1..Len(events') /\ events'[q.ev].c.cmd \in DOMAIN ReqKind
        /\ q.tgt = events'[q.ev].c.args[1]
    BY <1>1, <1>4, <1>t, <2>3
  <2> QED BY <2>3, <2>4, <2>5, <2>6 DEF ReqRowOk
<1>15. ASSUME NEW i \in own PROVE ReqHasRow(new, t, i, "PRIVATE")
  <2>1. PICK x \in items : i = ReqItemOf(c, x, n) /\ x.vis \in {"PUBLIC", "PRIVATE"}
    BY <1>11
  <2>2. PICK q : q = ReqRowOf(c, x, n)
    OBVIOUS
  <2>3. q \in new /\ q.tgt = t /\ q.vis = x.vis /\ IsRowOf(q, i)
    BY <1>10, <1>13, <2>1, <2>2
  <2> QED BY <2>1, <2>3 DEF ReqHasRow
<1>16. ASSUME NEW i \in exported
       PROVE  ReqHasRow(new, t, i, "INTERFACE") /\ (i.sys <=> HasSystem(i.ev)')
  <2>1. PICK x \in items : i = ReqItemOf(c, x, n) /\ x.vis \in {"PUBLIC", "INTERFACE"}
    BY <1>11
  <2>2. PICK q : q = ReqRowOf(c, x, n)
    OBVIOUS
  <2>3. q \in new /\ q.tgt = t /\ q.vis = x.vis /\ IsRowOf(q, i)
    BY <1>10, <1>13, <2>1, <2>2
  <2>4. i.ev = n /\ (i.sys <=> "SYSTEM" \in ToSet(Tail(c.args)))
    BY <1>13, <2>1
  <2>5. "SYSTEM" \in ToSet(Tail(c.args)) <=> "SYSTEM" \in ToSet(c.args)
    BY <1>1, CallWords DEF CallOk
  <2> QED BY <1>4, <2>1, <2>3, <2>4, <2>5 DEF ReqHasRow, HasSystem
<1>17. ASSUME NEW u \in Real PROVE ReqsMove(u, new)
  <2>1. CASE u = t
    BY <1>3, <1>15, <1>16, <2>1 DEF ReqsMove
  <2>2. CASE u # t
    BY <1>3, <2>2 DEF ReqsMove
  <2> QED BY <2>1, <2>2
<1>18. ReqsInv'
  <2>1. TargetsInv
    BY DEF DirectoryInv
  <2>2. PropsMove
    BY <1>3 DEF PropsMove
  <2> QED BY <1>4, <1>12, <1>14, <1>17, <2>1, <2>2, ReqsCarry
<1> QED BY <1>5, <1>6, <1>18

\* The rows of a property that is set.
PropLinkOf(c, w, n) == [src |-> c.tgt, dst |-> w, vis |-> "INTERFACE", ev |-> n]

PropReqOf(c, w, n) ==
    [tgt |-> c.tgt, kind |-> PropKind[c.prop], vis |-> "INTERFACE", ev |-> n, value |-> w]

LEMMA PropRowsAre ==
    ASSUME NEW c \in Calls, NEW n \in Nat
    PROVE  /\ PropLinks(c, n) \in Seq(LinkRow) /\ PropReqs(c, n) \in Seq(ReqRow)
           /\ c.prop = "INTERFACE_LINK_LIBRARIES" =>
                ToSet(PropLinks(c, n)) = {PropLinkOf(c, w, n) : w \in ToSet(c.args)}
           /\ c.prop # "INTERFACE_LINK_LIBRARIES" => ToSet(PropLinks(c, n)) = {}
           /\ c.prop \in DOMAIN PropKind =>
                ToSet(PropReqs(c, n)) = {PropReqOf(c, w, n) : w \in ToSet(c.args)}
           /\ c.prop \notin DOMAIN PropKind => ToSet(PropReqs(c, n)) = {}
<1>1. PICK args : args = c.args
  OBVIOUS
<1>2. args \in Seq(Words) /\ c.tgt \in Named /\ "INTERFACE" \in Vis
  BY <1>1, CallWords DEF Vis
<1>3. DOMAIN args = 1..Len(args) /\ Len(args) \in Nat /\ \A i \in 1..Len(args) : args[i] \in Words
  BY <1>2, LenProperties
<1>4. ToSet(<<>>) = {} /\ <<>> \in Seq(LinkRow) /\ <<>> \in Seq(ReqRow)
  BY DEF ToSet
<1>5. ASSUME c.prop = "INTERFACE_LINK_LIBRARIES"
      PROVE  /\ PropLinks(c, n) \in Seq(LinkRow)
             /\ ToSet(PropLinks(c, n)) = {PropLinkOf(c, w, n) : w \in ToSet(args)}
  <2>1. PICK f : f = [w \in Words |-> PropLinkOf(c, w, n)]
    OBVIOUS
  <2>2. Into(f, Words, LinkRow) /\ \A w \in Words : f[w] = PropLinkOf(c, w, n)
    BY <1>2, <2>1 DEF LinkRow, PropLinkOf, Into
  <2>3. PropLinks(c, n) = Mapped(args, f)
    <3>1. PropLinks(c, n) = [i \in DOMAIN args |-> PropLinkOf(c, args[i], n)]
      BY <1>1, <1>5 DEF PropLinks, PropLinkOf
    <3> QED BY <1>3, <2>2, <3>1 DEF Mapped
  <2>4. Mapped(args, f) \in Seq(LinkRow) /\ ToSet(Mapped(args, f)) = Images(f, ToSet(args)) /\ ToSet(args) \subseteq Words
    BY <1>2, <2>2, MappedSet
  <2>5. Images(f, ToSet(args)) = {PropLinkOf(c, w, n) : w \in ToSet(args)}
    BY <2>2, <2>4 DEF Images
  <2> QED BY <2>3, <2>4, <2>5
<1>6. ASSUME c.prop \in DOMAIN PropKind
      PROVE  /\ PropReqs(c, n) \in Seq(ReqRow)
             /\ ToSet(PropReqs(c, n)) = {PropReqOf(c, w, n) : w \in ToSet(args)}
  <2>1. PICK f : f = [w \in Words |-> PropReqOf(c, w, n)]
    OBVIOUS
  <2>2. Into(f, Words, ReqRow) /\ \A w \in Words : f[w] = PropReqOf(c, w, n)
    <3>1. PropKind[c.prop] \in Kinds
      BY <1>6 DEF Kinds
    <3> QED BY <1>2, <2>1, <3>1 DEF ReqRow, PropReqOf, Into
  <2>3. PropReqs(c, n) = Mapped(args, f)
    <3>1. PropReqs(c, n) = [i \in DOMAIN args |-> PropReqOf(c, args[i], n)]
      BY <1>1, <1>6 DEF PropReqs, PropReqOf
    <3> QED BY <1>3, <2>2, <3>1 DEF Mapped
  <2>4. Mapped(args, f) \in Seq(ReqRow) /\ ToSet(Mapped(args, f)) = Images(f, ToSet(args)) /\ ToSet(args) \subseteq Words
    BY <1>2, <2>2, MappedSet
  <2>5. Images(f, ToSet(args)) = {PropReqOf(c, w, n) : w \in ToSet(args)}
    BY <2>2, <2>4 DEF Images
  <2> QED BY <2>3, <2>4, <2>5
<1>7. c.prop # "INTERFACE_LINK_LIBRARIES" => PropLinks(c, n) = <<>>
  BY DEF PropLinks
<1>8. c.prop \notin DOMAIN PropKind => PropReqs(c, n) = <<>>
  BY DEF PropReqs
<1> QED BY <1>1, <1>4, <1>5, <1>6, <1>7, <1>8

\* A property that is set without APPEND is reset.
LEMMA ResetNow ==
    ASSUME NEW n, Len(events') = n, n \in Nat, events'[n].c.cmd \in Setters, ~events'[n].c.append,
           NEW ev \in 1..(n - 1), NEW props, events'[n].c.prop \in props,
           NEW t, t = events'[n].c.tgt
    PROVE  ResetAfter(ev, t, props)'
<1>1. n \in (ev + 1)..Len(events')
  OBVIOUS
<1> QED BY <1>1 DEF ResetAfter, Setters

LEMMA SetPropertyRows ==
    ASSUME DirectoryInv, NamesInv, LinksInv, ReqsInv, NEW c \in Calls, SetProperty(c)
    PROVE  NamesInv' /\ LinksInv' /\ ReqsInv'
<1>t. PICK t : t = c.tgt
  OBVIOUS
<1>n. PICK n : n = Now
  OBVIOUS
<1>1. /\ t \in Real /\ Log(c) /\ c.cmd \in Setters
      /\ UNCHANGED <<project, scopes, stack, targets>>
      /\ edges' = edges \o PropLinks(c, n) /\ reqs' = reqs \o PropReqs(c, n)
      /\ world' = IF c.prop = "INTERFACE_LINK_LIBRARIES"
                  THEN [world EXCEPT !.ilinks[t] =
                          (IF c.append THEN @ ELSE {}) \cup {[dst |-> w, ev |-> n] : w \in ToSet(c.args)}]
                  ELSE IF c.prop \in DOMAIN PropKind
                  THEN [world EXCEPT !.iface[t] =
                          {q \in @ : c.append \/ q.kind # PropKind[c.prop]} \cup PropItems(c, n)]
                  ELSE world
  BY <1>t, <1>n DEF SetProperty, Setters
<1>2. DOMAIN world = Fields /\ DOMAIN world.ilinks = Real /\ DOMAIN world.iface = Real
  BY DEF DirectoryInv, TypeInv, NamesInv
<1>3. /\ DOMAIN world' = Fields /\ world'.dir = world.dir /\ world'.props = world.props
      /\ world'.own = world.own /\ world'.links = world.links
      /\ DOMAIN world'.ilinks = Real /\ DOMAIN world'.iface = Real
  BY <1>1, <1>2 DEF Fields
<1>4. /\ Longer /\ Real' = Real /\ Len(events) \in Nat /\ n = Len(events) + 1 /\ Len(events') = n
      /\ events'[n].c = c /\ n \in Nat /\ n \in 1..Len(events') /\ n - 1 = Len(events)
  BY <1>1, <1>3, <1>n, CallAbout
<1>5. NamesInv'
  BY <1>1, <1>3, <1>4 DEF NamesInv
<1>6. PICK lrows, rrows : lrows = PropLinks(c, n) /\ rrows = PropReqs(c, n)
  OBVIOUS
<1>7. /\ lrows \in Seq(LinkRow) /\ rrows \in Seq(ReqRow)
      /\ c.prop = "INTERFACE_LINK_LIBRARIES" =>
           ToSet(lrows) = {PropLinkOf(c, w, n) : w \in ToSet(c.args)}
      /\ c.prop # "INTERFACE_LINK_LIBRARIES" => ToSet(lrows) = {}
      /\ c.prop \in DOMAIN PropKind =>
           ToSet(rrows) = {PropReqOf(c, w, n) : w \in ToSet(c.args)}
      /\ c.prop \notin DOMAIN PropKind => ToSet(rrows) = {}
  BY <1>4, <1>6, PropRowsAre
<1>8. edges' \in Seq(LinkRow) /\ ToSet(edges') = ToSet(edges) \cup ToSet(lrows)
  <2>1. edges \in Seq(LinkRow)
    BY DEF LinksInv
  <2> QED BY <1>1, <1>6, <1>7, <2>1, ConcatSet
<1>9. reqs' \in Seq(ReqRow) /\ ToSet(reqs') = ToSet(reqs) \cup ToSet(rrows)
  <2>1. reqs \in Seq(ReqRow)
    BY DEF ReqsInv
  <2> QED BY <1>1, <1>6, <1>7, <2>1, ConcatSet
<1>10. LinksInv'
  <2>1. PICK new : new = ToSet(lrows)
    OBVIOUS
  <2>2. CASE c.prop # "INTERFACE_LINK_LIBRARIES"
    <3>1. new = {} /\ world'.ilinks = world.ilinks
      BY <1>1, <1>2, <1>7, <2>1, <2>2 DEF Fields
    <3>2. \A u \in Real : LinksMove(u, new)
      BY <1>3, <3>1 DEF LinksMove
    <3> QED BY <1>4, <1>8, <2>1, <3>1, <3>2, LinksCarry
  <2>3. CASE c.prop = "INTERFACE_LINK_LIBRARIES"
    <3>1. PICK added : added = {[dst |-> w, ev |-> n] : w \in ToSet(c.args)}
      OBVIOUS
    <3>2. /\ world'.ilinks[t] = (IF c.append THEN world.ilinks[t] ELSE {}) \cup added
          /\ \A u \in Real : u # t => world'.ilinks[u] = world.ilinks[u]
      BY <1>1, <1>2, <2>3, <3>1 DEF Fields
    <3>3. new = {PropLinkOf(c, w, n) : w \in ToSet(c.args)}
      BY <1>7, <2>1, <2>3
    <3>4. ASSUME NEW e \in new PROVE LinkRowOk(e)'
      <4>1. PICK w \in ToSet(c.args) : e = PropLinkOf(c, w, n)
        BY <3>3
      <4>2. e.src = t /\ e.dst = w /\ e.vis = "INTERFACE" /\ e.ev = n
        BY <1>t, <4>1 DEF PropLinkOf
      <4>3. [dst |-> w, ev |-> n] \in world'.ilinks[t]
        BY <3>1, <3>2
      <4> QED BY <1>1, <1>4, <4>2, <4>3 DEF LinkRowOk, ExportedLink
    <3>5. ASSUME NEW l \in added PROVE LinkHasRow(new, t, l, "INTERFACE")
      <4>1. PICK w \in ToSet(c.args) : l = [dst |-> w, ev |-> n]
        BY <3>1
      <4>2. PICK e : e = PropLinkOf(c, w, n)
        OBVIOUS
      <4>3. e \in new /\ e.src = t /\ e.dst = w /\ e.vis = "INTERFACE" /\ e.ev = n
        BY <1>t, <3>3, <4>2 DEF PropLinkOf
      <4> QED BY <4>1, <4>3 DEF LinkHasRow
    <3>6. ASSUME ~c.append, NEW e \in ToSet(edges), e.src = t PROVE LinkReset(e)'
      <4>1. e.ev \in 1..(n - 1)
        BY <1>4 DEF LinksInv, LinkRowOk
      <4>2. ResetAfter(e.ev, t, {"INTERFACE_LINK_LIBRARIES"})'
        BY <1>1, <1>4, <1>t, <2>3, <3>6, <4>1, ResetNow
      <4> QED BY <3>6, <4>2 DEF LinkReset
    <3>7. ASSUME NEW u \in Real PROVE LinksMove(u, new)
      <4>1. CASE u = t
        BY <1>3, <3>2, <3>5, <3>6, <4>1 DEF LinksMove
      <4>2. CASE u # t
        BY <1>3, <3>2, <4>2 DEF LinksMove
      <4> QED BY <4>1, <4>2
    <3> QED BY <1>4, <1>8, <2>1, <3>4, <3>7, LinksCarry
  <2> QED BY <2>2, <2>3
<1>11. PropsMove /\ TargetsInv
  BY <1>3 DEF PropsMove, DirectoryInv
<1>12. ReqsInv'
  <2>1. PICK new : new = ToSet(rrows)
    OBVIOUS
  <2>2. CASE c.prop \notin DOMAIN PropKind
    <3>1. new = {} /\ world'.iface = world.iface
      BY <1>1, <1>2, <1>7, <2>1, <2>2 DEF Fields
    <3>2. \A u \in Real : ReqsMove(u, new)
      BY <1>3, <3>1 DEF ReqsMove
    <3> QED BY <1>4, <1>9, <1>11, <2>1, <3>1, <3>2, ReqsCarry
  <2>3. CASE c.prop \in DOMAIN PropKind
    <3>0. c.prop # "INTERFACE_LINK_LIBRARIES"
      BY <2>3 DEF PropKind
    <3>k. PICK kind : kind = PropKind[c.prop]
      OBVIOUS
    <3>1. PICK added : added = PropItems(c, n)
      OBVIOUS
    <3>2. /\ world'.iface[t] = {q \in world.iface[t] : c.append \/ q.kind # kind} \cup added
          /\ \A u \in Real : u # t => world'.iface[u] = world.iface[u]
      BY <1>1, <1>2, <2>3, <3>0, <3>1, <3>k DEF Fields
    <3>3. new = {PropReqOf(c, w, n) : w \in ToSet(c.args)}
      BY <1>7, <2>1, <2>3
    <3>4. /\ \A i \in added : \E w \in ToSet(c.args) : i.kind = kind /\ i.value[2] = w /\ ~i.sys /\ i.ev = n
          /\ \A w \in ToSet(c.args) : \E i \in added : i.kind = kind /\ i.value[2] = w /\ i.ev = n
      <4>1. PICK here : here = Here
        OBVIOUS
      <4>2. added = {[kind |-> kind, value |-> Meaning(w, kind, here), sys |-> FALSE, ev |-> n] : w \in ToSet(c.args)}
        BY <3>1, <3>k, <4>1 DEF PropItems
      <4>3. ASSUME NEW w \in ToSet(c.args)
            PROVE  \E i \in added : i.kind = kind /\ i.value[2] = w /\ i.ev = n
        <5>1. PICK v : v = Meaning(w, kind, here)
          OBVIOUS
        <5>2. [kind |-> kind, value |-> v, sys |-> FALSE, ev |-> n] \in added /\ v[2] = w
          BY <4>2, <5>1, MeaningIs
        <5> QED BY <5>2
      <4>4. ASSUME NEW i \in added
            PROVE  \E w \in ToSet(c.args) : i.kind = kind /\ i.value[2] = w /\ ~i.sys /\ i.ev = n
        <5>1. PICK w \in ToSet(c.args) :
                 i = [kind |-> kind, value |-> Meaning(w, kind, here), sys |-> FALSE, ev |-> n]
          BY <4>2
        <5>2. PICK v : v = Meaning(w, kind, here)
          OBVIOUS
        <5>3. i = [kind |-> kind, value |-> v, sys |-> FALSE, ev |-> n] /\ v[2] = w
          BY <5>1, <5>2, MeaningIs
        <5> QED BY <5>3
      <4> QED BY <4>3, <4>4
    <3>5. ASSUME NEW q \in new PROVE ReqRowOk(q)'
      <4>1. PICK w \in ToSet(c.args) : q = PropReqOf(c, w, n)
        BY <3>3
      <4>2. q.tgt = t /\ q.value = w /\ q.vis = "INTERFACE" /\ q.ev = n /\ q.kind = kind
        BY <1>t, <3>k, <4>1 DEF PropReqOf
      <4>3. PICK i \in added : i.kind = kind /\ i.value[2] = w /\ i.ev = n
        BY <3>4
      <4>4. i \in world'.iface[t] /\ IsRowOf(q, i)
        BY <3>2, <4>2, <4>3 DEF IsRowOf
      <4>5. q.tgt \in Real' /\ q.ev \in 1..Len(events') /\ events'[q.ev].c.cmd \in Setters
            /\ q.tgt = events'[q.ev].c.tgt
        BY <1>1, <1>4, <1>t, <4>2
      <4> QED BY <4>2, <4>4, <4>5 DEF ReqRowOk
    <3>6. ASSUME NEW i \in added
          PROVE  ReqHasRow(new, t, i, "INTERFACE") /\ (i.sys <=> HasSystem(i.ev)')
      <4>1. PICK w \in ToSet(c.args) : i.kind = kind /\ i.value[2] = w /\ ~i.sys /\ i.ev = n
        BY <3>4
      <4>2. PICK q : q = PropReqOf(c, w, n)
        OBVIOUS
      <4>3. q \in new /\ q.tgt = t /\ q.value = w /\ q.vis = "INTERFACE" /\ q.ev = n /\ q.kind = kind
        BY <1>t, <3>3, <3>k, <4>2 DEF PropReqOf
      <4>4. ~HasSystem(n)'
        BY <1>1, <1>4, CallWords DEF CallOk, HasSystem, Setters
      <4> QED BY <4>1, <4>3, <4>4 DEF ReqHasRow, IsRowOf
    <3>7. ASSUME NEW i \in world.iface[t], i \notin world'.iface[t],
                 NEW q \in ToSet(reqs), q.tgt = t, IsRowOf(q, i)
          PROVE  ReqReset(q)'
      <4>1. ~c.append /\ q.kind = kind
        BY <3>2, <3>7 DEF IsRowOf
      <4>2. q.ev \in 1..(n - 1)
        BY <1>4 DEF ReqsInv, ReqRowOk
      <4>3. PICK props : props = {p \in DOMAIN PropKind : PropKind[p] = q.kind}
        OBVIOUS
      <4>4. c.prop \in props
        BY <2>3, <3>k, <4>1, <4>3
      <4>5. ResetAfter(q.ev, t, props)'
        BY <1>1, <1>4, <1>t, <4>1, <4>2, <4>4, ResetNow
      <4> QED BY <3>7, <4>3, <4>5 DEF ReqReset
    <3>8. ASSUME NEW u \in Real PROVE ReqsMove(u, new)
      <4>1. CASE u = t
        BY <1>3, <3>2, <3>6, <3>7, <4>1 DEF ReqsMove
      <4>2. CASE u # t
        BY <1>3, <3>2, <4>2 DEF ReqsMove
      <4> QED BY <4>1, <4>2
    <3> QED BY <1>4, <1>9, <1>11, <2>1, <3>5, <3>8, ReqsCarry
  <2> QED BY <2>2, <2>3
<1> QED BY <1>5, <1>10, <1>12

LEMMA AddTargetRows ==
    ASSUME DirectoryInv, DirectoryInv', NamesInv, LinksInv, ReqsInv, NEW c \in Calls, AddTarget(c)
    PROVE  NamesInv' /\ LinksInv' /\ ReqsInv'
<1>m. PICK name : name = c.args[1]
  OBVIOUS
<1>n. PICK n : n = Now
  OBVIOUS
<1>t. PICK t : t = TargetOf(c, n)
  OBVIOUS
<1>1. /\ c.args # <<>> /\ Log(c) /\ UNCHANGED <<project, scopes, stack, edges, reqs>>
      /\ c.cmd \notin DOMAIN DirKind /\ name \notin DOMAIN targets /\ targets' = Put(targets, name, t)
      /\ t.alias # None => t.alias \in Real
  BY <1>m, <1>n, <1>t, DirCommandNames DEF AddTarget
<1>2. /\ t.alias # None => world' = world
      /\ t.alias = None =>
           world' = [world EXCEPT
                        !.home = Put(@, name, Here),
                        !.own = Put(@, name, IF t.imported \/ t.type \in {"INTERFACE", "UTILITY"}
                                             THEN {} ELSE world.props[Here]),
                        !.iface = Put(@, name, {}), !.links = Put(@, name, {}),
                        !.ilinks = Put(@, name, {})]
  BY <1>m, <1>n, <1>t DEF AddTarget
<1>3. /\ DOMAIN world = Fields /\ DOMAIN world.own = Real /\ DOMAIN world.iface = Real
      /\ DOMAIN world.links = Real /\ DOMAIN world.ilinks = Real
  BY DEF DirectoryInv, TypeInv, TargetsInv, NamesInv
<1>4. /\ DOMAIN world' = Fields /\ world'.dir = world.dir /\ world'.props = world.props
  BY <1>2, <1>3 DEF Fields
<1>5. /\ Longer /\ Len(events) \in Nat /\ n = Len(events) + 1 /\ Len(events') = n
  BY <1>1, <1>4, <1>n, CallKeeps
<1>6. /\ DOMAIN targets' = {name} \cup DOMAIN targets /\ targets'[name] = t
      /\ \A u \in DOMAIN targets : targets'[u] = targets[u]
  BY <1>1 DEF Put
<1>7. /\ Real \subseteq Real' /\ name \notin Real /\ \A u \in Real' : u \in Real \/ u = name
      /\ t.alias = None => name \in Real'
      /\ t.alias # None => Real' = Real
  BY <1>1, <1>6 DEF Real
<1>8. name # None
  <2>1. PICK args : args = c.args
    OBVIOUS
  <2>2. args \in Seq(Words) /\ CallOk(c) /\ args # <<>>
    BY <1>1, <2>1, CallWords
  <2>3. 1 \in 1..Len(args)
    <3>1. Len(args) \in Nat /\ Len(args) # 0
      BY <2>2, EmptySeq, LenProperties
    <3> QED BY <3>1
  <2> QED BY <1>m, <2>1, <2>2, <2>3 DEF CallOk
<1>9. /\ DOMAIN world'.links = Real' /\ DOMAIN world'.ilinks = Real' /\ DOMAIN world'.iface = Real'
      /\ \A u \in Real : /\ world'.links[u] = world.links[u] /\ world'.ilinks[u] = world.ilinks[u]
                         /\ world'.iface[u] = world.iface[u] /\ world'.own[u] = world.own[u]
      /\ \A u \in Real' \ Real :
            /\ world'.links[u] = {} /\ world'.ilinks[u] = {} /\ world'.iface[u] = {}
            /\ world'.own[u] = {} \/ world'.own[u] = world.props[Here]
  <2>1. CASE t.alias # None
    BY <1>2, <1>3, <1>7, <2>1
  <2>2. CASE t.alias = None
    <3>1. Real' = {name} \cup Real
      BY <1>7, <2>2
    <3>2. /\ world'.links = Put(world.links, name, {}) /\ world'.ilinks = Put(world.ilinks, name, {})
          /\ world'.iface = Put(world.iface, name, {})
          /\ \/ world'.own = Put(world.own, name, {})
             \/ world'.own = Put(world.own, name, world.props[Here])
      BY <1>2, <1>3, <2>2 DEF Fields
    <3>3. ASSUME NEW f, DOMAIN f = Real, NEW v
          PROVE  /\ DOMAIN Put(f, name, v) = Real' /\ Put(f, name, v)[name] = v
                 /\ \A u \in Real : Put(f, name, v)[u] = f[u]
      BY <1>7, <3>1, <3>3 DEF Put
    <3>4. DOMAIN world.links = Real /\ DOMAIN world.ilinks = Real /\ DOMAIN world.iface = Real /\ DOMAIN world.own = Real
      BY <1>3
    <3>5. /\ DOMAIN world'.links = Real' /\ world'.links[name] = {}
          /\ \A u \in Real : world'.links[u] = world.links[u]
      BY <3>2, <3>3, <3>4
    <3>6. /\ DOMAIN world'.ilinks = Real' /\ world'.ilinks[name] = {}
          /\ \A u \in Real : world'.ilinks[u] = world.ilinks[u]
      BY <3>2, <3>3, <3>4
    <3>7. /\ DOMAIN world'.iface = Real' /\ world'.iface[name] = {}
          /\ \A u \in Real : world'.iface[u] = world.iface[u]
      BY <3>2, <3>3, <3>4
    <3>8. /\ world'.own[name] = {} \/ world'.own[name] = world.props[Here]
          /\ \A u \in Real : world'.own[u] = world.own[u]
      BY <3>2, <3>3, <3>4
    <3> QED BY <1>7, <3>5, <3>6, <3>7, <3>8
  <2> QED BY <2>1, <2>2
<1>10. NamesInv'
  <2>1. IsFiniteSet(DOMAIN targets')
    <3>1. IsFiniteSet({name} \cup DOMAIN targets)
      BY FS_AddElement DEF NamesInv
    <3> QED BY <1>6, <3>1
  <2>2. ASSUME NEW u \in DOMAIN targets', targets'[u].alias # None
        PROVE  targets'[u].alias \in Real'
    <3>1. CASE u = name
      BY <1>1, <1>6, <1>7, <2>2, <3>1
    <3>2. CASE u # name
      BY <1>6, <1>7, <2>2, <3>2 DEF NamesInv
    <3> QED BY <3>1, <3>2
  <2>3. None \notin DOMAIN targets'
    BY <1>6, <1>8 DEF NamesInv
  <2> QED BY <1>9, <2>1, <2>2, <2>3 DEF NamesInv
<1>11. LinksInv'
  BY <1>1, <1>5, <1>7, <1>9, LinksQuiet
<1>12. ReqsInv'
  <2>1. TargetsInv /\ PropsMove
    BY <1>4 DEF DirectoryInv, PropsMove
  <2>2. Here \in DOMAIN world.props
    <3>1. PropsInv /\ Len(world.dir) > 0 /\ world.dir \in Seq(Nat)
      BY DEF DirectoryInv, TreeInv, TypeInv
    <3>2. Here = world.dir[Len(world.dir)] /\ Len(world.dir) \in 1..Len(world.dir)
      BY <3>1, LenProperties DEF Here, Last
    <3> QED BY <3>1, <3>2 DEF PropsInv, DirOk
  <2>3. ASSUME NEW u \in Real' \ Real, NEW i \in world'.own[u] PROVE IsDir(i.ev)'
    <3>1. i \in world.props[Here]
      BY <1>9, <2>3
    <3>2. IsDir(i.ev) /\ i.ev \in 1..Len(events)
      BY <2>2, <3>1 DEF ReqsInv
    <3> QED BY <1>5, <3>2 DEF IsDir, Longer
  <2> QED BY <1>1, <1>5, <1>7, <1>9, <2>1, <2>3, ReqsQuiet
<1> QED BY <1>10, <1>11, <1>12

LEMMA DirectoryCommandRows ==
    ASSUME DirectoryInv, NamesInv, LinksInv, ReqsInv, NEW c \in Calls, DirectoryCommand(c)
    PROVE  NamesInv' /\ LinksInv' /\ ReqsInv'
<1>n. PICK n : n = Now
  OBVIOUS
<1>h. PICK here : here = Here
  OBVIOUS
<1>w. PICK new : new = DirItems(c, n, here)
  OBVIOUS
<1>1. /\ Log(c) /\ UNCHANGED <<project, scopes, stack, targets, edges, reqs>> /\ c.cmd \in DOMAIN DirKind
      /\ \E hit : world' = [world EXCEPT !.props[here] = @ \cup new,
                               !.own = [t \in DOMAIN @ |-> IF t \in hit THEN @[t] \cup new ELSE @[t]]]
  BY <1>n, <1>h, <1>w DEF DirectoryCommand
<1>2. DOMAIN world = Fields /\ DOMAIN world.own = Real
  BY DEF DirectoryInv, TypeInv, TargetsInv
<1>3. /\ DOMAIN world' = Fields /\ world'.dir = world.dir /\ world'.iface = world.iface
      /\ world'.links = world.links /\ world'.ilinks = world.ilinks
      /\ DOMAIN world'.props = DOMAIN world.props
      /\ \A d \in DOMAIN world.props : world'.props[d] = world.props[d] \/ world'.props[d] = world.props[d] \cup new
      /\ \A u \in Real : world'.own[u] = world.own[u] \/ world'.own[u] = world.own[u] \cup new
  <2>1. PICK hit : world' = [world EXCEPT !.props[here] = @ \cup new,
                               !.own = [t \in DOMAIN @ |-> IF t \in hit THEN @[t] \cup new ELSE @[t]]]
    BY <1>1
  <2>2. /\ DOMAIN world' = Fields /\ world'.dir = world.dir /\ world'.iface = world.iface
        /\ world'.links = world.links /\ world'.ilinks = world.ilinks
        /\ world'.props = [world.props EXCEPT ![here] = @ \cup new]
        /\ world'.own = [t \in DOMAIN world.own |-> IF t \in hit THEN world.own[t] \cup new ELSE world.own[t]]
    BY <1>2, <2>1 DEF Fields
  <2>3. \A d \in DOMAIN world.props : world'.props[d] = IF d = here THEN world.props[d] \cup new ELSE world.props[d]
    BY <2>2
  <2> QED BY <1>2, <2>2, <2>3
<1>4. /\ Longer /\ Real' = Real /\ Len(events) \in Nat /\ n = Len(events) + 1 /\ Len(events') = n
      /\ events'[n].c = c
  BY <1>1, <1>3, <1>n, CallAbout
<1>5. \A i \in new : IsDir(i.ev)' /\ i.ev \in 1..Len(events')
  <2> SUFFICES ASSUME NEW i \in new PROVE IsDir(i.ev)' /\ i.ev \in 1..Len(events')
    OBVIOUS
  <2>1. i.ev = n
    BY <1>w DEF DirItems
  <2> QED BY <1>1, <1>4, <2>1 DEF IsDir
<1>6. NamesInv'
  BY <1>1, <1>3, <1>4 DEF NamesInv
<1>7. LinksInv'
  BY <1>1, <1>3, <1>4, LinksQuiet
<1>8. TargetsInv /\ PropsMove
  BY <1>3, <1>5 DEF DirectoryInv, PropsMove
<1>9. ReqsInv'
  BY <1>1, <1>3, <1>4, <1>5, <1>8, ReqsQuiet
<1> QED BY <1>6, <1>7, <1>9

\* A scope is entered or left, or nothing is made of a call.
LEMMA QuietRows ==
    ASSUME NamesInv, LinksInv, ReqsInv, TargetsInv, Longer, UNCHANGED <<targets, edges, reqs>>,
           world'.links = world.links, world'.ilinks = world.ilinks, world'.iface = world.iface,
           world'.own = world.own, PropsMove
    PROVE  NamesInv' /\ LinksInv' /\ ReqsInv'
<1>1. Real' = Real
  BY DEF Real
<1>2. NamesInv'
  BY <1>1 DEF NamesInv
<1>3. LinksInv'
  BY <1>1, LinksQuiet
<1>4. ReqsInv'
  BY <1>1, ReqsQuiet
<1> QED BY <1>2, <1>3, <1>4

LEMMA ScratchRows ==
    ASSUME DirectoryInv, NamesInv, LinksInv, ReqsInv, NEW c \in Calls, Scratch(c)
    PROVE  NamesInv' /\ LinksInv' /\ ReqsInv'
<1>1. Log(c) /\ UNCHANGED <<project, scopes, stack, targets, edges, reqs, world>>
  BY DEF Scratch
<1>2. DOMAIN world = Fields /\ TargetsInv
  BY DEF DirectoryInv, TypeInv
<1>3. Longer
  BY <1>1, <1>2, CallAbout
<1>4. PropsMove
  BY <1>1 DEF PropsMove
<1> QED BY <1>1, <1>2, <1>3, <1>4, QuietRows

LEMMA OpenRows ==
    ASSUME DirectoryInv, NamesInv, LinksInv, ReqsInv, NEW kind, Open(kind)
    PROVE  NamesInv' /\ LinksInv' /\ ReqsInv'
<1>n. PICK n : n = Len(scopes) + 1
  OBVIOUS
<1>h. PICK here : here = Here
  OBVIOUS
<1>1. /\ UNCHANGED <<events, targets, edges, reqs>>
      /\ world' = IF kind \notin {"directory", "try_compile"} THEN world
                  ELSE [world EXCEPT !.dir = Append(@, n),
                            !.props = Put(@, n, IF kind = "directory" THEN @[here] ELSE {})]
  BY <1>n, <1>h DEF Open
<1>2. DOMAIN world = Fields /\ TargetsInv /\ TypeInv /\ TreeInv /\ EventsInv /\ PropsInv
  BY DEF DirectoryInv, TypeInv
<1>3. Longer
  BY <1>2, <1>n, OpenTree
<1>4. here \in DOMAIN world.props
  <2>1. Len(world.dir) > 0 /\ world.dir \in Seq(Nat)
    BY <1>2 DEF TreeInv, TypeInv
  <2>2. here = world.dir[Len(world.dir)] /\ Len(world.dir) \in 1..Len(world.dir)
    BY <1>h, <2>1, LenProperties DEF Here, Last
  <2> QED BY <1>2, <2>2 DEF PropsInv, DirOk
<1>5. /\ world'.links = world.links /\ world'.ilinks = world.ilinks
      /\ world'.iface = world.iface /\ world'.own = world.own
      /\ \/ world'.props = world.props
         \/ world'.props = Put(world.props, n, {})
         \/ world'.props = Put(world.props, n, world.props[here])
  BY <1>1, <1>2 DEF Fields
<1>6. PropsMove
  <2>1. ASSUME NEW v, world'.props = Put(world.props, n, v), v = {} \/ v = world.props[here]
        PROVE  PropsMove
    <3>1. /\ DOMAIN world'.props = {n} \cup DOMAIN world.props
          /\ \A d \in DOMAIN world'.props : world'.props[d] = IF d = n THEN v ELSE world.props[d]
      BY <2>1 DEF Put
    <3> QED BY <1>4, <2>1, <3>1 DEF PropsMove
  <2>2. CASE world'.props = world.props
    BY <2>2 DEF PropsMove
  <2> QED BY <1>5, <2>1, <2>2
<1> QED BY <1>1, <1>2, <1>3, <1>5, <1>6, QuietRows

LEMMA CloseRows ==
    ASSUME DirectoryInv, DirectoryInv', NamesInv, LinksInv, ReqsInv,
           Close \/ UNCHANGED vars
    PROVE  NamesInv' /\ LinksInv' /\ ReqsInv'
<1>1. /\ UNCHANGED <<scopes, events, targets, edges, reqs>>
      /\ world' = world \/ world' = [world EXCEPT !.dir = Front(@)]
  BY DEF Close, vars
<1>2. DOMAIN world = Fields /\ TargetsInv /\ TypeInv /\ TreeInv
  BY DEF DirectoryInv, TypeInv
<1>3. Longer
  <2>1. Len(scopes) \in Nat /\ Len(events) \in Nat
    BY <1>2, LenProperties DEF TypeInv
  <2> QED BY <1>1, <1>2, <2>1 DEF Longer, TreeInv, Parented
<1>4. /\ world'.links = world.links /\ world'.ilinks = world.ilinks
      /\ world'.iface = world.iface /\ world'.own = world.own /\ world'.props = world.props
  BY <1>1, <1>2 DEF Fields
<1>5. PropsMove
  BY <1>4 DEF PropsMove
<1> QED BY <1>1, <1>2, <1>3, <1>4, <1>5, QuietRows

LEMMA RowsInit ==
    ASSUME Init
    PROVE  RowsInv
<1>1. /\ events = <<>> /\ targets = <<>> /\ edges = <<>> /\ reqs = <<>>
      /\ world = [dir |-> <<1>>, props |-> <<{}>>, home |-> <<>>, own |-> <<>>,
                  iface |-> <<>>, links |-> <<>>, ilinks |-> <<>>]
  BY DEF Init
<1>2. DOMAIN <<>> = {} /\ ToSet(<<>>) = {}
  BY DEF ToSet
<1>3. DOMAIN targets = {} /\ Real = {} /\ DOMAIN world.links = {} /\ DOMAIN world.ilinks = {}
      /\ DOMAIN world.iface = {}
  BY <1>1, <1>2 DEF Real
<1>4. NamesInv
  BY <1>3, FS_EmptySet DEF NamesInv
<1>5. LinksInv
  BY <1>1, <1>2, <1>3 DEF LinksInv
<1>6. \A d \in DOMAIN world.props : world.props[d] = {}
  <2>1. world.props = <<{}>>
    BY <1>1
  <2> QED BY <2>1
<1>7. ReqsInv
  BY <1>1, <1>2, <1>3, <1>6 DEF ReqsInv
<1> QED BY <1>4, <1>5, <1>7 DEF RowsInv

\* What the rows are of the links and the requirements CMake has, at every
\* moment.
THEOREM RowsKept == Spec => []RowsInv
<1>1. Init => RowsInv
  BY RowsInit
<1>2. DirectoryInv /\ DirectoryInv' /\ RowsInv /\ [Next]_vars => RowsInv'
  <2> SUFFICES ASSUME DirectoryInv, DirectoryInv', RowsInv, [Next]_vars PROVE RowsInv'
    OBVIOUS
  <2>0. NamesInv /\ LinksInv /\ ReqsInv
    BY DEF RowsInv
  <2>1. ASSUME NEW c \in Doable,
               \/ AddTarget(c) \/ LinkLibraries(c) \/ Requirement(c)
               \/ SetProperty(c) \/ DirectoryCommand(c) \/ Scratch(c)
        PROVE  NamesInv' /\ LinksInv' /\ ReqsInv'
    <3>1. c \in Calls
      BY DoableAreCalls DEF DirectoryInv
    <3> QED BY <2>0, <2>1, <3>1, AddTargetRows, LinkLibrariesRows, RequirementRows,
               SetPropertyRows, DirectoryCommandRows, ScratchRows
  <2>2. ASSUME NEW kind \in project.kinds, Open(kind)
        PROVE  NamesInv' /\ LinksInv' /\ ReqsInv'
    BY <2>0, <2>2, OpenRows
  <2>3. CASE Close \/ UNCHANGED vars
    BY <2>0, <2>3, CloseRows DEF RowsInv
  <2> QED BY <2>1, <2>2, <2>3 DEF Next, RowsInv
<1> QED BY <1>1, <1>2, DirectoriesKept, PTL DEF Spec

\* The rows of tgt_edges are the links CMake makes, each with its visibility and
\* target, but for a property that was set again.
THEOREM RowsAreLinks == Spec => []RowsCoverLinks
<1>1. RowsInv => RowsCoverLinks
  BY RowsCover DEF RowsInv
<1> QED BY <1>1, RowsKept, PTL

\* The rows of usage_reqs are the requirements CMake takes from calls about
\* targets, but for a property that was set again.
THEOREM RowsAreRequirements == Spec => []RowsCoverReqs
<1>1. RowsInv => RowsCoverReqs
  BY RowsCover DEF RowsInv
<1> QED BY <1>1, RowsKept, PTL

\* Both tables are CMake's.
THEOREM RowsAreCMakes == Spec => []RowsMatchCMake
<1>1. RowsCoverLinks /\ RowsCoverReqs => RowsMatchCMake
  BY DEF RowsMatchCMake
<1> QED BY <1>1, RowsAreLinks, RowsAreRequirements, PTL

-----------------------------------------------------------------------------
(* What shadowed-requirements reports.                                     *)

DirectRoutes(t, key) ==
    {[cat |-> "direct", ev |-> q.ev, from |-> t] :
        q \in {r \in ProjectReqs : r.tgt = t /\ <<r.kind, r.value>> = key}}
DirectoryRoutes(t, key) ==
    {[cat |-> "directory", ev |-> ev, from |-> t] :
        ev \in {e \in FirstEvents(DirEvents(Retroactive)) :
                    key \in DirValues(events[e].c) /\ Reaches(e, t, TRUE)}}
TransitiveRoutes(t, key) ==
    {[cat |-> "transitive", ev |-> q.ev, from |-> q.tgt] :
        q \in {r \in ProjectReqs : r.tgt \in DepsOf(t) /\ r.vis # "PRIVATE" /\ <<r.kind, r.value>> = key}}

\* The requirement a route is of, or the call.
Direct(r, t, key) ==
    \E q \in ToSet(reqs) : r.cat = "direct" /\ r.ev = q.ev /\ q.tgt = t
Directory(r, t, key) ==
    /\ r.cat = "directory" /\ r.ev \in DirEvents(Retroactive)
    /\ key \in DirValues(events[r.ev].c) /\ Reaches(r.ev, t, TRUE)
Transitive(r, t, key) ==
    \E q \in ToSet(reqs) : /\ r.cat = "transitive" /\ r.ev = q.ev /\ r.from = q.tgt
                           /\ q.tgt # t /\ q.vis # "PRIVATE" /\ <<q.kind, q.value>> = key

LEMMA RoutesAre ==
    ASSUME NamesInv, LinksInv, ReqsInv, NEW t, NEW key, NEW r \in Routes(t, key)
    PROVE  Direct(r, t, key) \/ Directory(r, t, key) \/ Transitive(r, t, key)
<1>1. Reqs = reqs
  BY TablesAre
<1>2. r \in DirectRoutes(t, key) \cup DirectoryRoutes(t, key) \cup TransitiveRoutes(t, key)
  BY DEF Routes, DirectRoutes, DirectoryRoutes, TransitiveRoutes
<1>3. ASSUME r \in DirectRoutes(t, key) PROVE Direct(r, t, key)
  BY <1>1, <1>3 DEF DirectRoutes, ProjectReqs, Direct
<1>4. ASSUME r \in DirectoryRoutes(t, key) PROVE Directory(r, t, key)
  <2>1. PICK ev \in FirstEvents(DirEvents(Retroactive)) :
           /\ r = [cat |-> "directory", ev |-> ev, from |-> t]
           /\ key \in DirValues(events[ev].c) /\ Reaches(ev, t, TRUE)
    BY <1>4 DEF DirectoryRoutes
  <2>2. ev \in DirEvents(Retroactive)
    BY DEF FirstEvents
  <2>3. r.cat = "directory" /\ r.ev = ev
    BY <2>1
  <2> QED BY <2>1, <2>2, <2>3 DEF Directory
<1>5. ASSUME r \in TransitiveRoutes(t, key) PROVE Transitive(r, t, key)
  BY <1>1, <1>5 DEF TransitiveRoutes, ProjectReqs, DepsOf, Transitive
<1> QED BY <1>2, <1>3, <1>4, <1>5

\* The declaration that stays is a direct one if there is one.
Numbered(routes) == \A r \in routes : r.ev \in Nat
Unlike(routes, cat) == \A r \in routes : r.cat # cat

LEMMA PrimaryIs ==
    ASSUME NEW routes, NEW p, p = Primary(routes), p # None, Numbered(routes)
    PROVE  /\ p \in routes
           /\ p.cat = "direct" \/ (p.cat = "directory" /\ Unlike(routes, "direct"))
<1> DEFINE of(cat) == {r \in routes : r.cat = cat}
           first(rs) == CHOOSE r \in rs : \A q \in rs : r.ev <= q.ev
<1>1. ASSUME NEW cat, of(cat) # {} PROVE first(of(cat)) \in of(cat)
  <2>1. PICK rs : rs = of(cat)
    OBVIOUS
  <2>2. PICK evs : evs = {r.ev : r \in rs}
    OBVIOUS
  <2>3. evs \in SUBSET Nat /\ evs # {}
    BY <1>1, <2>1, <2>2 DEF Numbered
  <2>4. PICK n \in evs : \A m \in evs : n <= m
    BY <2>3, LeastOf
  <2>5. \E r \in rs : \A q \in rs : r.ev <= q.ev
    BY <2>2, <2>4
  <2> HIDE DEF of
  <2> QED BY <2>1, <2>5
<1>2. Primary(routes) = IF of("direct") # {} THEN first(of("direct"))
                        ELSE IF of("directory") # {} THEN first(of("directory")) ELSE None
  BY DEF Primary
<1> HIDE DEF first
<1>3. CASE of("direct") # {}
  BY <1>1, <1>2, <1>3
<1>4. CASE of("direct") = {} /\ of("directory") # {}
  BY <1>1, <1>2, <1>4 DEF Unlike
<1> QED BY <1>2, <1>3, <1>4

\* What the pass reads as a value of a directory command, the command gives.
LEMMA DirValuesGiven ==
    ASSUME NEW c, c.cmd \in Retroactive, NEW key \in DirValues(c), NEW ev, NEW dir
    PROVE  \E i \in DirItems(c, ev, dir) :
              i.kind = key[1] /\ i.value[2] = key[2] /\ i.ev = ev /\ (i.sys <=> "SYSTEM" \in ToSet(c.args))
<1>1. PICK w \in DirWords(c) :
         LET kind == IF c.cmd = "add_definitions" /\ w \notin DOMAIN DashD THEN "option" ELSE DirKind[c.cmd]
         IN  kind = key[1] /\ key[2] = IF kind = "define" THEN Strip(w) ELSE w
  <2>1. CASE c.cmd = "include_directories"
    BY <2>1 DEF DirValues, DirWords, DirKind
  <2>2. CASE c.cmd = "add_definitions"
    BY <2>2 DEF DirValues, DirWords, DirKind, Strip
  <2>3. CASE c.cmd = "add_compile_definitions"
    BY <2>3 DEF DirValues, DirWords, DirKind
  <2> QED BY <2>1, <2>2, <2>3 DEF Retroactive
<1>2. PICK kind : kind = IF c.cmd = "add_definitions" /\ w \notin DOMAIN DashD THEN "option" ELSE DirKind[c.cmd]
  OBVIOUS
<1>3. PICK v : v = Meaning(IF kind = "define" THEN Strip(w) ELSE w, kind, dir)
  OBVIOUS
<1>4. kind = key[1] /\ v[2] = key[2]
  BY <1>1, <1>2, <1>3, MeaningIs
<1>5. PICK i : i = [kind |-> kind, value |-> v, sys |-> "SYSTEM" \in ToSet(c.args), ev |-> ev]
  OBVIOUS
<1>6. i \in DirItems(c, ev, dir)
  BY <1>2, <1>3, <1>5 DEF DirItems
<1> QED BY <1>4, <1>5, <1>6

\* A directory's command that reaches a target gives it what it says.
LEMMA DirectoryGives ==
    ASSUME DirectoryInv, NEW t \in Candidates, NEW key, NEW e \in DirEvents(Retroactive),
           key \in DirValues(events[e].c), Reaches(e, t, TRUE)
    PROVE  /\ events[e].c.cmd \in DOMAIN DirKind
           /\ \E i \in world.own[t] : /\ i.kind = key[1] /\ i.value[2] = key[2] /\ i.ev = e
                                      /\ i.sys <=> HasSystem(e)
<1>1. TargetsInv /\ t \in Real
  BY DEF DirectoryInv, Candidates, Real
<1>2. e \in DirEvents(DOMAIN DirKind) /\ events[e].c.cmd \in Retroactive
  BY DirCommandNames DEF DirEvents, Retroactive
<1>3. /\ e \in 1..Len(events) /\ IsDir(e) /\ EffectiveDir(events[e].scope) = DirOf(e)
      /\ NearestDir(DefScope(t)) = world.home[t] /\ Compiles(t) /\ Len(events) \in Nat
  BY <1>1, <1>2, PassReads
<1>4. targets[t].ev \in 1..Len(events) /\ TargetOk(t)
  BY <1>1 DEF TargetsInv, Real
<1>5. Given(e, t)
  <2>1. targets[t].ev > e <=> e < targets[t].ev
    BY <1>3, <1>4
  <2> QED BY <1>2, <1>3, <2>1 DEF Reaches, Given
<1>6. From(world.own[t], e) = GivenBy(e)
  BY <1>3, <1>4, <1>5 DEF TargetOk
<1>7. PICK i \in GivenBy(e) :
         i.kind = key[1] /\ i.value[2] = key[2] /\ (i.sys <=> "SYSTEM" \in ToSet(events[e].c.args))
  BY <1>2, DirValuesGiven DEF GivenBy
<1>8. i \in world.own[t] /\ i.ev = e
  BY <1>6 DEF From
<1> QED BY <1>3, <1>7, <1>8 DEF HasSystem, IsDir

\* The evaluations that go with a declaration.
Gone(p) ==
    {ev \in DOMAIN events : IF p.cat = "direct" THEN ev = p.ev ELSE SameCall(ev, p.ev)}

\* What a requirement of a dependency gives those that link it.
LEMMA DependencyGives ==
    ASSUME NamesInv, LinksInv, ReqsInv, AsWritten, NEW q \in ToSet(reqs), q.vis # "PRIVATE"
    PROVE  \E i \in world.iface[q.tgt] : IsRowOf(q, i) /\ (i.sys <=> HasSystem(q.ev))
<1>1. ~ReqReset(q)
  BY TablesAre DEF AsWritten
<1>2. ReqRowOk(q)
  BY DEF ReqsInv
<1>3. PICK i \in world.iface[q.tgt] : IsRowOf(q, i)
  BY <1>1, <1>2 DEF ReqRowOk
<1>4. q.tgt \in Real
  BY <1>2 DEF ReqRowOk
<1>5. i.sys <=> HasSystem(i.ev)
  BY <1>4 DEF ReqsInv
<1>6. i.ev = q.ev
  BY <1>3 DEF IsRowOf
<1> QED BY <1>3, <1>5, <1>6

\* The other declaration is not gone with the first.
LEMMA StaysDeclared ==
    ASSUME DirectoryInv, NamesInv, LinksInv, ReqsInv, NEW t \in Candidates, NEW key,
           NEW primary, NEW by, by.cat # primary.cat,
           Direct(primary, t, key) \/ Directory(primary, t, key),
           Directory(by, t, key) \/ Transitive(by, t, key)
    PROVE  by.ev \notin Gone(primary)
<1>1. \A q \in ToSet(reqs) : ReqRowOk(q)
  BY DEF ReqsInv
<1>2. \A ev \in DirEvents(Retroactive) : events[ev].c.cmd \in DOMAIN DirKind
  BY DirCommandNames DEF DirEvents, Retroactive
<1>3. CASE Direct(primary, t, key) /\ Directory(by, t, key)
  <2>1. PICK q \in ToSet(reqs) : primary.cat = "direct" /\ primary.ev = q.ev
    BY <1>3 DEF Direct
  <2>2. events[by.ev].c.cmd \in DOMAIN DirKind
    BY <1>2, <1>3 DEF Directory
  <2>3. events[q.ev].c.cmd \in DOMAIN ReqKind \/ events[q.ev].c.cmd \in Setters
    BY <1>1 DEF ReqRowOk
  <2> QED BY <2>1, <2>2, <2>3, CommandNames DEF Gone
<1>4. CASE Direct(primary, t, key) /\ Transitive(by, t, key)
  <2>1. PICK p \in ToSet(reqs) : primary.cat = "direct" /\ primary.ev = p.ev /\ p.tgt = t
    BY <1>4 DEF Direct
  <2>2. PICK q \in ToSet(reqs) : by.ev = q.ev /\ q.tgt # t
    BY <1>4 DEF Transitive
  <2>3. ReqRowOk(p) /\ ReqRowOk(q)
    BY <1>1
  <2>4. p.ev = q.ev => p.tgt = q.tgt
    <3>1. DOMAIN ReqKind \cap Setters = {}
      BY DEF ReqKind, Setters
    <3> QED BY <2>3, <3>1 DEF ReqRowOk
  <2> QED BY <2>1, <2>2, <2>4 DEF Gone
<1>5. CASE Directory(primary, t, key)
  <2>1. primary.cat = "directory" /\ events[primary.ev].c.cmd \in DOMAIN DirKind
    BY <1>2, <1>5 DEF Directory
  <2>2. PICK q \in ToSet(reqs) : by.ev = q.ev
    <3>1. ~Directory(by, t, key)
      BY <2>1 DEF Directory
    <3> QED BY <3>1 DEF Transitive
  <2>3. events[q.ev].c.cmd \in DOMAIN ReqKind \/ events[q.ev].c.cmd \in Setters
    BY <1>1 DEF ReqRowOk
  <2> QED BY <2>1, <2>2, <2>3, CommandNames DEF Gone, SameCall
<1> QED BY <1>3, <1>4, <1>5

LEMMA ShadowedKeeps ==
    ASSUME DirectoryInv, NamesInv, LinksInv, ReqsInv, AsWritten, NEW t \in Candidates, NEW key,
           NEW routes, routes = Routes(t, key), NEW primary, primary = Primary(routes), primary # None,
           NEW by \in routes, Shadows(by, primary), by.cat = "transitive" => by.from \in Closure(t)
    PROVE  \E i \in Values(t) : /\ i.kind = key[1] /\ i.value[2] = key[2]
                                /\ i.ev \notin Gone(primary) /\ (i.sys <=> HasSystem(primary.ev))
<1>1. \A r \in routes : Direct(r, t, key) \/ Directory(r, t, key) \/ Transitive(r, t, key)
  BY RoutesAre
<1>2. ASSUME NEW r \in routes PROVE r.ev \in Nat
  <2>1. Len(events) \in Nat /\ DOMAIN events = 1..Len(events)
    BY LenProperties DEF DirectoryInv, TypeInv
  <2>2. ASSUME Directory(r, t, key) PROVE r.ev \in Nat
    BY <2>1, <2>2 DEF Directory, DirEvents
  <2>3. \A q \in ToSet(reqs) : q.ev \in Nat
    BY <2>1 DEF ReqsInv, ReqRowOk
  <2> QED BY <1>1, <2>2, <2>3 DEF Direct, Transitive
<1>3. /\ primary \in routes
      /\ primary.cat = "direct" \/ (primary.cat = "directory" /\ Unlike(routes, "direct"))
  <2>1. Numbered(routes)
    BY <1>2 DEF Numbered
  <2> QED BY <2>1, PrimaryIs
<1>4. by.cat # primary.cat /\ (HasSystem(by.ev) <=> HasSystem(primary.ev))
  BY DEF Shadows
<1>5. Direct(primary, t, key) \/ Directory(primary, t, key)
  BY <1>1, <1>3 DEF Transitive
<1>6. Directory(by, t, key) \/ Transitive(by, t, key)
  BY <1>1, <1>3, <1>4 DEF Direct, Unlike
<1>7. by.ev \notin Gone(primary)
  BY <1>4, <1>5, <1>6, StaysDeclared
<1>8. CASE Directory(by, t, key)
  <2>1. PICK e : e = by.ev
    OBVIOUS
  <2>2. e \in DirEvents(Retroactive) /\ key \in DirValues(events[e].c) /\ Reaches(e, t, TRUE)
    BY <1>8, <2>1 DEF Directory
  <2>3. PICK i \in world.own[t] : i.kind = key[1] /\ i.value[2] = key[2] /\ i.ev = e /\ (i.sys <=> HasSystem(e))
    BY <2>2, DirectoryGives
  <2> QED BY <1>4, <1>7, <2>1, <2>3 DEF Values
<1>9. CASE Transitive(by, t, key)
  <2>1. PICK q \in ToSet(reqs) : /\ by.cat = "transitive" /\ by.ev = q.ev /\ by.from = q.tgt
                                 /\ q.vis # "PRIVATE" /\ <<q.kind, q.value>> = key
    BY <1>9 DEF Transitive
  <2>2. PICK i \in world.iface[q.tgt] : IsRowOf(q, i) /\ (i.sys <=> HasSystem(q.ev))
    BY <2>1, DependencyGives
  <2>3. i \in Values(t)
    BY <2>1, <2>2 DEF Values
  <2>4. i.kind = key[1] /\ i.value[2] = key[2] /\ i.ev = q.ev
    BY <2>1, <2>2 DEF IsRowOf
  <2> QED BY <1>4, <1>7, <2>1, <2>2, <2>3, <2>4
<1> QED BY <1>6, <1>8, <1>9

\* Without the declaration that shadowed-requirements calls redundant, a target
\* still compiles with the value and as SYSTEM as before.
THEOREM ShadowedAreHarmless == Spec => []ShadowedHarmless
<1>1. DirectoryInv /\ RowsInv => ShadowedHarmless
  <2> SUFFICES ASSUME DirectoryInv, RowsInv, AsWritten, NEW f \in ShadowedRequirements,
                      f.by.cat = "transitive" => f.by.from \in Closure(f.target)
               PROVE  \E i \in Values(f.target) :
                         /\ i.kind = f.key[1] /\ i.value[2] = f.key[2]
                         /\ i.ev \notin Gone(f.primary) /\ (i.sys <=> HasSystem(f.primary.ev))
    BY DEF ShadowedHarmless, Gone
  <2>1. PICK t \in Candidates, key \in Keys :
           LET routes  == Routes(t, key)
               primary == Primary(routes)
           IN  f \in IF primary = None THEN {}
                     ELSE {[target |-> t, key |-> key, primary |-> primary, by |-> r] :
                              r \in {q \in routes : Shadows(q, primary)}}
    BY DEF ShadowedRequirements
  <2>2. PICK routes : routes = Routes(t, key)
    OBVIOUS
  <2>3. PICK primary : primary = Primary(routes)
    OBVIOUS
  <2>4. PICK by \in routes : /\ primary # None /\ Shadows(by, primary)
                             /\ f = [target |-> t, key |-> key, primary |-> primary, by |-> by]
    BY <2>1, <2>2, <2>3
  <2>5. f.target = t /\ f.key = key /\ f.primary = primary /\ f.by = by
    BY <2>4
  <2>6. by.cat = "transitive" => by.from \in Closure(t)
    BY <2>5
  <2>7. NamesInv /\ LinksInv /\ ReqsInv
    BY DEF RowsInv
  <2> QED BY <2>2, <2>3, <2>4, <2>5, <2>6, <2>7, ShadowedKeeps
<1> QED BY <1>1, DirectoriesKept, RowsKept, PTL

-----------------------------------------------------------------------------
(* What the searches over links find.                                      *)

\* f is base at 0 and goes on by step.
Iterates(f, n, base, step) == f[0] = base /\ \A k \in 1..n : f[k] = step[f[k - 1]]

\* An iteration that stays in V has a solution.
LEMMA IterationSolved ==
    ASSUME NEW n \in Nat, NEW V, NEW base \in V, NEW step \in [V -> V]
    PROVE  \E f \in [0..n -> V] : Iterates(f, n, base, step)
<1> DEFINE Solved(k) == \E f \in [0..k -> V] : Iterates(f, k, base, step)
           Bad == {k \in 0..n : ~Solved(k)}
<1>1. Solved(0)
  <2> DEFINE f == [k \in 0..0 |-> base]
  <2>1. f \in [0..0 -> V] /\ Iterates(f, 0, base, step)
    BY DEF Iterates
  <2> QED BY <2>1
<1>2. ASSUME NEW k \in 1..n, Solved(k - 1) PROVE Solved(k)
  <2>1. PICK f \in [0..(k - 1) -> V] : Iterates(f, k - 1, base, step)
    BY <1>2
  <2> DEFINE g == [j \in 0..k |-> IF j = k THEN step[f[k - 1]] ELSE f[j]]
  <2>2. k - 1 \in 0..(k - 1) /\ \A j \in 0..k : j # k => j \in 0..(k - 1)
    OBVIOUS
  <2>3. g \in [0..k -> V]
    BY <2>2
  <2>4. ASSUME NEW j \in 1..k PROVE g[j] = step[g[j - 1]]
    <3>1. j - 1 \in 0..(k - 1) /\ j - 1 \in 0..k /\ j - 1 # k /\ j \in 0..k
      OBVIOUS
    <3>2. g[j - 1] = f[j - 1]
      BY <3>1
    <3>3. CASE j = k
      BY <3>2, <3>3
    <3>4. CASE j # k
      <4>1. j \in 1..(k - 1)
        BY <3>4
      <4>2. g[j] = f[j]
        BY <3>1, <3>4
      <4> QED BY <2>1, <3>2, <4>1, <4>2 DEF Iterates
    <3> QED BY <3>3, <3>4
  <2>5. g[0] = base
    BY <2>1 DEF Iterates
  <2>6. Iterates(g, k, base, step)
    <3> HIDE DEF g
    <3> QED BY <2>4, <2>5 DEF Iterates
  <2> HIDE DEF g
  <2> QED BY <2>3, <2>6
<1> HIDE DEF Solved
<1>3. ASSUME Bad # {} PROVE FALSE
  <2>1. PICK k \in Bad : \A m \in Bad : k <= m
    <3>1. Bad \in SUBSET Nat
      OBVIOUS
    <3> HIDE DEF Bad
    <3> QED BY <1>3, <3>1, LeastOf
  <2>2. k \in 0..n /\ k # 0
    BY <1>1, <2>1
  <2>3. k \in 1..n /\ k - 1 \in 0..n /\ ~(k <= k - 1)
    BY <2>2
  <2>4. Solved(k - 1)
    BY <2>1, <2>3
  <2> QED BY <1>2, <2>1, <2>3, <2>4
<1>4. n \in 0..n
  OBVIOUS
<1>5. Solved(n)
  BY <1>3, <1>4
<1> QED BY <1>5 DEF Solved

Within(f, n, V) == \A k \in 0..n : f[k] \in V
StepsFrom(f, n, V, step) == \A k \in 1..n : f[k - 1] \in V => f[k] = step[f[k - 1]]

\* A function that begins in V and takes such steps from there is one.
LEMMA IterationStays ==
    ASSUME NEW n \in Nat, NEW V, NEW base \in V, NEW step \in [V -> V], NEW f,
           f[0] = base, StepsFrom(f, n, V, step)
    PROVE  Within(f, n, V) /\ Iterates(f, n, base, step)
<1> DEFINE Bad == {k \in 0..n : f[k] \notin V}
<1>1. ASSUME Bad # {} PROVE FALSE
  <2>1. PICK k \in Bad : \A m \in Bad : k <= m
    <3>1. Bad \in SUBSET Nat
      OBVIOUS
    <3> HIDE DEF Bad
    <3> QED BY <1>1, <3>1, LeastOf
  <2>2. k \in 0..n /\ k # 0
    BY <2>1
  <2>3. k \in 1..n /\ k - 1 \in 0..n /\ ~(k <= k - 1)
    BY <2>2
  <2>4. f[k - 1] \in V
    BY <2>1, <2>3
  <2> QED BY <2>1, <2>3, <2>4 DEF StepsFrom
<1>2. \A k \in 0..n : f[k] \in V
  BY <1>1
<1>3. \A k \in 1..n : k - 1 \in 0..n
  OBVIOUS
<1> QED BY <1>2, <1>3 DEF Iterates, StepsFrom, Within

Grows(U, step) == \A S \in SUBSET U : step[S] \in SUBSET U /\ S \subseteq step[S]
Closed(step, S) == step[S] = S

\* A set that grows inside a finite one is closed after as many steps as that
\* has members.
LEMMA GrowthCloses ==
    ASSUME NEW U, IsFiniteSet(U), NEW n, n = Cardinality(U), NEW f, NEW base,
           NEW step, Grows(U, step), Within(f, n, SUBSET U), Iterates(f, n, base, step)
    PROVE  f[n] \in SUBSET U /\ base \subseteq f[n] /\ Closed(step, f[n])
<1> DEFINE Good(k) == /\ base \subseteq f[k]
                      /\ step[f[k]] = f[k] \/ Cardinality(f[k]) >= k
           Bad == {k \in 0..n : ~Good(k)}
<1>0. /\ \A S \in SUBSET U : step[S] \in SUBSET U /\ S \subseteq step[S]
      /\ \A k \in 0..n : f[k] \in SUBSET U
  BY DEF Grows, Within
<1>1. n \in Nat /\ \A S \in SUBSET U : Cardinality(S) \in Nat /\ Cardinality(S) <= n
  BY FS_CardinalityType, FS_Subset
<1>2. Good(0)
  <2>1. f[0] = base /\ f[0] \in SUBSET U
    <3>1. 0 \in 0..n
      BY <1>1
    <3> QED BY <1>0, <3>1 DEF Iterates
  <2>2. Cardinality(f[0]) \in Nat
    BY <1>1, <2>1
  <2> QED BY <2>1, <2>2
<1>3. ASSUME NEW k \in 1..n, Good(k - 1) PROVE Good(k)
  <2>1. PICK S : S = f[k - 1]
    OBVIOUS
  <2>2. PICK T : T = f[k]
    OBVIOUS
  <2>3. S \in SUBSET U /\ T \in SUBSET U /\ T = step[S] /\ S \subseteq T
    <3>1. k - 1 \in 0..n /\ k \in 0..n
      BY <1>1
    <3> QED BY <1>0, <2>1, <2>2, <3>1 DEF Iterates
  <2>4. base \subseteq T
    BY <1>3, <2>1, <2>3
  <2>5. CASE step[S] = S
    BY <2>2, <2>3, <2>4, <2>5
  <2>6. CASE step[S] # S
    <3>1. Cardinality(S) >= k - 1
      BY <1>3, <2>1, <2>6
    <3>2. IsFiniteSet(T)
      BY <2>3, FS_Subset
    <3>3. Cardinality(S) <= Cardinality(T) /\ Cardinality(S) # Cardinality(T)
      BY <2>3, <2>6, <3>2, FS_Subset
    <3>4. Cardinality(S) \in Nat /\ Cardinality(T) \in Nat
      BY <1>1, <2>3
    <3>5. Cardinality(T) >= k
      BY <3>1, <3>3, <3>4
    <3> QED BY <2>2, <2>4, <3>5
  <2> QED BY <2>5, <2>6
<1> HIDE DEF Good
<1>4. Good(n)
  <2> SUFFICES ASSUME Bad # {} PROVE FALSE
    <3>1. n \in 0..n
      BY <1>1
    <3> QED BY <3>1
  <2>1. PICK k \in Bad : \A m \in Bad : k <= m
    <3>1. Bad \in SUBSET Nat
      BY <1>1
    <3> HIDE DEF Bad
    <3> QED BY <3>1, LeastOf
  <2>2. k \in 0..n /\ k # 0
    BY <1>2, <2>1
  <2>3. k \in 1..n /\ k - 1 \in 0..n /\ ~(k <= k - 1)
    BY <1>1, <2>2
  <2>4. Good(k - 1)
    BY <2>1, <2>3
  <2> QED BY <1>3, <2>1, <2>3, <2>4
<1>5. PICK last : last = f[n]
  OBVIOUS
<1>6. last \in SUBSET U /\ base \subseteq last
  BY <1>0, <1>1, <1>4, <1>5 DEF Good
<1>7. step[last] = last
  <2>1. CASE Cardinality(last) >= n
    <3>1. Cardinality(last) = n
      BY <1>1, <1>6, <2>1
    <3>2. last = U
      BY <1>6, <3>1, FS_Subset
    <3> QED BY <1>0, <1>6, <3>2
  <2> QED BY <1>4, <1>5, <2>1 DEF Good
<1> QED BY <1>5, <1>6, <1>7 DEF Closed

\* The search of CMake stays in a set that holds what its targets export.
LEMMA ClosureWithin ==
    ASSUME NamesInv, NEW t, NEW S \in SUBSET Real, Linked(t) \subseteq S,
           \A d \in S : Exported(d) \subseteq S
    PROVE  Closure(t) \subseteq S
<1> DEFINE n == Cardinality(Real)
           next(T) == T \cup UNION {Exported(d) : d \in T}
           Eq(g) == g = [k \in 0..n |-> IF k = 0 THEN Linked(t) ELSE next(g[k - 1])]
           grow == CHOOSE g : Eq(g)
           step == [T \in SUBSET S |-> next(T)]
<1>1. n \in Nat
  <2>1. Real \subseteq DOMAIN targets
    BY DEF Real
  <2> QED BY <2>1, FS_Subset, FS_CardinalityType DEF NamesInv
<1>2. step \in [SUBSET S -> SUBSET S] /\ Linked(t) \in SUBSET S
  OBVIOUS
<1>3. \A T \in SUBSET S : step[T] = next(T)
  OBVIOUS
<1> HIDE DEF step, next, n
<1>4. \E g : Eq(g)
  <2>1. PICK f \in [0..n -> SUBSET S] : Iterates(f, n, Linked(t), step)
    BY <1>1, <1>2, IterationSolved
  <2>2. ASSUME NEW k \in 0..n, k # 0 PROVE f[k] = next(f[k - 1])
    <3>1. k \in 1..n /\ k - 1 \in 0..n
      BY <1>1, <2>2
    <3> QED BY <1>3, <2>1, <3>1 DEF Iterates
  <2>3. Eq(f)
    BY <2>1, <2>2 DEF Iterates
  <2> QED BY <2>3
<1>5. Eq(grow)
  BY <1>4
<1>6. Closure(t) = grow[n]
  BY DEF Closure, n, next
<1> HIDE DEF grow
<1>7. grow[0] = Linked(t) /\ \A k \in 1..n : grow[k] = next(grow[k - 1])
  <2>1. 0 \in 0..n /\ \A k \in 1..n : k \in 0..n /\ k # 0
    BY <1>1
  <2>2. \A k \in 0..n : grow[k] = IF k = 0 THEN Linked(t) ELSE next(grow[k - 1])
    BY <1>5
  <2> QED BY <2>1, <2>2
<1>8. \A k \in 0..n : grow[k] \in SUBSET S
  <2>1. PICK V : V = SUBSET S
    OBVIOUS
  <2>2. \A k \in 1..n : grow[k - 1] \in V => grow[k] = step[grow[k - 1]]
    BY <1>3, <1>7, <2>1
  <2>3. Linked(t) \in V /\ step \in [V -> V]
    BY <1>2, <2>1
  <2>4. StepsFrom(grow, n, V, step)
    BY <2>2 DEF StepsFrom
  <2>5. Within(grow, n, V)
    BY <1>1, <1>7, <2>3, <2>4, IterationStays
  <2> QED BY <2>1, <2>5 DEF Within
<1> QED BY <1>1, <1>6, <1>8

\* Those that re-export t's interface hold t and every target that re-exports one
\* of them.
LEMMA ReexportersAre ==
    ASSUME NamesInv, NEW rows, \A e \in rows : e.src \in Real, NEW t \in Real
    PROVE  LET all == Reexporters(rows, t)
           IN  t \in all /\ \A e \in rows : e.to \in all /\ Reexports(e) => e.src \in all
<1> DEFINE n == Cardinality(Real)
           next(T) == T \cup {e.src : e \in {r \in rows : r.to \in T /\ Reexports(r)}}
           Eq(g) == g = [k \in 0..n |-> IF k = 0 THEN {t} ELSE next(g[k - 1])]
           grow == CHOOSE g : Eq(g)
           step == [T \in SUBSET Real |-> next(T)]
<1>1. n \in Nat /\ IsFiniteSet(Real)
  <2>1. Real \subseteq DOMAIN targets
    BY DEF Real
  <2> QED BY <2>1, FS_Subset, FS_CardinalityType DEF NamesInv
<1>2. step \in [SUBSET Real -> SUBSET Real] /\ {t} \in SUBSET Real
  OBVIOUS
<1>3. \A T \in SUBSET Real : step[T] = next(T) /\ T \subseteq step[T]
  OBVIOUS
<1>4. \A T : \A e \in rows : e.to \in T /\ Reexports(e) => e.src \in next(T)
  OBVIOUS
<1> HIDE DEF step, next, n
<1>5. \E g : Eq(g)
  <2>1. PICK f \in [0..n -> SUBSET Real] : Iterates(f, n, {t}, step)
    BY <1>1, <1>2, IterationSolved
  <2>2. ASSUME NEW k \in 0..n, k # 0 PROVE f[k] = next(f[k - 1])
    <3>1. k \in 1..n /\ k - 1 \in 0..n
      BY <1>1, <2>2
    <3> QED BY <1>3, <2>1, <3>1 DEF Iterates
  <2>3. Eq(f)
    BY <2>1, <2>2 DEF Iterates
  <2> QED BY <2>3
<1>6. Eq(grow)
  BY <1>5
<1>7. Reexporters(rows, t) = grow[n]
  BY DEF Reexporters, n, next
<1> HIDE DEF grow
<1>8. grow[0] = {t} /\ \A k \in 1..n : grow[k] = next(grow[k - 1])
  <2>1. 0 \in 0..n /\ \A k \in 1..n : k \in 0..n /\ k # 0
    BY <1>1
  <2>2. \A k \in 0..n : grow[k] = IF k = 0 THEN {t} ELSE next(grow[k - 1])
    BY <1>6
  <2> QED BY <2>1, <2>2
<1>9. Within(grow, n, SUBSET Real) /\ Iterates(grow, n, {t}, step)
  <2>1. StepsFrom(grow, n, SUBSET Real, step)
    BY <1>3, <1>8 DEF StepsFrom
  <2> QED BY <1>1, <1>2, <1>8, <2>1, IterationStays
<1>10. PICK last : last = grow[n]
  OBVIOUS
<1>11. last \in SUBSET Real /\ {t} \subseteq last /\ step[last] = last
  <2>1. PICK U : U = Real
    OBVIOUS
  <2>2. n = Cardinality(U)
    BY <2>1 DEF n
  <2>3. IsFiniteSet(U) /\ Grows(U, step) /\ Within(grow, n, SUBSET U)
    BY <1>1, <1>2, <1>3, <1>9, <2>1 DEF Grows, Within
  <2>4. PICK f, m, st, base : f = grow /\ m = n /\ st = step /\ base = {t}
    OBVIOUS
  <2>5. m = Cardinality(U) /\ Grows(U, st) /\ Within(f, m, SUBSET U) /\ Iterates(f, m, base, st)
    BY <1>9, <2>2, <2>3, <2>4
  <2>6. f[m] \in SUBSET U /\ base \subseteq f[m] /\ Closed(st, f[m])
    BY <2>3, <2>5, GrowthCloses
  <2> QED BY <1>10, <2>1, <2>4, <2>6 DEF Closed
<1>12. next(last) = last
  BY <1>3, <1>11
<1> QED BY <1>4, <1>7, <1>10, <1>11, <1>12

\* What `graph` reaches holds the target and the dependencies of each of its own.
LEMMA ReachedAre ==
    ASSUME NamesInv, NEW rows, \A e \in rows : e.to \in Real \cup {None}, NEW t \in Real
    PROVE  LET all == Reached(rows, t)
           IN  t \in all /\ \A e \in rows : e.src \in all /\ e.to # None => e.to \in all
<1> DEFINE n == Cardinality(Real)
           next(T) == T \cup ({e.to : e \in {r \in rows : r.src \in T}} \ {None})
           Eq(g) == g = [k \in 0..n |-> IF k = 0 THEN {t} ELSE next(g[k - 1])]
           grow == CHOOSE g : Eq(g)
           step == [T \in SUBSET Real |-> next(T)]
<1>1. n \in Nat /\ IsFiniteSet(Real)
  <2>1. Real \subseteq DOMAIN targets
    BY DEF Real
  <2> QED BY <2>1, FS_Subset, FS_CardinalityType DEF NamesInv
<1>2. step \in [SUBSET Real -> SUBSET Real] /\ {t} \in SUBSET Real
  OBVIOUS
<1>3. \A T \in SUBSET Real : step[T] = next(T) /\ T \subseteq step[T]
  OBVIOUS
<1>4. \A T : \A e \in rows : e.src \in T /\ e.to # None => e.to \in next(T)
  OBVIOUS
<1> HIDE DEF step, next, n
<1>5. \E g : Eq(g)
  <2>1. PICK f \in [0..n -> SUBSET Real] : Iterates(f, n, {t}, step)
    BY <1>1, <1>2, IterationSolved
  <2>2. ASSUME NEW k \in 0..n, k # 0 PROVE f[k] = next(f[k - 1])
    <3>1. k \in 1..n /\ k - 1 \in 0..n
      BY <1>1, <2>2
    <3> QED BY <1>3, <2>1, <3>1 DEF Iterates
  <2>3. Eq(f)
    BY <2>1, <2>2 DEF Iterates
  <2> QED BY <2>3
<1>6. Eq(grow)
  BY <1>5
<1>7. Reached(rows, t) = grow[n]
  BY DEF Reached, n, next
<1> HIDE DEF grow
<1>8. grow[0] = {t} /\ \A k \in 1..n : grow[k] = next(grow[k - 1])
  <2>1. 0 \in 0..n /\ \A k \in 1..n : k \in 0..n /\ k # 0
    BY <1>1
  <2>2. \A k \in 0..n : grow[k] = IF k = 0 THEN {t} ELSE next(grow[k - 1])
    BY <1>6
  <2> QED BY <2>1, <2>2
<1>9. Within(grow, n, SUBSET Real) /\ Iterates(grow, n, {t}, step)
  <2>1. StepsFrom(grow, n, SUBSET Real, step)
    BY <1>3, <1>8 DEF StepsFrom
  <2> QED BY <1>1, <1>2, <1>8, <2>1, IterationStays
<1>10. PICK last : last = grow[n]
  OBVIOUS
<1>11. last \in SUBSET Real /\ {t} \subseteq last /\ step[last] = last
  <2>1. PICK U : U = Real
    OBVIOUS
  <2>2. n = Cardinality(U)
    BY <2>1 DEF n
  <2>3. IsFiniteSet(U) /\ Grows(U, step) /\ Within(grow, n, SUBSET U)
    BY <1>1, <1>2, <1>3, <1>9, <2>1 DEF Grows, Within
  <2>4. PICK f, m, st, base : f = grow /\ m = n /\ st = step /\ base = {t}
    OBVIOUS
  <2>5. m = Cardinality(U) /\ Grows(U, st) /\ Within(f, m, SUBSET U) /\ Iterates(f, m, base, st)
    BY <1>9, <2>2, <2>3, <2>4
  <2>6. f[m] \in SUBSET U /\ base \subseteq f[m] /\ Closed(st, f[m])
    BY <2>3, <2>5, GrowthCloses
  <2> QED BY <1>10, <2>1, <2>4, <2>6 DEF Closed
<1>12. next(last) = last
  BY <1>3, <1>11
<1> QED BY <1>4, <1>7, <1>10, <1>11, <1>12

\* What a target links, and what it exports, are rows.
LEMMA DependenciesHaveRows ==
    ASSUME RowsInv
    PROVE  /\ \A e \in ToSet(Edges) : /\ e.src \in Real /\ e.to \in Real \cup {None}
                                      /\ e.to = Meant(e.dst) /\ e.vis \in Vis
           /\ \A t \in Real : \A d \in Linked(t) :
                \E e \in ToSet(Edges) : e.src = t /\ e.to = d /\ e.vis \in {"PRIVATE", "PUBLIC"}
           /\ \A t \in Real : \A d \in Exported(t) :
                \E e \in ToSet(Edges) : e.src = t /\ e.to = d /\ e.vis \in {"INTERFACE", "PUBLIC"}
           /\ None \notin Real
           /\ \A t : Linked(t) \subseteq Real /\ Exported(t) \subseteq Real
<1>1. NamesInv /\ LinksInv /\ ReqsInv
  BY DEF RowsInv
<1>2. ToSet(Edges) = {EdgeOf(e) : e \in ToSet(edges)} /\ RowsCoverLinks
  BY <1>1, TablesAre, RowsCover
<1>3. ASSUME NEW r \in ToSet(Edges)
      PROVE  r.src \in Real /\ r.to \in Real \cup {None} /\ r.to = Meant(r.dst) /\ r.vis \in Vis
  <2>1. PICK e \in ToSet(edges) : r = EdgeOf(e)
    BY <1>2
  <2>2. LinkRowOk(e) /\ e \in LinkRow
    <3>1. PICK i \in DOMAIN edges : e = edges[i]
      BY DEF ToSet
    <3>2. edges \in Seq(LinkRow)
      BY <1>1 DEF LinksInv
    <3>3. e \in LinkRow
      BY <3>1, <3>2, LenProperties
    <3> QED BY <1>1, <3>3 DEF LinksInv
  <2>3. Meant(e.dst) \in Real \cup {None}
    BY <1>1, MeantIs
  <2>4. r.src = e.src /\ r.dst = e.dst /\ r.vis = e.vis /\ r.to = Meant(e.dst)
    BY <2>1 DEF EdgeOf
  <2> QED BY <2>2, <2>3, <2>4 DEF LinkRowOk, LinkRow
<1>4. ASSUME NEW t \in Real, NEW d \in Linked(t)
      PROVE  \E e \in ToSet(Edges) : e.src = t /\ e.to = d /\ e.vis \in {"PRIVATE", "PUBLIC"}
  <2>1. PICK l \in world.links[t] : d = Meant(l.dst)
    BY DEF Linked
  <2> QED BY <1>2, <2>1 DEF RowsCoverLinks
<1>5. ASSUME NEW t \in Real, NEW d \in Exported(t)
      PROVE  \E e \in ToSet(Edges) : e.src = t /\ e.to = d /\ e.vis \in {"INTERFACE", "PUBLIC"}
  <2>1. PICK l \in world.ilinks[t] : d = Meant(l.dst)
    BY DEF Exported
  <2> QED BY <1>2, <2>1 DEF RowsCoverLinks
<1>6. ASSUME NEW t PROVE Linked(t) \subseteq Real /\ Exported(t) \subseteq Real
  <2>1. \A name : Meant(name) \in Real \cup {None}
    BY <1>1, MeantIs
  <2> QED BY <2>1 DEF Linked, Exported
<1>7. None \notin Real
  BY <1>1, MeantIs
<1> QED BY <1>3, <1>4, <1>5, <1>6, <1>7

\* `graph --target` shows every target whose interface the target compiles with.
THEOREM GraphKeeps == Spec => []GraphKeepsClosure
<1>1. RowsInv => GraphKeepsClosure
  <2> SUFFICES ASSUME RowsInv, NEW name \in DOMAIN targets
               PROVE  Closure(Meant(name)) \subseteq Graph(name, {}, TRUE).nodes
    BY DEF GraphKeepsClosure
  <2>1. NamesInv
    BY DEF RowsInv
  <2>2. PICK t : t = Meant(name)
    OBVIOUS
  <2>3. t \in Real /\ TargetId(name) = t /\ name # None
    BY <2>1, <2>2, MeantIs DEF NamesInv, Real, Meant, TargetId
  <2>4. PICK rows : rows = ToSet(Edges)
    OBVIOUS
  <2>5. PICK all : all = Reached(rows, t)
    OBVIOUS
  <2>6. t \in all /\ \A e \in rows : e.src \in all /\ e.to # None => e.to \in all
    <3>1. \A e \in rows : e.to \in Real \cup {None}
      BY <2>4, DependenciesHaveRows
    <3> QED BY <2>1, <2>3, <2>5, <3>1, ReachedAre
  <2>7. \A d \in Real : d \in all => Linked(d) \subseteq all \cap Real /\ Exported(d) \subseteq all \cap Real
    BY <2>4, <2>6, DependenciesHaveRows
  <2>8. PICK S : S = all \cap Real
    OBVIOUS
  <2>9. S \in SUBSET Real /\ Linked(t) \subseteq S /\ \A d \in S : Exported(d) \subseteq S
    BY <2>3, <2>6, <2>7, <2>8
  <2>10. Closure(t) \subseteq S
    BY <2>1, <2>9, ClosureWithin
  <2>11. Graph(name, {}, TRUE).nodes = all
    BY <2>3, <2>4, <2>5 DEF Graph, Kept
  <2> QED BY <2>2, <2>8, <2>10, <2>11
<1> QED BY <1>1, RowsKept, PTL

\* Whichever targets include its headers, no target needs an include directory that
\* overshare says to stop exporting to it.
THEOREM OvershareIsSafe == Spec => []OvershareSafe
<1>1. RowsInv => OvershareSafe
  <2> SUFFICES ASSUME RowsInv, NEW value, NEW users \in SUBSET Real, NEW uses, uses = users \X {value},
                      NEW f \in Overshared(uses), f.req.value = value
               PROVE  /\ \A c \in users \ {f.req.tgt} : f.req.tgt \notin Closure(c)
                      /\ f.advice = "remove" => f.req.tgt \notin users
    BY DEF OvershareSafe
  <2>1. NamesInv
    BY DEF RowsInv
  <2>2. PICK rows : rows = ToSet(Edges)
    OBVIOUS
  <2>3. PICK q \in ToSet(Reqs) :
           /\ f = [req |-> q, advice |-> IF <<q.tgt, q.value>> \in uses THEN "PRIVATE" ELSE "remove"]
           /\ \A c \in Consumers(rows, q.tgt) : <<c, q.value>> \notin uses
    BY <2>2 DEF Overshared
  <2>4. PICK t : t = q.tgt
    OBVIOUS
  <2>5. f.req = q /\ q.value = value /\ f.req.tgt = t
    BY <2>3, <2>4
  <2>6. t \in Real
    <3>1. q \in ToSet(reqs)
      BY <2>3, TablesAre DEF RowsInv
    <3> QED BY <2>4, <3>1 DEF RowsInv, ReqsInv, ReqRowOk
  <2>7. f.advice = "remove" => t \notin users
    BY <2>3, <2>4, <2>5
  <2>8. PICK all : all = Reexporters(rows, t)
    OBVIOUS
  <2>9. t \in all /\ \A e \in rows : e.to \in all /\ Reexports(e) => e.src \in all
    <3>1. \A e \in rows : e.src \in Real
      BY <2>2, DependenciesHaveRows
    <3> QED BY <2>1, <2>6, <2>8, <3>1, ReexportersAre
  <2>10. PICK S : S = Real \ all
    OBVIOUS
  <2>11. ASSUME NEW d \in S PROVE Exported(d) \subseteq S
    <3> SUFFICES ASSUME NEW u \in Exported(d), u \in all PROVE FALSE
      BY <2>10, DependenciesHaveRows
    <3>1. PICK e \in rows : e.src = d /\ e.to = u /\ e.vis \in {"INTERFACE", "PUBLIC"}
      BY <2>2, <2>10, DependenciesHaveRows
    <3> QED BY <2>9, <2>10, <3>1 DEF Reexports
  <2>12. ASSUME NEW c \in users \ {t} PROVE t \notin Closure(c)
    <3>1. c \notin Consumers(rows, t)
      BY <2>3, <2>4, <2>5
    <3>2. Linked(c) \subseteq S
      <4> SUFFICES ASSUME NEW u \in Linked(c), u \in all PROVE FALSE
        BY <2>10, DependenciesHaveRows
      <4>1. PICK e \in rows : e.src = c /\ e.to = u
        BY <2>2, DependenciesHaveRows
      <4> QED BY <2>8, <3>1, <4>1 DEF Consumers
    <3>3. Closure(c) \subseteq S
      BY <2>1, <2>10, <2>11, <3>2, ClosureWithin
    <3> QED BY <2>9, <2>10, <3>3
  <2> QED BY <2>5, <2>7, <2>12
<1> QED BY <1>1, RowsKept, PTL

\* A fold that takes such steps from V stays there.
LEMMA FoldStays ==
    ASSUME NEW n \in Nat, NEW V, NEW step \in [(1..n) \X V -> V], NEW f, f[{}] \in V,
           \A k \in 1..n : f[1..(k - 1)] \in V => f[1..k] = step[<<k, f[1..(k - 1)]>>]
    PROVE  f[1..n] \in V
<1> DEFINE Bad == {k \in 0..n : f[1..k] \notin V}
<1>1. ASSUME Bad # {} PROVE FALSE
  <2>1. PICK k \in Bad : \A m \in Bad : k <= m
    <3>1. Bad \in SUBSET Nat
      OBVIOUS
    <3> HIDE DEF Bad
    <3> QED BY <1>1, <3>1, LeastOf
  <2>2. k \in 0..n /\ k # 0
    <3>1. 1..0 = {}
      OBVIOUS
    <3> QED BY <2>1, <3>1
  <2>3. k \in 1..n /\ k - 1 \in 0..n /\ ~(k <= k - 1)
    BY <2>2
  <2>4. PICK old : old = f[1..(k - 1)]
    OBVIOUS
  <2>5. old \in V
    BY <2>1, <2>3, <2>4
  <2>6. f[1..k] = step[<<k, old>>] /\ <<k, old>> \in (1..n) \X V
    BY <2>3, <2>4, <2>5
  <2>7. f[1..k] \in V
    BY <2>6
  <2> QED BY <2>1, <2>7
<1>2. n \in 0..n
  OBVIOUS
<1> QED BY <1>1, <1>2

\* The largest of the numbers up to k.
LEMMA UpTo ==
    ASSUME NEW n \in Nat, NEW k \in 1..n
    PROVE  /\ 1..k \in SUBSET (1..n) /\ 1..k # {} /\ Max(1..k) = k
           /\ (1..k) \ {Max(1..k)} = 1..(k - 1)
<1>1. 1..k \in SUBSET (1..n) /\ 1..k # {}
  <2>1. k \in 1..k /\ \A j \in 1..k : j \in 1..n
    OBVIOUS
  <2> QED BY <2>1
<1>2. Max(1..k) = k
  <2>1. Max(1..k) \in 1..k /\ \A x \in 1..k : x <= Max(1..k)
    BY <1>1, MaxIs
  <2>2. PICK m : m = Max(1..k)
    OBVIOUS
  <2>3. m \in 1..k /\ k <= m
    BY <2>1, <2>2
  <2> QED BY <2>2, <2>3
<1>3. (1..k) \ {k} = 1..(k - 1)
  OBVIOUS
<1> QED BY <1>1, <1>2, <1>3

\* Rows that are kept are rows, and in ok.
LEMMA KeptWithin ==
    ASSUME NEW A, NEW rows \in Seq(A), NEW ok
    PROVE  KeptRows(rows, ok) \in Seq(A \cap ok)
<1> DEFINE n == Len(rows)
           V == Seq(A \cap ok)
           take(acc, e) == IF e \in ok THEN Append(acc, e) ELSE acc
           Eq(g) == g = [s \in SUBSET DOMAIN rows |->
                           IF s = {} THEN <<>> ELSE take(g[s \ {Max(s)}], rows[Max(s)])]
           f == CHOOSE g : Eq(g)
           step == [p \in (1..n) \X V |-> take(p[2], rows[p[1]])]
<1>1. n \in Nat /\ DOMAIN rows = 1..n /\ \A i \in 1..n : rows[i] \in A
  BY LenProperties
<1>2. KeptRows(rows, ok) = f[DOMAIN rows]
  BY DEF KeptRows, FoldLeft, MapThenFoldSet
<1>3. ASSUME NEW acc \in V, NEW e \in A PROVE take(acc, e) \in V
  <2>1. CASE e \in ok
    <3>1. e \in A \cap ok
      BY <2>1
    <3>2. Append(acc, e) \in V
      BY <3>1, AppendProperties
    <3> QED BY <2>1, <3>2
  <2> QED BY <2>1
<1>4. <<>> \in V
  BY EmptySeq
<1> HIDE DEF V, take
<1>5. step \in [(1..n) \X V -> V]
  BY <1>1, <1>3
<1>6. \A k \in 1..n : \A acc \in V : step[<<k, acc>>] = take(acc, rows[k])
  OBVIOUS
<1> HIDE DEF step, n
<1>7. ASSUME NEW s \in SUBSET (1..n), s # {} PROVE Max(s) \in 1..n
  BY <1>1, <1>7, MaxIs
<1>8. \E g : Eq(g)
  <2>1. PICK g \in [SUBSET (1..n) -> V] : Folds(g, n, <<>>, step)
    BY <1>1, <1>4, <1>5, FoldSolved
  <2>2. ASSUME NEW s \in SUBSET (1..n), s # {}
        PROVE  g[s] = take(g[s \ {Max(s)}], rows[Max(s)])
    <3>1. g[s \ {Max(s)}] \in V
      OBVIOUS
    <3> QED BY <1>6, <1>7, <2>1, <2>2, <3>1 DEF Folds
  <2>3. g = [s \in SUBSET (1..n) |->
               IF s = {} THEN <<>> ELSE take(g[s \ {Max(s)}], rows[Max(s)])]
    BY <2>1, <2>2 DEF Folds
  <2> QED BY <1>1, <2>3
<1>9. Eq(f)
  BY <1>8
<1> HIDE DEF f
<1>10. f[{}] = <<>>
  BY <1>9
<1>11. ASSUME NEW k \in 1..n PROVE f[1..k] = take(f[1..(k - 1)], rows[k])
  <2>1. 1..k \in SUBSET (1..n) /\ 1..k # {} /\ Max(1..k) = k /\ (1..k) \ {Max(1..k)} = 1..(k - 1)
    BY <1>1, UpTo
  <2>2. f[1..k] = take(f[(1..k) \ {Max(1..k)}], rows[Max(1..k)])
    BY <1>1, <1>9, <2>1
  <2> QED BY <2>1, <2>2
<1>12. f[1..n] \in V
  <2>1. \A k \in 1..n : f[1..(k - 1)] \in V => f[1..k] = step[<<k, f[1..(k - 1)]>>]
    BY <1>6, <1>11
  <2>2. f[{}] \in V /\ n \in Nat
    BY <1>1, <1>4, <1>10
  <2> QED BY <1>5, <2>1, <2>2, FoldStays
<1> QED BY <1>1, <1>2, <1>12 DEF V

\* So are the first rows of each pair.
LEMMA FirstWithin ==
    ASSUME NEW A, NEW rows \in Seq(A), NEW ok
    PROVE  FirstRows(rows, ok) \in Seq(A \cap ok)
<1> DEFINE n == Len(rows)
           V == Seq(A \cap ok)
           take(acc, e) == IF e \in ok /\ ~\E i \in DOMAIN acc : acc[i].src = e.src /\ acc[i].to = e.to
                           THEN Append(acc, e) ELSE acc
           Eq(g) == g = [s \in SUBSET DOMAIN rows |->
                           IF s = {} THEN <<>> ELSE take(g[s \ {Max(s)}], rows[Max(s)])]
           f == CHOOSE g : Eq(g)
           step == [p \in (1..n) \X V |-> take(p[2], rows[p[1]])]
<1>1. n \in Nat /\ DOMAIN rows = 1..n /\ \A i \in 1..n : rows[i] \in A
  BY LenProperties
<1>2. FirstRows(rows, ok) = f[DOMAIN rows]
  BY DEF FirstRows, FoldLeft, MapThenFoldSet
<1>3. ASSUME NEW acc \in V, NEW e \in A PROVE take(acc, e) \in V
  <2>1. CASE e \in ok
    <3>1. e \in A \cap ok
      BY <2>1
    <3>2. Append(acc, e) \in V
      BY <3>1, AppendProperties
    <3>3. take(acc, e) \in {acc, Append(acc, e)}
      OBVIOUS
    <3> QED BY <3>2, <3>3
  <2> QED BY <2>1
<1>4. <<>> \in V
  BY EmptySeq
<1> HIDE DEF V, take
<1>5. step \in [(1..n) \X V -> V]
  BY <1>1, <1>3
<1>6. \A k \in 1..n : \A acc \in V : step[<<k, acc>>] = take(acc, rows[k])
  OBVIOUS
<1> HIDE DEF step, n
<1>7. ASSUME NEW s \in SUBSET (1..n), s # {} PROVE Max(s) \in 1..n
  BY <1>1, <1>7, MaxIs
<1>8. \E g : Eq(g)
  <2>1. PICK g \in [SUBSET (1..n) -> V] : Folds(g, n, <<>>, step)
    BY <1>1, <1>4, <1>5, FoldSolved
  <2>2. ASSUME NEW s \in SUBSET (1..n), s # {}
        PROVE  g[s] = take(g[s \ {Max(s)}], rows[Max(s)])
    <3>1. g[s \ {Max(s)}] \in V
      OBVIOUS
    <3> QED BY <1>6, <1>7, <2>1, <2>2, <3>1 DEF Folds
  <2>3. g = [s \in SUBSET (1..n) |->
               IF s = {} THEN <<>> ELSE take(g[s \ {Max(s)}], rows[Max(s)])]
    BY <2>1, <2>2 DEF Folds
  <2> QED BY <1>1, <2>3
<1>9. Eq(f)
  BY <1>8
<1> HIDE DEF f
<1>10. f[{}] = <<>>
  BY <1>9
<1>11. ASSUME NEW k \in 1..n PROVE f[1..k] = take(f[1..(k - 1)], rows[k])
  <2>1. 1..k \in SUBSET (1..n) /\ 1..k # {} /\ Max(1..k) = k /\ (1..k) \ {Max(1..k)} = 1..(k - 1)
    BY <1>1, UpTo
  <2>2. f[1..k] = take(f[(1..k) \ {Max(1..k)}], rows[Max(1..k)])
    BY <1>1, <1>9, <2>1
  <2> QED BY <2>1, <2>2
<1>12. f[1..n] \in V
  <2>1. \A k \in 1..n : f[1..(k - 1)] \in V => f[1..k] = step[<<k, f[1..(k - 1)]>>]
    BY <1>6, <1>11
  <2>2. f[{}] \in V /\ n \in Nat
    BY <1>1, <1>4, <1>10
  <2> QED BY <1>5, <2>1, <2>2, FoldStays
<1> QED BY <1>1, <1>2, <1>12 DEF V

\* A search through rows of R that has only found targets of S.
Searches(S, R) ==
    {s \in [queue : Seq(S), chains : UNION {[D -> Seq(R)] : D \in SUBSET S}] :
        ToSet(s.queue) \subseteq DOMAIN s.chains}

\* One target taken from the queue keeps it so, when rows lead from S to S.
LEMMA VisitWithin ==
    ASSUME NEW R, NEW iface \in Seq(R), NEW S, NEW forbidden,
           \A e \in R : e.src \in S /\ e.to # forbidden => e.to \in S,
           NEW s \in Searches(S, R), s.queue # <<>>
    PROVE  Visit(iface, forbidden, s) \in Searches(S, R)
<1> DEFINE u == Head(s.queue)
           ok == {e \in ToSet(iface) : e.src = u /\ MayVisit(e.to, forbidden, s.chains)}
           new == IF Len(s.chains[u]) >= MAX_CHAIN_HOPS THEN <<>> ELSE KeptRows(iface, ok)
           row == [v \in {e.to : e \in ToSet(new)} |-> CHOOSE e \in ToSet(new) : e.to = v]
           more == [i \in DOMAIN new |-> new[i].to]
           after == [v \in DOMAIN s.chains \cup DOMAIN row |->
                        IF v \in DOMAIN s.chains THEN s.chains[v] ELSE Append(s.chains[u], row[v])]
<1>1. Visit(iface, forbidden, s) = [queue |-> Tail(s.queue) \o more, chains |-> after]
  BY DEF Visit
<1>2. PICK D \in SUBSET S : s.chains \in [D -> Seq(R)]
  BY DEF Searches
<1>3. s.queue \in Seq(S) /\ ToSet(s.queue) \subseteq D
  BY <1>2 DEF Searches
<1>4. u \in D /\ Tail(s.queue) \in Seq(S) /\ ToSet(Tail(s.queue)) \subseteq D
  <2>1. PICK q : q = s.queue
    OBVIOUS
  <2>2. PICK r : r = Tail(q)
    OBVIOUS
  <2>3. /\ q \in Seq(S) /\ q # <<>> /\ Len(q) \in Nat /\ DOMAIN q = 1..Len(q)
        /\ r \in Seq(S) /\ Len(r) = Len(q) - 1 /\ DOMAIN r = 1..Len(r)
        /\ \A i \in 1..Len(r) : r[i] = q[i + 1]
    BY <1>3, <2>1, <2>2, HeadTailProperties, LenProperties
  <2>4. Len(q) # 0 /\ u = q[1]
    BY <2>1, <2>3, EmptySeq
  <2>5. 1 \in DOMAIN q /\ \A i \in 1..Len(r) : i + 1 \in DOMAIN q
    BY <2>3, <2>4
  <2>6. \A i \in DOMAIN q : q[i] \in D
    BY <1>3, <2>1 DEF ToSet
  <2>7. u \in D
    BY <2>4, <2>5, <2>6
  <2>8. \A i \in DOMAIN r : r[i] \in D
    BY <2>3, <2>5, <2>6
  <2> QED BY <2>1, <2>2, <2>3, <2>7, <2>8 DEF ToSet
<1> HIDE DEF u
<1>5. new \in Seq(R) /\ \A e \in ToSet(new) : e \in R /\ e.to \in S
  <2>1. KeptRows(iface, ok) \in Seq(R \cap ok)
    BY KeptWithin
  <2>2. <<>> \in Seq(R \cap ok)
    BY EmptySeq
  <2>3. new \in Seq(R \cap ok)
    BY <2>1, <2>2
  <2> HIDE DEF new
  <2>4. /\ Len(new) \in Nat /\ DOMAIN new = 1..Len(new) /\ \A i \in 1..Len(new) : new[i] \in R \cap ok
    BY <2>3, LenProperties
  <2>5. new \in Seq(R)
    BY <2>3
  <2>6. \A e \in ok : e.src = u /\ e.to # forbidden
    BY DEF MayVisit
  <2>7. \A e \in ToSet(new) : e \in R /\ e \in ok
    BY <2>4 DEF ToSet
  <2> QED BY <1>2, <1>4, <2>5, <2>6, <2>7
<1> HIDE DEF new
<1>6. more \in Seq(S) /\ ToSet(more) = {e.to : e \in ToSet(new)}
  <2>1. Len(new) \in Nat /\ DOMAIN new = 1..Len(new) /\ \A i \in 1..Len(new) : new[i] \in ToSet(new)
    BY <1>5, LenProperties DEF ToSet
  <2>2. more \in [1..Len(new) -> S]
    BY <1>5, <2>1
  <2>3. ToSet(more) = {new[i].to : i \in DOMAIN new}
    BY DEF ToSet
  <2> QED BY <2>1, <2>2, <2>3 DEF ToSet
<1>7. \A v \in DOMAIN row : row[v] \in R
  BY <1>5
<1>8. DOMAIN row = {e.to : e \in ToSet(new)}
  OBVIOUS
<1> HIDE DEF row, more
<1>9. PICK E : E = D \cup DOMAIN row
  OBVIOUS
<1>10. E \in SUBSET S
  BY <1>5, <1>8, <1>9
<1>11. after \in [E -> Seq(R)]
  <2>1. after = [v \in E |-> IF v \in D THEN s.chains[v] ELSE Append(s.chains[u], row[v])]
    BY <1>2, <1>9
  <2>2. ASSUME NEW v \in E
        PROVE  (IF v \in D THEN s.chains[v] ELSE Append(s.chains[u], row[v])) \in Seq(R)
    <3>1. CASE v \in D
      BY <1>2, <3>1
    <3>2. CASE v \notin D
      <4>1. s.chains[u] \in Seq(R) /\ row[v] \in R
        BY <1>2, <1>4, <1>7, <1>9, <3>2
      <4>2. Append(s.chains[u], row[v]) \in Seq(R)
        BY <4>1, AppendProperties
      <4> QED BY <3>2, <4>2
    <3> QED BY <3>1, <3>2
  <2> HIDE DEF after
  <2> QED BY <2>1, <2>2
<1> HIDE DEF after
<1>12. Tail(s.queue) \o more \in Seq(S) /\ ToSet(Tail(s.queue) \o more) \subseteq E
  <2>1. PICK rest, found : rest = Tail(s.queue) /\ found = more
    OBVIOUS
  <2>2. rest \in Seq(S) /\ found \in Seq(S)
    BY <1>4, <1>6, <2>1
  <2>3. rest \o found \in Seq(S) /\ ToSet(rest \o found) = ToSet(rest) \cup ToSet(found)
    BY <2>2, ConcatSet
  <2> QED BY <1>4, <1>6, <1>8, <1>9, <2>1, <2>3
<1>13. PICK q : q = Tail(s.queue) \o more
  OBVIOUS
<1>14. [queue |-> q, chains |-> after] \in Searches(S, R)
  <2>1. DOMAIN after = E
    BY <1>11
  <2>2. after \in UNION {[X -> Seq(R)] : X \in SUBSET S}
    BY <1>10, <1>11
  <2> QED BY <1>12, <1>13, <2>1, <2>2 DEF Searches
<1> QED BY <1>1, <1>13, <1>14

\* So the search finds targets of S only.
LEMMA ChainsWithin ==
    ASSUME NamesInv, NEW R, NEW iface \in Seq(R), NEW S, NEW start \in S, NEW forbidden,
           \A e \in R : e.src \in S /\ e.to # forbidden => e.to \in S
    PROVE  DOMAIN Chains(iface, start, forbidden) \subseteq S
<1> DEFINE n == Cardinality(Real)
           V == Searches(S, R)
           base == [queue |-> <<start>>, chains |-> [v \in {start} |-> <<>>]]
           next(s) == IF s.queue = <<>> THEN s ELSE Visit(iface, forbidden, s)
           Eq(g) == g = [k \in 0..n |-> IF k = 0 THEN base ELSE next(g[k - 1])]
           after == CHOOSE g : Eq(g)
           step == [s \in V |-> next(s)]
<1>1. n \in Nat
  <2>1. Real \subseteq DOMAIN targets
    BY DEF Real
  <2> QED BY <2>1, FS_Subset, FS_CardinalityType DEF NamesInv
<1>2. base \in V
  <2>1. <<start>> \in Seq(S) /\ ToSet(<<start>>) \subseteq {start} /\ {start} \in SUBSET S
    BY DEF ToSet
  <2>2. <<>> \in Seq(R)
    BY EmptySeq
  <2>3. [v \in {start} |-> <<>>] \in [{start} -> Seq(R)]
    BY <2>2
  <2> QED BY <2>1, <2>3 DEF Searches
<1>3. ASSUME NEW s \in V PROVE next(s) \in V
  BY VisitWithin
<1>4. Chains(iface, start, forbidden) = after[n].chains
  BY DEF Chains
<1>5. \A s \in V : DOMAIN s.chains \subseteq S
  BY DEF Searches
<1> HIDE DEF n, V, base, next
<1>6. step \in [V -> V] /\ \A s \in V : step[s] = next(s)
  BY <1>3
<1> HIDE DEF step
<1>7. \E g : Eq(g)
  <2>1. PICK f \in [0..n -> V] : Iterates(f, n, base, step)
    BY <1>1, <1>2, <1>6, IterationSolved
  <2>2. ASSUME NEW k \in 0..n, k # 0 PROVE f[k] = next(f[k - 1])
    <3>1. k \in 1..n /\ k - 1 \in 0..n
      BY <1>1, <2>2
    <3> QED BY <1>6, <2>1, <3>1 DEF Iterates
  <2>3. Eq(f)
    BY <2>1, <2>2 DEF Iterates
  <2> QED BY <2>3
<1>8. Eq(after)
  BY <1>7
<1> HIDE DEF after
<1>9. after[0] = base /\ \A k \in 1..n : after[k] = next(after[k - 1])
  <2>1. 0 \in 0..n /\ \A k \in 1..n : k \in 0..n /\ k # 0
    BY <1>1
  <2>2. \A k \in 0..n : after[k] = IF k = 0 THEN base ELSE next(after[k - 1])
    BY <1>8
  <2> QED BY <2>1, <2>2
<1>10. \A k \in 0..n : after[k] \in V
  <2>1. \A k \in 1..n : after[k - 1] \in V => after[k] = step[after[k - 1]]
    BY <1>6, <1>9
  <2>2. StepsFrom(after, n, V, step) /\ after[0] = base
    BY <1>9, <2>1 DEF StepsFrom
  <2>3. Within(after, n, V)
    BY <1>1, <1>2, <1>6, <2>2, IterationStays
  <2> QED BY <2>3 DEF Within
<1>11. n \in 0..n
  BY <1>1
<1> QED BY <1>4, <1>5, <1>10, <1>11

\* The table of edges is a list.
LEMMA EdgesAreList ==
    ASSUME RowsInv
    PROVE  Edges \in Seq(ToSet(Edges))
<1>1. edges \in Seq(LinkRow)
  BY DEF RowsInv, LinksInv
<1>2. PICK ok : ok = {e \in ToSet(edges) : Resolve(e.src) # None}
  OBVIOUS
<1>3. PICK known : known = KeptRows(edges, ok)
  OBVIOUS
<1>4. known \in Seq(LinkRow \cap ok)
  BY <1>1, <1>3, KeptWithin
<1>5. Len(known) \in Nat /\ DOMAIN known = 1..Len(known)
  BY <1>4, LenProperties
<1>6. Edges = [i \in DOMAIN known |-> [src |-> Resolve(known[i].src), dst |-> known[i].dst,
                 to |-> Resolve(known[i].dst), vis |-> known[i].vis, ev |-> known[i].ev]]
  BY <1>2, <1>3 DEF Edges
<1> QED BY <1>5, <1>6 DEF ToSet

\* Both links of a finding are links of one target to others, and the chain is
\* one that the search found.
LEMMA RedundantIs ==
    ASSUME RowsInv, NEW f \in RedundantLinks
    PROVE  LET chains == Chains(InterfaceRows(Edges), f.head.to, f.edge.src)
           IN  /\ f.head \in Resolvable(Edges) /\ f.edge \in Resolvable(Edges)
               /\ f.head.src = f.edge.src /\ f.head.to # f.edge.to
               /\ f.edge.to \in DOMAIN chains
<1>1. PICK d \in DirectRows(Edges), h \in DirectRows(Edges) :
         /\ h.src = d.src /\ h.to # d.to
         /\ f = [edge |-> d, head |-> h,
                 chain |-> InterfacePath(InterfaceRows(Edges), h.to, d.to, d.src)]
         /\ f.chain # <<>>
  BY DEF RedundantLinks
<1>2. DirectRows(Edges) \subseteq Resolvable(Edges)
  <2>1. PICK ok : ok = {e \in Resolvable(Edges) : InSource(e.ev)}
    OBVIOUS
  <2>2. PICK first : first = FirstRows(Edges, ok)
    OBVIOUS
  <2>3. PICK A : A = ToSet(Edges)
    OBVIOUS
  <2>4. Edges \in Seq(A)
    BY <2>3, EdgesAreList
  <2>5. first \in Seq(A \cap ok)
    BY <2>2, <2>4, FirstWithin
  <2>6. \A i \in DOMAIN first : first[i] \in ok
    BY <2>5, LenProperties
  <2>7. DirectRows(Edges) = ToSet(first)
    BY <2>1, <2>2 DEF DirectRows
  <2> QED BY <2>1, <2>6, <2>7 DEF ToSet
<1>3. f.edge = d /\ f.head = h /\ InterfacePath(InterfaceRows(Edges), h.to, d.to, d.src) # <<>>
  BY <1>1
<1>4. d.to \in DOMAIN Chains(InterfaceRows(Edges), h.to, d.src)
  BY <1>3 DEF InterfacePath
<1> QED BY <1>1, <1>2, <1>3, <1>4

\* Without a direct link that redundant-links reports the target still links the
\* library, when the link to the provider is not INTERFACE.
THEOREM RedundantAreStillLinked == Spec => []RedundantStillLinked
<1>1. RowsInv => RedundantStillLinked
  <2> SUFFICES ASSUME RowsInv, AsWritten, NEW f \in RedundantLinks,
                      f.head.vis # "INTERFACE"
               PROVE  LET t == f.edge.src
                          b == f.edge.to
                          kept == {Meant(l.dst) : l \in world.links[t]} \ {None, b}
                          Export(d) == IF d = t THEN Exported(d) \ {b} ELSE Exported(d)
                          grow[k \in 0..Cardinality(Real)] ==
                             IF k = 0 THEN kept ELSE grow[k-1] \cup UNION {Export(d) : d \in grow[k-1]}
                      IN  b \in grow[Cardinality(Real)]
    BY DEF RedundantStillLinked
  <2> DEFINE t == f.edge.src
             b == f.edge.to
             n == Cardinality(Real)
             kept == {Meant(l.dst) : l \in world.links[t]} \ {None, b}
             Export(d) == IF d = t THEN Exported(d) \ {b} ELSE Exported(d)
             next(T) == T \cup UNION {Export(d) : d \in T}
             Eq(g) == g = [k \in 0..n |-> IF k = 0 THEN kept ELSE next(g[k - 1])]
             grow == CHOOSE g : Eq(g)
             step == [T \in SUBSET Real |-> next(T)]
  <2>1. NamesInv
    BY DEF RowsInv
  <2>2. n \in Nat /\ IsFiniteSet(Real)
    <3>1. Real \subseteq DOMAIN targets
      BY DEF Real
    <3> QED BY <2>1, <3>1, FS_Subset, FS_CardinalityType DEF NamesInv
  <2>3. kept \in SUBSET Real
    BY DependenciesHaveRows DEF Linked
  <2>4. step \in [SUBSET Real -> SUBSET Real]
    BY DependenciesHaveRows
  <2>5. \A T \in SUBSET Real : step[T] = next(T) /\ T \subseteq step[T]
    OBVIOUS
  <2>6. \A T : \A d \in T : d # t => Exported(d) \subseteq next(T)
    OBVIOUS
  <2>7. f.head.to \in kept /\ f.head.to # t
    <3>1. PICK h : h = f.head
      OBVIOUS
    <3>2. h \in ToSet(Edges) /\ h.to # None /\ h.to # t /\ h.src = t /\ h.to # b
      BY <3>1, RedundantIs DEF Resolvable
    <3>3. OwnLink(h)
      BY <3>1, <3>2, RowsCover DEF RowsInv, RowsCoverLinks
    <3>4. h.to = Meant(h.dst)
      BY <3>2, DependenciesHaveRows
    <3> QED BY <3>1, <3>2, <3>3, <3>4 DEF OwnLink
  <2> HIDE DEF step, next, kept
  <2>8. \E g : Eq(g)
    <3>1. PICK g \in [0..n -> SUBSET Real] : Iterates(g, n, kept, step)
      BY <2>2, <2>3, <2>4, IterationSolved
    <3>2. ASSUME NEW k \in 0..n, k # 0 PROVE g[k] = next(g[k - 1])
      <4>1. k \in 1..n /\ k - 1 \in 0..n
        BY <2>2, <3>2
      <4> QED BY <2>5, <3>1, <4>1 DEF Iterates
    <3>3. Eq(g)
      BY <3>1, <3>2 DEF Iterates
    <3> QED BY <3>3
  <2>9. Eq(grow)
    BY <2>8
  <2> HIDE DEF grow
  <2>10. PICK all, m, st, base, U : all = grow /\ m = n /\ st = step /\ base = kept /\ U = Real
    OBVIOUS
  <2>11. all[0] = base /\ \A k \in 1..m : all[k] = next(all[k - 1])
    <3>1. 0 \in 0..n /\ \A k \in 1..n : k \in 0..n /\ k # 0
      BY <2>2
    <3>2. \A k \in 0..n : grow[k] = IF k = 0 THEN kept ELSE next(grow[k - 1])
      BY <2>9
    <3> QED BY <2>10, <3>1, <3>2
  <2>12. Within(all, m, SUBSET U) /\ Iterates(all, m, base, st)
    <3>1. m \in Nat /\ base \in SUBSET U /\ st \in [SUBSET U -> SUBSET U] /\ all[0] = base
      BY <2>2, <2>3, <2>4, <2>10, <2>11
    <3>2. StepsFrom(all, m, SUBSET U, st)
      BY <2>5, <2>10, <2>11 DEF StepsFrom
    <3> QED BY <3>1, <3>2, IterationStays
  <2>13. all[m] \in SUBSET U /\ base \subseteq all[m] /\ Closed(st, all[m])
    <3>1. IsFiniteSet(U) /\ m = Cardinality(U) /\ Grows(U, st) /\ Within(all, m, SUBSET U)
      BY <2>2, <2>4, <2>5, <2>10, <2>12 DEF Grows
    <3> QED BY <2>12, <3>1, GrowthCloses
  <2>14. PICK S : S = all[m] \ {t}
    OBVIOUS
  <2>15. ASSUME NEW d \in S PROVE Exported(d) \subseteq all[m]
    <3>1. next(all[m]) = all[m]
      BY <2>5, <2>10, <2>13 DEF Closed
    <3> QED BY <2>6, <2>14, <3>1
  <2>16. PICK R : R = ToSet(Edges) \cap {e \in Resolvable(Edges) : Propagates(e)}
    OBVIOUS
  <2>17. InterfaceRows(Edges) \in Seq(R)
    <3>1. PICK A, ok : A = ToSet(Edges) /\ ok = {e \in Resolvable(Edges) : Propagates(e)}
      OBVIOUS
    <3>2. Edges \in Seq(A)
      BY <3>1, EdgesAreList
    <3>3. FirstRows(Edges, ok) \in Seq(A \cap ok)
      BY <3>2, FirstWithin
    <3> QED BY <2>16, <3>1, <3>3 DEF InterfaceRows
  <2>18. ASSUME NEW e \in R, e.src \in S, e.to # t PROVE e.to \in S
    <3>1. e \in ToSet(Edges) /\ e.to # None /\ e.vis # "PRIVATE"
      BY <2>16 DEF Resolvable, Propagates
    <3>2. ExportedLink(e)
      BY <3>1, RowsCover DEF RowsInv, RowsCoverLinks, AsWritten
    <3>3. e.to = Meant(e.dst)
      BY <3>1, DependenciesHaveRows
    <3>4. e.to \in Exported(e.src)
      BY <3>1, <3>2, <3>3 DEF ExportedLink, Exported
    <3> QED BY <2>14, <2>15, <2>18, <3>4
  <2>19. DOMAIN Chains(InterfaceRows(Edges), f.head.to, t) \subseteq S
    <3>1. PICK iface, start, forbidden :
             iface = InterfaceRows(Edges) /\ start = f.head.to /\ forbidden = t
      OBVIOUS
    <3>2. start \in S
      BY <2>7, <2>10, <2>13, <2>14, <3>1
    <3>3. iface \in Seq(R) /\ \A e \in R : e.src \in S /\ e.to # forbidden => e.to \in S
      BY <2>17, <2>18, <3>1
    <3>4. DOMAIN Chains(iface, start, forbidden) \subseteq S
      BY <2>1, <3>2, <3>3, ChainsWithin
    <3> QED BY <3>1, <3>4
  <2>20. b \in grow[n]
    <3>1. b \in DOMAIN Chains(InterfaceRows(Edges), f.head.to, t)
      BY RedundantIs
    <3> QED BY <2>10, <2>14, <2>19, <3>1
  <2> QED BY <2>20 DEF grow, next, kept
<1> QED BY <1>1, RowsKept, PTL

=============================================================================
