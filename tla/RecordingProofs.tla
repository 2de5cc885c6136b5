--------------------------- MODULE RecordingProofs ---------------------------
(***************************************************************************)
(* The replay of a project that CMake executes resolves every read to      *)
(* CMake's own answer, whatever the project: the scope stack the next      *)
(* event will see is CMake's call stack, frame by frame (Structure), the   *)
(* tables of the scopes are CMake's up to what a scope holds only as a     *)
(* copy (Data), and the caches agree (CacheAgrees).                        *)
(***************************************************************************)
EXTENDS Recording, ScopeReplayProofs, NaturalsInduction, WellFoundedInduction

-----------------------------------------------------------------------------
(* The call stack.                                                         *)

Value == Nat \cup {Hidden}

FrameSet == [kind : Kinds, depth : Nat \ {0}, unit : Files, node : Nodes \cup {"none"},
             tab : [Names -> Value], par : [Names -> Nat],
             copied : SUBSET Names, raised : SUBSET Names]

Framed(fs) ==
    /\ fs \in Seq(FrameSet)
    /\ Len(fs) \in Nat \ {0}
    /\ fs[1].kind = "root" /\ fs[1].depth = 1
    /\ \A i \in 1..Len(fs) : /\ fs[i].kind = "block" => fs[i].node \in Nodes
                             /\ fs[i].kind # "macro" => fs[i].par = NoTab

\* A bounded set of numbers has a largest.
LEMMA MaxOfIs ==
    ASSUME NEW S \in SUBSET Nat, NEW b \in Nat, S # {}, \A m \in S : m <= b
    PROVE  MaxOf(S) \in S /\ \A m \in S : m <= MaxOf(S)
<1> DEFINE less == {p \in Nat \X Nat : p[1] < p[2]}
           T    == {b - m : m \in S}
<1>1. IsWellFoundedOn(less, Nat)
  BY NatLessThanWellFounded DEF OpToRel
<1>2. T \subseteq Nat /\ T # {}
  <2>1. \A m \in S : m \in Nat /\ b - m \in Nat
    OBVIOUS
  <2> QED BY <2>1
<1>3. PICK t \in T : \A k \in T : ~(<<k, t>> \in less)
  <2> HIDE DEF less, T
  <2> QED BY <1>1, <1>2, WFMin
<1>4. PICK n \in S : t = b - n
  OBVIOUS
<1>5. ASSUME NEW m \in S PROVE m <= n
  <2>1. b - m \in T /\ b - m \in Nat /\ t \in Nat
    BY <1>2
  <2>2. ~(b - m < t)
    BY <1>3, <2>1
  <2> QED BY <1>4, <2>1, <2>2
<1> QED BY <1>5 DEF MaxOf

\* Of a call stack: the activation executing, and the innermost table.
LEMMA ExecutingIs ==
    ASSUME NEW fs, Framed(fs)
    PROVE  /\ Executing(fs) \in 1..Len(fs)
           /\ fs[Executing(fs)].kind # "block"
           /\ \A j \in 1..Len(fs) : j > Executing(fs) => fs[j].kind = "block"
<1> DEFINE S == {i \in DOMAIN fs : fs[i].kind # "block"}
<1>1. DOMAIN fs = 1..Len(fs) /\ Len(fs) \in Nat \ {0} /\ fs[1].kind = "root"
  BY LenProperties DEF Framed
<1>2. S \in SUBSET Nat /\ 1 \in S /\ \A m \in S : m <= Len(fs)
  BY <1>1
<1>3. Executing(fs) = MaxOf(S)
  BY DEF Executing
<1> HIDE DEF S
<1>4. MaxOf(S) \in S /\ \A m \in S : m <= MaxOf(S)
  BY <1>1, <1>2, MaxOfIs
<1>5. Executing(fs) \in Nat /\ \A j \in 1..Len(fs) : j > Executing(fs) => j \notin S
  <2>1. Executing(fs) \in Nat /\ \A j \in S : j <= Executing(fs)
    BY <1>2, <1>3, <1>4
  <2> HIDE DEF Executing
  <2> QED BY <2>1
<1> QED BY <1>1, <1>3, <1>4, <1>5 DEF S

LEMMA OwnIs ==
    ASSUME NEW fs, Framed(fs)
    PROVE  /\ Own(fs) \in 1..Len(fs)
           /\ Opaque(fs[Own(fs)])
           /\ \A j \in 1..Len(fs) : j > Own(fs) => ~Opaque(fs[j])
<1>1. DOMAIN fs = 1..Len(fs) /\ Len(fs) \in Nat \ {0} /\ fs[1].kind = "root"
  BY LenProperties DEF Framed
<1>2. OpaqueAt(fs) \in SUBSET Nat /\ 1 \in OpaqueAt(fs) /\ \A m \in OpaqueAt(fs) : m <= Len(fs)
  BY <1>1 DEF OpaqueAt, Opaque
<1>3. MaxOf(OpaqueAt(fs)) \in OpaqueAt(fs) /\ \A m \in OpaqueAt(fs) : m <= MaxOf(OpaqueAt(fs))
  BY <1>1, <1>2, MaxOfIs
<1>4. Own(fs) \in OpaqueAt(fs) /\ \A m \in OpaqueAt(fs) : m <= Own(fs)
  BY <1>3 DEF Own
<1>5. Own(fs) \in Nat /\ \A j \in 1..Len(fs) : j > Own(fs) => j \notin OpaqueAt(fs)
  BY <1>2, <1>4
<1> HIDE DEF Own
<1> QED BY <1>1, <1>4, <1>5 DEF OpaqueAt

\* The world a frame is in starts at the last try_compile project on the stack.
LEMMA WorldStartIs ==
    ASSUME NEW fs, Framed(fs)
    PROVE  /\ WorldStart(fs) \in 1..Own(fs)
           /\ Opaque(fs[WorldStart(fs)])
           /\ \A j \in 1..Len(fs) : j > WorldStart(fs) => fs[j].kind # "try_compile"
           /\ InTry(fs) => fs[WorldStart(fs)].kind = "try_compile"
           /\ ~InTry(fs) => WorldStart(fs) = 1
<1> DEFINE S == {1} \cup {i \in DOMAIN fs : fs[i].kind = "try_compile"}
<1>1. DOMAIN fs = 1..Len(fs) /\ Len(fs) \in Nat \ {0} /\ fs[1].kind = "root"
  BY LenProperties DEF Framed
<1>2. S \in SUBSET Nat /\ 1 \in S /\ \A m \in S : m <= Len(fs)
  BY <1>1
<1>3. WorldStart(fs) = MaxOf(S)
  BY DEF WorldStart
<1> HIDE DEF S
<1>4. MaxOf(S) \in S /\ \A m \in S : m <= MaxOf(S)
  BY <1>1, <1>2, MaxOfIs
<1>5. Opaque(fs[WorldStart(fs)]) /\ WorldStart(fs) \in 1..Len(fs)
  BY <1>1, <1>3, <1>4 DEF S, Opaque
<1>6. Own(fs) \in 1..Len(fs) /\ \A j \in 1..Len(fs) : j > Own(fs) => ~Opaque(fs[j])
  BY OwnIs
<1>7. WorldStart(fs) \in 1..Own(fs)
  BY <1>1, <1>5, <1>6
<1>8. \A j \in 1..Len(fs) : j > WorldStart(fs) => fs[j].kind # "try_compile"
  BY <1>1, <1>3, <1>4, <1>5 DEF S
<1>9. InTry(fs) => fs[WorldStart(fs)].kind = "try_compile"
  <2> SUFFICES ASSUME InTry(fs) PROVE fs[WorldStart(fs)].kind = "try_compile"
    OBVIOUS
  <2>1. PICK i \in 1..Len(fs) : fs[i].kind = "try_compile"
    BY <1>1 DEF InTry
  <2>2. i \in S /\ i # 1
    BY <1>1, <2>1 DEF S
  <2>3. WorldStart(fs) # 1
    BY <1>2, <1>3, <1>4, <1>5, <2>2
  <2> QED BY <1>3, <1>4, <2>3 DEF S
<1>10. ~InTry(fs) => WorldStart(fs) = 1
  BY <1>3, <1>4 DEF S, InTry
<1> QED BY <1>5, <1>7, <1>8, <1>9, <1>10

\* Where PARENT_SCOPE writes: the table next below, of the same world.
Above(fs) == MaxOf(OpaqueAt(SubSeq(fs, 1, Own(fs) - 1)))

LEMMA AboveIs ==
    ASSUME NEW fs, Framed(fs), ~AtTop(fs)
    PROVE  /\ Above(fs) \in WorldStart(fs)..(Own(fs) - 1)
           /\ Opaque(fs[Above(fs)])
           /\ \A j \in 1..Len(fs) : Above(fs) < j /\ j < Own(fs) => ~Opaque(fs[j])
<1> DEFINE c == Own(fs)
           S == OpaqueAt(SubSeq(fs, 1, c - 1))
<1>1. c \in 1..Len(fs) /\ Len(fs) \in Nat /\ fs \in Seq(FrameSet)
  BY OwnIs DEF Framed
<1>2. WorldStart(fs) \in 1..(c - 1) /\ Opaque(fs[WorldStart(fs)])
  BY <1>1, WorldStartIs DEF AtTop
<1> HIDE DEF c
<1>3. DOMAIN SubSeq(fs, 1, c - 1) = 1..(c - 1) /\ \A i \in 1..(c - 1) : SubSeq(fs, 1, c - 1)[i] = fs[i]
  BY <1>1, SubSeqProperties, LenProperties
<1>4. S = {i \in 1..(c - 1) : Opaque(fs[i])}
  BY <1>3 DEF OpaqueAt
<1> HIDE DEF S
<1>5. S \in SUBSET Nat /\ WorldStart(fs) \in S /\ c - 1 \in Nat /\ \A m \in S : m <= c - 1
  BY <1>1, <1>2, <1>4
<1>6. MaxOf(S) \in S /\ \A m \in S : m <= MaxOf(S)
  BY <1>5, MaxOfIs
<1>7. Above(fs) = MaxOf(S)
  BY DEF Above, S, c
<1>8. c = Own(fs)
  BY DEF c
<1>9. Above(fs) \in 1..(c - 1) /\ Opaque(fs[Above(fs)]) /\ WorldStart(fs) <= Above(fs)
  BY <1>4, <1>5, <1>6, <1>7
<1>10. ASSUME NEW j \in 1..Len(fs), Above(fs) < j, j < c PROVE ~Opaque(fs[j])
  BY <1>1, <1>4, <1>6, <1>7, <1>9, <1>10
<1> QED BY <1>1, <1>2, <1>8, <1>9, <1>10

-----------------------------------------------------------------------------
(* The scope stack the next event will see is the call stack.              *)

\* The scope of the pending frame.
Called(pend, id, w) ==
    LET args == [x \in Names |-> IF x \in pend.params THEN w ELSE NoRow]
        new  == NewScope(id, pend.depth, pend.kind)
    IN  CASE pend.kind = "macro"    -> [new EXCEPT !.params = args]
          [] pend.kind = "function" -> [new EXCEPT !.vars = args]
          [] OTHER                  -> new

LEMMA CalledIs ==
    ASSUME NEW e, Opens(e), NEW id, NEW w
    PROVE  OpenedScope(id, e, w) = Called(pending, id, w)
BY DEF OpenedScope, Called, Opens

LEMMA CalledFacts ==
    ASSUME NEW pend \in Pending, NEW id \in Nat, NEW w \in Nat
    PROVE  LET s    == Called(pend, id, w)
               args == [x \in Names |-> IF x \in pend.params THEN w ELSE NoRow]
           IN  /\ s \in Scope
               /\ s.depth = pend.depth /\ s.kind = pend.kind /\ s.id = id
               /\ s.transparent = Transparent(pend.kind)
               /\ s.params = IF pend.kind = "macro" THEN args ELSE Empty
               /\ s.vars = IF pend.kind = "function" THEN args ELSE Empty
<1> DEFINE args == [x \in Names |-> IF x \in pend.params THEN w ELSE NoRow]
           new  == NewScope(id, pend.depth, pend.kind)
<1>1. /\ new \in Scope /\ new.id = id /\ new.depth = pend.depth /\ new.kind = pend.kind
      /\ new.transparent = Transparent(pend.kind) /\ new.params = Empty /\ new.vars = Empty
  <2>1. pend.depth \in Nat /\ pend.kind \in Kinds
    BY DEF Pending
  <2> QED BY <2>1, NewScopeType DEF NewScope
<1>2. args \in [Names -> Nat]
  BY DEF NoRow
<1>3. Called(pend, id, w) = CASE pend.kind = "macro"    -> [new EXCEPT !.params = args]
                              [] pend.kind = "function" -> [new EXCEPT !.vars = args]
                              [] OTHER                  -> new
  BY DEF Called
<1> DEFINE s == Called(pend, id, w)
<1> HIDE DEF args, new, s
<1>4. s = CASE pend.kind = "macro"    -> [new EXCEPT !.params = args]
            [] pend.kind = "function" -> [new EXCEPT !.vars = args]
            [] OTHER                  -> new
  BY <1>3 DEF s
<1>5. /\ s \in Scope
      /\ s.depth = pend.depth /\ s.kind = pend.kind /\ s.id = id
      /\ s.transparent = Transparent(pend.kind)
      /\ s.params = IF pend.kind = "macro" THEN args ELSE Empty
      /\ s.vars = IF pend.kind = "function" THEN args ELSE Empty
  <2>1. CASE pend.kind = "macro"
    BY <1>1, <1>2, <1>4, <2>1 DEF Scope
  <2>2. CASE pend.kind = "function"
    BY <1>1, <1>2, <1>4, <2>2 DEF Scope
  <2>3. CASE pend.kind \notin {"macro", "function"}
    BY <1>1, <1>4, <2>3
  <2> QED BY <2>1, <2>2, <2>3
<1> QED BY <1>5 DEF s, args

Base == IF stack = <<>> THEN <<NewScope(1, 1, "root")>> ELSE stack

Due == IF Len(frames) > Len(Base)
       THEN Append(stack, Called(pending, Len(scopes) + 1, Len(writes) + 1))
       ELSE SubSeq(Base, 1, Len(frames))

\* Scope s is that of frame f.
Pair(s, f) ==
    /\ s.kind = f.kind /\ s.depth = f.depth
    /\ s.transparent <=> ~Opaque(f)
    /\ f.kind = "block" => s.range = f.node
    /\ s.params = f.par

Pairs(st, fs) == \A i \in 1..Len(fs) : Pair(st[i], fs[i])

\* Frames i + 1 to j are block()s executing in one another.
Chain(fs, i, j) == \A k \in 1..Len(fs) : i < k /\ k <= j => fs[k].kind = "block"

\* Depths grow along the stack, and the block()s open in an activation are
\* different ones, all of the file executing.
Nest(fs) ==
    \A i, j \in 1..Len(fs) : i < j =>
        /\ fs[i].depth <= fs[j].depth
        /\ fs[j].kind # "block" => fs[i].depth < fs[j].depth
        /\ Chain(fs, i, j) =>
             /\ fs[i].depth = fs[j].depth
             /\ fs[i].kind # "block" => fs[i].unit = NodeFile[fs[j].node]
             /\ fs[i].kind = "block" => fs[i].node # fs[j].node

\* Scopes of frames that are gone: the next event closes them, because they
\* are deeper, or are block()s left since the last event.
Stale(st, fs, lv) ==
    \A i \in 1..Len(st) : i > Len(fs) =>
        \/ st[i].depth > fs[Len(fs)].depth
        \/ /\ st[i].kind = "block" /\ st[i].depth = fs[Len(fs)].depth
           /\ st[i].range \in (Nodes \cap lv) \ Enclosing(fs)

Structure ==
    /\ Framed(frames)
    /\ Len(frames) <= Len(Base) + 1
    /\ Len(frames) > Len(Base) => /\ stack # <<>> /\ pending # None
                                  /\ pending.depth = Top.depth /\ Top.kind # "block"
    /\ Pairs(Due, frames)
    /\ Nest(frames)
    /\ Stale(Base, frames, left)

\* The event of a command CMake executes now.
Fits(e) ==
    /\ e.depth = Top.depth
    /\ e.file = frames[Executing(frames)].unit
    /\ e.at = Enclosing(frames) \cup ({e.node} \ {None})
    /\ e.node # None => e.node \notin left

LEMMA BaseIs ==
    ASSUME TypeOK, Structure
    PROVE  /\ Base \in Seq(Scope) /\ Len(Base) \in Nat \ {0}
           /\ Len(frames) \in Nat \ {0}
           /\ stack = <<>> => Len(frames) = 1 /\ Top.depth = 1
           /\ \A e : e.depth = Top.depth => BaseStack(e) = Base
<1>1. CASE stack = <<>>
  <2>1. NewScope(1, 1, "root") \in Scope
    BY NewScopeType DEF Kinds
  <2>2. Base \in Seq(Scope) /\ Len(Base) = 1
    BY <1>1, <2>1 DEF Base
  <2>3. Len(frames) \in Nat \ {0} /\ ~(Len(frames) > Len(Base)) /\ frames[1].depth = 1
    BY <1>1 DEF Structure, Framed
  <2>4. Len(frames) = 1
    <3>1. \A k \in Nat \ {0} : ~(k > 1) => k = 1
      OBVIOUS
    <3> QED BY <2>2, <2>3, <3>1, Zenon
  <2>5. Top.depth = 1
    BY <2>3, <2>4 DEF Top
  <2> QED BY <1>1, <2>2, <2>4, <2>5 DEF Base, BaseStack
<1>2. CASE stack # <<>>
  BY <1>2, EmptySeq, LenProperties DEF Base, BaseStack, TypeOK, Structure, Framed
<1> QED BY <1>1, <1>2

LEMMA DueIs ==
    ASSUME TypeOK, Structure
    PROVE  /\ Due \in Seq(Scope) /\ Len(Due) = Len(frames)
           /\ \A i \in 1..Len(frames) : i <= Len(Base) => Due[i] = Base[i]
           /\ Len(frames) > Len(Base) =>
                 Due[Len(frames)] = Called(pending, Len(scopes) + 1, Len(writes) + 1)
<1>b. /\ Base \in Seq(Scope) /\ Len(Base) \in Nat \ {0} /\ Len(frames) \in Nat \ {0}
      /\ stack \in Seq(Scope)
  BY BaseIs DEF TypeOK
<1>1. CASE Len(frames) > Len(Base)
  <2> DEFINE s == Called(pending, Len(scopes) + 1, Len(writes) + 1)
  <2>1. Base = stack /\ pending \in Pending /\ Len(frames) = Len(stack) + 1
    BY <1>b, <1>1 DEF Structure, Base, TypeOK
  <2>2. Len(scopes) + 1 \in Nat /\ Len(writes) + 1 \in Nat
    BY LenProperties DEF TypeOK
  <2>3. s \in Scope
    BY <2>1, <2>2, CalledFacts
  <2>4. Due = Append(stack, s)
    BY <1>1 DEF Due
  <2> HIDE DEF s
  <2>5. /\ Due \in Seq(Scope) /\ Len(Due) = Len(stack) + 1
        /\ \A i \in 1..Len(stack) : Due[i] = stack[i]
        /\ Due[Len(stack) + 1] = s
    BY <1>b, <2>3, <2>4, AppendProperties
  <2> QED BY <1>b, <1>1, <2>1, <2>5 DEF s
<1>2. CASE ~(Len(frames) > Len(Base))
  <2>1. Len(frames) \in 1..Len(Base) /\ Due = SubSeq(Base, 1, Len(frames))
    BY <1>b, <1>2 DEF Due
  <2> QED BY <1>b, <1>2, <2>1, KeptType
<1> QED BY <1>1, <1>2

\* Of what the replay may see in an event, one number of scopes survives.
LEMMA KeepsOnce ==
    ASSUME NEW st \in Seq(Scope), NEW e, NEW n, NEW m, Keeps(st, e, n), Keeps(st, e, m)
    PROVE  n = m
BY LenProperties DEF Keeps

\* The close loop leaves the scopes of the frames that are there.
LEMMA FramesSurvive ==
    ASSUME DisciplineInv, Structure, outcome = "running", NEW e, Event2(e), Fits(e), NEW n,
           Keeps(Base, e, n)
    PROVE  /\ Len(frames) > Len(Base) => n = Len(Base) /\ Opens(e)
           /\ Len(frames) <= Len(Base) => n = Len(frames) /\ ~Opens(e)
<1>t. TypeOK /\ Started /\ NoReturnedScopeOpen
  BY DEF DisciplineInv
<1>b. /\ Base \in Seq(Scope) /\ Len(Base) \in Nat \ {0} /\ Len(frames) \in Nat \ {0}
      /\ \A i \in 1..Len(Base) : Base[i].depth \in Nat
  <2>1. Base \in Seq(Scope) /\ Len(Base) \in Nat \ {0} /\ Len(frames) \in Nat \ {0}
    BY <1>t, BaseIs
  <2>2. \A i \in 1..Len(Base) : Base[i] \in Scope
    BY <2>1, ElementOfSeq
  <2> QED BY <2>1, <2>2 DEF Scope
<1>f. /\ Framed(frames) /\ Nest(frames) /\ frames \in Seq(FrameSet)
      /\ \A i \in 1..Len(frames) : frames[i] \in FrameSet /\ frames[i].depth \in Nat
  <2>1. Framed(frames) /\ Nest(frames) /\ frames \in Seq(FrameSet)
    BY DEF Structure, Framed
  <2>2. \A i \in 1..Len(frames) : frames[i] \in FrameSet
    BY <2>1, ElementOfSeq
  <2> QED BY <2>1, <2>2 DEF FrameSet
<1>x. /\ Executing(frames) \in 1..Len(frames) /\ Executing(frames) \in Nat
      /\ frames[Executing(frames)].kind # "block"
      /\ \A j \in 1..Len(frames) : j > Executing(frames) => frames[j].kind = "block"
  BY <1>b, <1>f, ExecutingIs
<1>d. e.depth = Top.depth /\ Top = frames[Len(frames)] /\ e.depth \in Nat
  BY <1>b, <1>f DEF Fits, Top
<1>1. CASE Len(frames) > Len(Base)
  <2>1. /\ Base = stack /\ Len(frames) = Len(Base) + 1
        /\ pending # None /\ pending.depth = e.depth /\ Top.kind # "block"
    BY <1>b, <1>d, <1>1 DEF Structure, Base
  <2>2. Len(Base) \in 1..Len(frames) /\ Due[Len(Base)] = Base[Len(Base)]
    BY <1>b, <1>t, <2>1, DueIs
  <2>3. Base[Len(Base)].depth = frames[Len(Base)].depth
    BY <2>2 DEF Structure, Pairs, Pair
  <2>4. Base[Len(Base)].depth < e.depth
    BY <1>b, <1>d, <1>f, <2>1, <2>2, <2>3 DEF Nest
  <2>5. ~Closes(Base[Len(Base)], e)
    BY <1>b, <1>d, <2>4 DEF Closes
  <2>6. Keeps(Base, e, Len(Base))
    BY <1>b, <2>5 DEF Keeps
  <2>7. n = Len(Base)
    BY <1>b, <2>6, KeepsOnce
  <2> QED BY <1>b, <1>1, <2>1, <2>7 DEF Opens
<1>2. CASE ~(Len(frames) > Len(Base))
  <2> DEFINE k == Len(frames)
  <2>1. k \in 1..Len(Base) /\ k \in 1..Len(frames) /\ Due[k] = Base[k]
    BY <1>b, <1>t, <1>2, DueIs
  <2>2. /\ Base[k].depth = e.depth /\ Base[k].kind = Top.kind
        /\ Top.kind = "block" => Base[k].range = Top.node
    BY <1>d, <2>1 DEF Structure, Pairs, Pair
  <2>3. Top.kind = "block" =>
           /\ Top.node \in Enclosing(frames) /\ Top.node \in Nodes
           /\ frames[Executing(frames)].unit = NodeFile[Top.node]
    <3> SUFFICES ASSUME Top.kind = "block"
                 PROVE  /\ Top.node \in Enclosing(frames) /\ Top.node \in Nodes
                        /\ frames[Executing(frames)].unit = NodeFile[Top.node]
      OBVIOUS
    <3>1. Executing(frames) < k
      BY <1>b, <1>d, <1>x, <2>1
    <3>2. Top.node \in Enclosing(frames)
      BY <1>b, <1>d, <1>x, <3>1 DEF Enclosing
    <3>3. Chain(frames, Executing(frames), k)
      BY <1>x DEF Chain
    <3> QED BY <1>d, <1>f, <1>x, <2>1, <3>1, <3>2, <3>3 DEF Nest, Framed
  <2>4. ~Closes(Base[k], e)
    <3>1. Top.kind = "block" => ~Outside(Base[k], e)
      BY <2>2, <2>3 DEF Outside, Fits
    <3> QED BY <1>b, <1>d, <2>1, <2>2, <3>1 DEF Closes
  <2>5. ASSUME NEW m \in 1..Len(Base), m > k PROVE Closes(Base[m], e)
    <3>1. CASE Base[m].depth > e.depth
      BY <3>1 DEF Closes
    <3>2. CASE /\ Base[m].kind = "block" /\ Base[m].depth = e.depth
               /\ Base[m].range \in (Nodes \cap left) \ Enclosing(frames)
      <4> DEFINE r == Base[m].range
      <4>1. r \in Nodes /\ r # None /\ r \notin Enclosing(frames) /\ r \in left
        BY <3>2, ReplayAssumption DEF ReplayAssumption
      <4>2. r \notin e.at
        BY <4>1 DEF Fits
      <4>3. ~Joined(e) => NodeFile[r] # e.file
        BY <4>1, RecordingAssumption DEF Joined, RecordingAssumption
      <4> QED BY <3>2, <4>1, <4>2, <4>3 DEF Closes, Outside
    <3> QED BY <1>d, <2>5, <3>1, <3>2 DEF Structure, Stale
  <2>6. Keeps(Base, e, k)
    BY <1>b, <2>1, <2>4, <2>5 DEF Keeps
  <2>7. n = k
    BY <1>b, <2>6, KeepsOnce
  <2>8. ~Opens(e)
    <3>1. CASE stack = <<>>
      BY <1>t, <3>1 DEF Started, Opens
    <3>2. CASE stack # <<>>
      BY <1>b, <1>t, <2>1, <2>2, <3>2 DEF Started, NoReturnedScopeOpen, Opens, Base
    <3> QED BY <3>1, <3>2
  <2> QED BY <1>b, <1>2, <2>7, <2>8
<1> QED BY <1>b, <1>1, <1>2

\* So the event meets the scopes of the call stack, one for each frame.
LEMMA EventSeesDue ==
    ASSUME DisciplineInv, Structure, outcome = "running", NEW e, Event2(e), Fits(e),
           NEW n, NEW st1, NEW sc1, NEW st2, NEW sc2, NEW ws2, NEW c2, NEW cmd, NEW st3,
           Stages(e, n, st1, sc1, st2, sc2, ws2, c2, cmd, st3)
    PROVE  st2 = Due
<1>t. TypeOK
  BY DEF DisciplineInv
<1>b. /\ BaseStack(e) = Base /\ Base \in Seq(Scope) /\ Len(Base) \in Nat \ {0}
      /\ Len(frames) \in Nat \ {0}
  BY <1>t, BaseIs DEF Fits
<1>1. Keeps(Base, e, n) /\ st1 = SubSeq(Base, 1, n)
  BY <1>b DEF Stages
<1>2. CASE Len(frames) > Len(Base)
  <2>1. n = Len(Base) /\ Opens(e) /\ Base = stack
    BY <1>1, <1>2, FramesSurvive DEF Structure, Base
  <2>2. Len(sc1) = Len(scopes)
    <3>1. BaseRows = scopes /\ scopes \in Seq(ScopeRow) /\ nEvents \in Nat
      BY <1>b, <1>t, <1>2, ReplayAssumption DEF BaseRows, Structure, TypeOK, ReplayAssumption
    <3> QED BY <3>1, CloseRowsType DEF Stages
  <2>3. st2 = Append(st1, OpenedScope(Len(sc1) + 1, e, Len(writes) + 1))
    BY <2>1 DEF Stages, Opened
  <2>4. st1 = stack
    <3>1. SubSeq(Base, 1, Len(Base)) = Base
      BY <1>b, SubSeqFull
    <3> QED BY <1>1, <2>1, <3>1
  <2> QED BY <1>2, <2>1, <2>2, <2>3, <2>4, CalledIs DEF Due
<1>3. CASE ~(Len(frames) > Len(Base))
  <2>1. n = Len(frames) /\ ~Opens(e)
    BY <1>1, <1>b, <1>3, FramesSurvive
  <2> QED BY <1>1, <1>3, <2>1 DEF Stages, Opened, Due
<1> QED BY <1>2, <1>3

\* What the event leaves on the stack.
LEMMA EventConsumed ==
    ASSUME DisciplineInv, Structure, NEW e, Event2(e), Fits(e), NEW dump, Replay(e, dump)
    PROVE  \E n, st1, sc1, sc2, ws2, c2, cmd, st3 :
              /\ Stages(e, n, st1, sc1, Due, sc2, ws2, c2, cmd, st3)
              /\ Results(e, dump, Due, sc2, ws2, c2, cmd, st3)
<1>1. PICK n, st1, sc1, st2, sc2, ws2, c2, cmd, st3 :
         /\ Stages(e, n, st1, sc1, st2, sc2, ws2, c2, cmd, st3)
         /\ Results(e, dump, st2, sc2, ws2, c2, cmd, st3)
  BY ReplayStages
<1>2. outcome = "running"
  BY DEF Replay
<1>3. st2 = Due
  BY <1>1, <1>2, EventSeesDue
<1> QED BY <1>1, <1>3

LEMMA StackAfter ==
    ASSUME DisciplineInv, Structure, NEW e, Event2(e), Fits(e), NEW dump, Replay(e, dump)
    PROVE  /\ stack' \in Seq(Scope) /\ Len(writes') \in Nat /\ Len(scopes') \in Nat
           /\ IsWrite(e) => /\ stack' = Written(Due, EffectiveCmd(Due, e.cmd), e.name, Len(writes'))
                            /\ Len(writes') \in Nat \ {0} /\ e.name \in Names
           /\ e.cmd = "block" => \E id \in Nat : stack' = Append(Due, BlockScope(e, id))
           /\ ~IsWrite(e) /\ e.cmd # "block" => stack' = Due
           /\ pending' = ComputePending(e, DefsAfter(e), nEvents + 1)
           /\ pending' \in Pending /\ pending'.depth = e.depth + 1 /\ pending' # None
<1>t. TypeOK
  BY DEF DisciplineInv
<1>n. PICK n, st1, sc1, sc2, ws2, c2, cmd, st3 :
         /\ Stages(e, n, st1, sc1, Due, sc2, ws2, c2, cmd, st3)
         /\ Results(e, dump, Due, sc2, ws2, c2, cmd, st3)
  BY EventConsumed
<1>1. ws2 \in Seq(WriteRow) /\ Len(ws2) \in Nat /\ Len(sc2) \in Nat
  BY <1>n, <1>t, StageTypes
<1>2. stack' \in Seq(Scope) /\ writes' \in Seq(WriteRow) /\ scopes' \in Seq(ScopeRow)
  BY <1>t, StackStep DEF TypeOK
<1>3. IsWrite(e) => /\ stack' = Written(Due, EffectiveCmd(Due, e.cmd), e.name, Len(writes'))
                    /\ Len(writes') \in Nat \ {0} /\ e.name \in Names
  <2> SUFFICES ASSUME IsWrite(e)
               PROVE  /\ stack' = Written(Due, EffectiveCmd(Due, e.cmd), e.name, Len(writes'))
                      /\ Len(writes') \in Nat \ {0} /\ e.name \in Names
    OBVIOUS
  <2>1. e.name \in Names /\ e.cmd # "block"
    BY DEF IsWrite, WriteCmds, Event2, Event
  <2>2. PICK row : writes' = Append(ws2, row)
    BY <1>n DEF Results
  <2>3. Len(writes') = Len(ws2) + 1
    BY <1>1, <2>2
  <2>4. stack' = Written(Due, EffectiveCmd(Due, e.cmd), e.name, Len(ws2) + 1)
    BY <1>n, <2>1 DEF Results, Stages
  <2> QED BY <1>1, <2>1, <2>3, <2>4
<1>4. ~IsWrite(e) => st3 = Due
  BY <1>n DEF Stages
<1>5. e.cmd = "block" => ~IsWrite(e)
  BY DEF IsWrite, WriteCmds
<1>6. stack' = IF e.cmd = "block" THEN Append(st3, BlockScope(e, Len(sc2) + 1)) ELSE st3
  BY <1>n DEF Results
<1>7. /\ pending' = ComputePending(e, DefsAfter(e), nEvents + 1)
      /\ pending' \in Pending /\ pending'.depth = e.depth + 1
  <2>1. e \in Event /\ nEvents + 1 \in Nat
    BY <1>t, ReplayAssumption DEF Event2, TypeOK, ReplayAssumption
  <2>2. DefsAfter(e) \in [Procs -> Def \cup {None}]
    BY <1>t, <2>1, DefsType
  <2> QED BY <1>n, <2>1, <2>2, PendingType DEF Results
<1>8. pending' # None
  BY <1>7, ReplayAssumption DEF ReplayAssumption
<1>9. Len(writes') \in Nat /\ Len(scopes') \in Nat
  BY <1>2, LenProperties
<1>10. e.cmd = "block" => \E id \in Nat : stack' = Append(Due, BlockScope(e, id))
  BY <1>1, <1>4, <1>5, <1>6
<1> HIDE DEF IsWrite
<1>11. ~IsWrite(e) /\ e.cmd # "block" => stack' = Due
  BY <1>4, <1>6
<1> QED BY <1>2, <1>3, <1>7, <1>8, <1>9, <1>10, <1>11

\* A write leaves alone what makes a scope the scope of its frame.
LEMMA WrittenVars ==
    \A st \in Seq(Scope) : \A cmd : \A x \in Names : \A w \in Nat : \A i \in 1..Len(st) :
        Written(st, cmd, x, w)[i].vars =
          IF Target(st, cmd, i)
          THEN [st[i].vars EXCEPT ![x] = IF cmd = "unset" THEN NoRow ELSE w]
          ELSE st[i].vars
<1> TAKE st \in Seq(Scope)
<1> TAKE cmd
<1> TAKE x \in Names
<1> TAKE w \in Nat
<1> TAKE i \in 1..Len(st)
<1>1. st[i] \in Scope
  BY ElementOfSeq
<1>2. CASE Target(st, cmd, i)
  <2> DEFINE v == IF cmd = "unset" THEN NoRow ELSE w
  <2>1. Written(st, cmd, x, w)[i] = [st[i] EXCEPT !.vars = [@ EXCEPT ![x] = v]]
    BY <1>2 DEF Written
  <2> HIDE DEF v
  <2>2. Written(st, cmd, x, w)[i].vars = [st[i].vars EXCEPT ![x] = v]
    BY <1>1, <2>1 DEF Scope
  <2> QED BY <1>2, <2>2 DEF v
<1>3. CASE ~Target(st, cmd, i)
  BY <1>3 DEF Written
<1> QED BY <1>2, <1>3

LEMMA WrittenPairs ==
    \A st \in Seq(Scope) : \A cmd : \A x \in Names : \A w \in Nat : \A i \in 1..Len(st) :
        /\ Written(st, cmd, x, w)[i].transparent = st[i].transparent
        /\ Written(st, cmd, x, w)[i].range = st[i].range
<1> TAKE st \in Seq(Scope)
<1> TAKE cmd
<1> TAKE x \in Names
<1> TAKE w \in Nat
<1> TAKE i \in 1..Len(st)
<1>1. st[i] \in Scope
  BY ElementOfSeq
<1>2. CASE Target(st, cmd, i)
  <2>1. PICK v : Written(st, cmd, x, w)[i] = [st[i] EXCEPT !.vars = [@ EXCEPT ![x] = v]]
    BY <1>2 DEF Written
  <2> QED BY <1>1, <2>1 DEF Scope
<1>3. CASE ~Target(st, cmd, i)
  BY <1>3 DEF Written
<1> QED BY <1>2, <1>3

\* Frames f and g differ in their tables only.
SameFrame(f, g) ==
    /\ f.kind = g.kind /\ f.depth = g.depth /\ f.unit = g.unit /\ f.node = g.node
    /\ f.par = g.par

\* After a command that pushes no frame the stack is the one the next event sees.
LEMMA PlainKeepsStructure ==
    ASSUME DisciplineInv, Structure, NEW e, Event2(e), Fits(e), NEW dump, Replay(e, dump),
           e.cmd # "block", Framed(frames'), Len(frames') = Len(frames),
           \A i \in 1..Len(frames) : SameFrame(frames'[i], frames[i])
    PROVE  Structure' /\ Due' = stack'
<1>t. TypeOK
  BY DEF DisciplineInv
<1>d. Due \in Seq(Scope) /\ Len(Due) = Len(frames) /\ Len(frames) \in Nat \ {0}
  BY <1>t, DueIs, BaseIs
<1>1. /\ stack' \in Seq(Scope) /\ Len(stack') = Len(frames)
      /\ \A i \in 1..Len(frames) : /\ stack'[i].kind = Due[i].kind /\ stack'[i].depth = Due[i].depth
                                   /\ stack'[i].transparent = Due[i].transparent
                                   /\ stack'[i].range = Due[i].range
                                   /\ stack'[i].params = Due[i].params
  <2>1. CASE IsWrite(e)
    <3>1. /\ stack' = Written(Due, EffectiveCmd(Due, e.cmd), e.name, Len(writes'))
          /\ Len(writes') \in Nat \ {0} /\ e.name \in Names
      BY <2>1, StackAfter
    <3> DEFINE cmd == EffectiveCmd(Due, e.cmd)
    <3> HIDE DEF cmd
    <3>2. stack' = Written(Due, cmd, e.name, Len(writes')) /\ Len(writes') \in Nat
      BY <3>1 DEF cmd
    <3>3. /\ stack' \in Seq(Scope) /\ Len(stack') = Len(Due)
          /\ \A i \in 1..Len(Due) : /\ stack'[i].kind = Due[i].kind
                                    /\ stack'[i].depth = Due[i].depth
                                    /\ stack'[i].params = Due[i].params
      BY <1>d, <3>1, <3>2, WrittenShape
    <3>4. \A i \in 1..Len(Due) : /\ stack'[i].transparent = Due[i].transparent
                                /\ stack'[i].range = Due[i].range
      BY <1>d, <3>1, <3>2, WrittenPairs
    <3> QED BY <1>d, <3>3, <3>4
  <2>2. CASE ~IsWrite(e)
    BY <1>d, <2>2, StackAfter
  <2> QED BY <2>1, <2>2
<1>2. stack' # <<>> /\ Base' = stack'
  BY <1>d, <1>1, EmptySeq DEF Base
<1>3. Due' = stack'
  <2>1. ~(Len(frames') > Len(Base'))
    BY <1>d, <1>1, <1>2
  <2>2. SubSeq(stack', 1, Len(stack')) = stack'
    BY <1>1, SubSeqFull
  <2> QED BY <1>1, <1>2, <2>1, <2>2 DEF Due
<1>4. Pairs(stack', frames')
  <2>1. \A i \in 1..Len(frames) : Opaque(frames'[i]) <=> Opaque(frames[i])
    BY DEF Opaque, SameFrame
  <2> QED BY <1>1, <2>1 DEF Structure, Pairs, Pair, SameFrame
<1>5. Nest(frames')
  <2>1. \A i \in 1..Len(frames) :
           /\ frames'[i].kind = frames[i].kind /\ frames'[i].depth = frames[i].depth
           /\ frames'[i].unit = frames[i].unit /\ frames'[i].node = frames[i].node
    BY DEF SameFrame
  <2>2. \A i, j \in 1..Len(frames) : Chain(frames', i, j) => Chain(frames, i, j)
    BY <2>1 DEF Chain
  <2>3. Nest(frames)
    BY DEF Structure
  <2> QED BY <2>1, <2>2, <2>3 DEF Nest
<1>6. Stale(Base', frames', left')
  BY <1>1, <1>2, <1>d DEF Stale
<1> QED BY <1>1, <1>2, <1>3, <1>4, <1>5, <1>6, <1>d DEF Structure

\* Stacks with one frame more, and with fewer.
LEMMA FramedPush ==
    ASSUME NEW fs, Framed(fs), NEW f \in FrameSet, f.kind = "block" => f.node \in Nodes,
           f.kind # "macro" => f.par = NoTab
    PROVE  /\ Framed(Append(fs, f)) /\ Len(Append(fs, f)) = Len(fs) + 1
           /\ \A i \in 1..Len(fs) : Append(fs, f)[i] = fs[i]
           /\ Append(fs, f)[Len(fs) + 1] = f
<1>1. fs \in Seq(FrameSet) /\ Len(fs) \in Nat \ {0}
  BY DEF Framed
<1>2. /\ Append(fs, f) \in Seq(FrameSet) /\ Len(Append(fs, f)) = Len(fs) + 1
      /\ \A i \in 1..Len(fs) : Append(fs, f)[i] = fs[i]
      /\ Append(fs, f)[Len(fs) + 1] = f
  BY <1>1, AppendProperties
<1>3. \A i \in 1..(Len(fs) + 1) : i \in 1..Len(fs) \/ i = Len(fs) + 1
  BY <1>1
<1> QED BY <1>1, <1>2, <1>3 DEF Framed

LEMMA FramedPrefix ==
    ASSUME NEW fs, Framed(fs), NEW k \in 1..Len(fs)
    PROVE  /\ Framed(SubSeq(fs, 1, k)) /\ Len(SubSeq(fs, 1, k)) = k
           /\ \A i \in 1..k : SubSeq(fs, 1, k)[i] = fs[i]
<1>1. fs \in Seq(FrameSet) /\ Len(fs) \in Nat \ {0}
  BY DEF Framed
<1>2. /\ SubSeq(fs, 1, k) \in Seq(FrameSet) /\ Len(SubSeq(fs, 1, k)) = k
      /\ \A i \in 1..k : SubSeq(fs, 1, k)[i] = fs[i]
  BY <1>1, SubSeqProperties, LenProperties
<1> QED BY <1>1, <1>2 DEF Framed

\* Depths are sorted, so the top is deepest.
LEMMA TopDeepest ==
    ASSUME NEW fs, Framed(fs), Nest(fs), NEW i \in 1..Len(fs)
    PROVE  fs[i].depth \in Nat /\ fs[i].depth <= fs[Len(fs)].depth /\ fs[Len(fs)].depth \in Nat
<1>1. fs \in Seq(FrameSet) /\ Len(fs) \in Nat \ {0} /\ Len(fs) \in 1..Len(fs)
  BY DEF Framed
<1>2. \A k \in 1..Len(fs) : fs[k].depth \in Nat
  <2>1. \A k \in 1..Len(fs) : fs[k] \in FrameSet
    BY <1>1, ElementOfSeq
  <2> QED BY <2>1 DEF FrameSet
<1>3. CASE i = Len(fs)
  BY <1>1, <1>2, <1>3
<1>4. CASE i < Len(fs)
  BY <1>1, <1>2, <1>4 DEF Nest
<1> QED BY <1>1, <1>3, <1>4

LEMMA NestPush ==
    ASSUME NEW fs, Framed(fs), Nest(fs), NEW f \in FrameSet, f.kind # "block",
           f.depth > fs[Len(fs)].depth
    PROVE  Nest(Append(fs, f))
<1> DEFINE gs == Append(fs, f)
           k  == Len(fs)
<1>1. k \in Nat \ {0} /\ fs \in Seq(FrameSet) /\ f.depth \in Nat
  BY DEF Framed, FrameSet
<1>2. Len(gs) = k + 1 /\ gs[k + 1] = f /\ \A i \in 1..k : gs[i] = fs[i]
  BY <1>1, AppendProperties
<1>3. \A i \in 1..k : /\ fs[i].depth \in Nat /\ fs[i].depth <= fs[k].depth
                      /\ fs[k].depth \in Nat
  BY TopDeepest
<1> HIDE DEF gs, k
<1>4. ASSUME NEW i \in 1..(k + 1), NEW j \in 1..(k + 1), i < j
      PROVE  /\ gs[i].depth <= gs[j].depth
             /\ gs[j].kind # "block" => gs[i].depth < gs[j].depth
             /\ Chain(gs, i, j) =>
                  /\ gs[i].depth = gs[j].depth
                  /\ gs[i].kind # "block" => gs[i].unit = NodeFile[gs[j].node]
                  /\ gs[i].kind = "block" => gs[i].node # gs[j].node
  <2>1. CASE j = k + 1
    <3>1. i \in 1..k /\ gs[i] = fs[i] /\ gs[j] = f
      BY <1>1, <1>2, <1>4, <2>1
    <3>2. fs[i].depth < f.depth
      BY <1>1, <1>3, <3>1 DEF k
    <3>3. ~Chain(gs, i, j)
      BY <1>2, <1>4, <3>1, <2>1 DEF Chain
    <3> QED BY <1>1, <1>3, <3>1, <3>2, <3>3
  <2>2. CASE j # k + 1
    <3>1. i \in 1..k /\ j \in 1..k /\ gs[i] = fs[i] /\ gs[j] = fs[j]
      BY <1>1, <1>2, <1>4, <2>2
    <3>2. Chain(gs, i, j) => Chain(fs, i, j)
      BY <1>1, <1>2 DEF Chain, k
    <3> QED BY <1>4, <3>1, <3>2 DEF Nest, k
  <2> QED BY <2>1, <2>2
<1>5. \A i, j \in 1..(k + 1) : i < j =>
         /\ gs[i].depth <= gs[j].depth
         /\ gs[j].kind # "block" => gs[i].depth < gs[j].depth
         /\ Chain(gs, i, j) =>
              /\ gs[i].depth = gs[j].depth
              /\ gs[i].kind # "block" => gs[i].unit = NodeFile[gs[j].node]
              /\ gs[i].kind = "block" => gs[i].node # gs[j].node
  BY <1>4, Zenon
<1>6. Nest(gs)
  BY <1>2, <1>5, SMTT(20) DEF Nest
<1> QED BY <1>6 DEF gs

\* A block() that is not open already starts in the file executing.
LEMMA NestBlock ==
    ASSUME NEW fs, Framed(fs), Nest(fs), NEW f \in FrameSet, f.kind = "block",
           f.depth = fs[Len(fs)].depth, f.node \notin Enclosing(fs),
           fs[Executing(fs)].unit = NodeFile[f.node]
    PROVE  Nest(Append(fs, f))
<1> DEFINE gs == Append(fs, f)
           k  == Len(fs)
           z  == Executing(fs)
<1>1. k \in Nat \ {0} /\ fs \in Seq(FrameSet) /\ f.depth \in Nat
  BY DEF Framed, FrameSet
<1>2. Len(gs) = k + 1 /\ gs[k + 1] = f /\ \A i \in 1..k : gs[i] = fs[i]
  BY <1>1, AppendProperties
<1>3. \A i \in 1..k : /\ fs[i].depth \in Nat /\ fs[i].depth <= fs[k].depth
                      /\ fs[k].depth \in Nat
  BY TopDeepest
<1>z. z \in 1..k /\ fs[z].kind # "block" /\ \A i \in 1..k : i > z => fs[i].kind = "block"
  BY ExecutingIs
<1>s. \A i \in 1..k : i > z => fs[i].node # f.node
  BY <1>1, <1>z DEF Enclosing
<1> HIDE DEF gs, k, z
<1>4. ASSUME NEW i \in 1..(k + 1), NEW j \in 1..(k + 1), i < j
      PROVE  /\ gs[i].depth <= gs[j].depth
             /\ gs[j].kind # "block" => gs[i].depth < gs[j].depth
             /\ Chain(gs, i, j) =>
                  /\ gs[i].depth = gs[j].depth
                  /\ gs[i].kind # "block" => gs[i].unit = NodeFile[gs[j].node]
                  /\ gs[i].kind = "block" => gs[i].node # gs[j].node
  <2>1. CASE j = k + 1
    <3>1. i \in 1..k /\ gs[i] = fs[i] /\ gs[j] = f
      BY <1>1, <1>2, <1>4, <2>1
    <3>2. ASSUME Chain(gs, i, j) PROVE i >= z /\ fs[i].depth = f.depth
      <4>1. i >= z
        BY <1>1, <1>2, <1>z, <2>1, <3>1, <3>2 DEF Chain
      <4>2. CASE i = k
        BY <4>1, <4>2 DEF k
      <4>3. CASE i # k
        <5>1. i < k /\ k \in 1..k
          BY <1>1, <3>1, <4>3
        <5>2. Chain(fs, i, k)
          BY <1>1, <1>2, <2>1, <3>2 DEF Chain, k
        <5> QED BY <4>1, <5>1, <5>2, <3>1 DEF Nest, k
      <4> QED BY <4>2, <4>3
    <3>3. fs[i].kind # "block" /\ i >= z => i = z
      BY <1>1, <1>z, <3>1
    <3>4. fs[i].kind = "block" /\ i >= z => i > z
      BY <1>1, <1>z, <3>1
    <3> QED BY <1>1, <1>3, <1>s, <3>1, <3>2, <3>3, <3>4 DEF k, z
  <2>2. CASE j # k + 1
    <3>1. i \in 1..k /\ j \in 1..k /\ gs[i] = fs[i] /\ gs[j] = fs[j]
      BY <1>1, <1>2, <1>4, <2>2
    <3>2. Chain(gs, i, j) => Chain(fs, i, j)
      BY <1>1, <1>2 DEF Chain, k
    <3> QED BY <1>4, <3>1, <3>2 DEF Nest, k
  <2> QED BY <2>1, <2>2
<1>5. \A i, j \in 1..(k + 1) : i < j =>
         /\ gs[i].depth <= gs[j].depth
         /\ gs[j].kind # "block" => gs[i].depth < gs[j].depth
         /\ Chain(gs, i, j) =>
              /\ gs[i].depth = gs[j].depth
              /\ gs[i].kind # "block" => gs[i].unit = NodeFile[gs[j].node]
              /\ gs[i].kind = "block" => gs[i].node # gs[j].node
  BY <1>4, Zenon
<1>6. Nest(gs)
  BY <1>2, <1>5, SMTT(20) DEF Nest
<1> QED BY <1>6 DEF gs

\* A call, an included file, a subdirectory or a try_compile: its scope is pending.
LEMMA PushKeepsStructure ==
    ASSUME DisciplineInv, Structure, NEW e, Event2(e), Fits(e), NEW dump, Replay(e, dump),
           e.cmd # "block", ~IsWrite(e), NEW f \in FrameSet, frames' = Append(frames, f),
           f.kind \in {"function", "macro", "directory", "include", "try_compile"},
           f.kind = pending'.kind, f.depth = Top.depth + 1,
           f.par = IF f.kind = "macro"
                   THEN [x \in Names |-> IF x \in pending'.params THEN Len(writes') + 1 ELSE NoRow]
                   ELSE NoTab
    PROVE  /\ Structure'
           /\ Due' = Append(Due, Called(pending', Len(scopes') + 1, Len(writes') + 1))
<1> DEFINE s == Called(pending', Len(scopes') + 1, Len(writes') + 1)
           k == Len(frames)
<1>t. TypeOK /\ Framed(frames) /\ Nest(frames)
  BY DEF DisciplineInv, Structure
<1>d. Due \in Seq(Scope) /\ Len(Due) = k /\ k \in Nat \ {0}
  BY <1>t, DueIs, BaseIs
<1>1. /\ stack' = Due /\ pending' \in Pending /\ pending' # None
      /\ pending'.depth = f.depth
      /\ Len(scopes') + 1 \in Nat /\ Len(writes') + 1 \in Nat
  BY StackAfter DEF Fits
<1>2. /\ Framed(frames') /\ Len(frames') = k + 1
      /\ \A i \in 1..k : frames'[i] = frames[i]
      /\ frames'[k + 1] = f
  BY <1>t, FramedPush
<1>3. /\ s \in Scope /\ s.depth = f.depth /\ s.kind = f.kind
      /\ s.transparent = Transparent(f.kind)
      /\ s.params = f.par
  <2>1. Empty = NoTab
    BY DEF Empty, NoTab, NoRow, Inherit
  <2> QED BY <1>1, <2>1, CalledFacts
<1> HIDE DEF s, k
<1>4. Base' = Due
  <2>1. Due # <<>>
    BY <1>d, EmptySeq
  <2> QED BY <1>1, <2>1 DEF Base
<1>5. Due' = Append(Due, s)
  <2>1. Len(frames') > Len(Base')
    BY <1>2, <1>4, <1>d
  <2> QED BY <1>1, <2>1 DEF Due, s
<1>6. Len(Due') = k + 1 /\ Due'[k + 1] = s /\ \A i \in 1..k : Due'[i] = Due[i]
  BY <1>d, <1>3, <1>5, AppendProperties
<1>7. Pairs(Due', frames')
  <2>1. Pair(s, f)
    BY <1>3 DEF Pair, Opaque, Transparent
  <2>2. \A i \in 1..k : Pair(Due'[i], frames'[i])
    BY <1>2, <1>6 DEF Structure, Pairs, k
  <2>3. \A i \in 1..(k + 1) : i \in 1..k \/ i = k + 1
    BY <1>d
  <2> QED BY <1>2, <1>6, <2>1, <2>2, <2>3 DEF Pairs
<1>8. Nest(frames')
  <2>1. frames[Len(frames)].depth \in Nat
    BY <1>t, <1>d, TopDeepest DEF k
  <2> QED BY <1>t, <2>1, NestPush DEF Top
<1>9. Stale(Base', frames', left')
  BY <1>2, <1>4, <1>d DEF Stale
<1>10. /\ Len(frames') <= Len(Base') + 1
       /\ stack' # <<>> /\ pending' # None /\ pending'.depth = Top'.depth /\ Top'.kind # "block"
  <2>1. Top' = f
    BY <1>2 DEF Top
  <2>2. Due # <<>>
    BY <1>d, EmptySeq
  <2> QED BY <1>1, <1>2, <1>4, <1>d, <2>1, <2>2
<1> QED BY <1>2, <1>5, <1>7, <1>8, <1>9, <1>10 DEF Structure, s

\* A block() opens at the depth of the frame it is in.
LEMMA BlockKeepsStructure ==
    ASSUME DisciplineInv, Structure, NEW e, Event2(e), Fits(e), NEW dump, Replay(e, dump),
           e.cmd = "block", Joined(e), NEW f \in FrameSet, frames' = Append(frames, f),
           f.kind = "block", f.node = e.node, f.depth = Top.depth, f.par = NoTab,
           f.node \notin Enclosing(frames), e.file = NodeFile[e.node]
    PROVE  /\ Structure' /\ Due' = stack'
           /\ \E id \in Nat : stack' = Append(Due, BlockScope(e, id))
<1> DEFINE k == Len(frames)
<1>t. TypeOK /\ Framed(frames) /\ Nest(frames)
  BY DEF DisciplineInv, Structure
<1>e. e \in Event /\ e.node \in Nodes
  BY DEF Event2
<1>d. Due \in Seq(Scope) /\ Len(Due) = k /\ k \in Nat \ {0}
  BY <1>t, DueIs, BaseIs
<1>1. PICK id \in Nat : stack' = Append(Due, BlockScope(e, id))
  BY StackAfter
<1> DEFINE s == BlockScope(e, id)
<1>2. /\ s \in Scope /\ s.depth = e.depth /\ s.kind = "block" /\ s.params = Empty
      /\ s.range = e.node /\ (s.transparent <=> ~NodeVars[e.node])
  <2>1. s \in Scope /\ s.depth = e.depth /\ s.kind = "block" /\ s.params = Empty
    BY <1>e, BlockScopeType
  <2>2. s.range = e.node /\ s.transparent = ~NodeVars[e.node]
    <3> DEFINE new == NewScope(id, e.depth, "block")
    <3>1. new \in Scope
      BY <1>e, NewScopeType DEF Kinds, Event
    <3> HIDE DEF new
    <3> QED BY <3>1 DEF BlockScope, new, Scope
  <2> QED BY <2>1, <2>2
<1>3. /\ Framed(frames') /\ Len(frames') = k + 1
      /\ \A i \in 1..k : frames'[i] = frames[i]
      /\ frames'[k + 1] = f
  BY <1>e, <1>t, FramedPush
<1> HIDE DEF s, k
<1>4. /\ stack' \in Seq(Scope) /\ Len(stack') = k + 1 /\ stack'[k + 1] = s
      /\ \A i \in 1..k : stack'[i] = Due[i]
  BY <1>d, <1>1, <1>2, AppendProperties DEF s
<1>5. Base' = stack' /\ stack' # <<>>
  BY <1>d, <1>4, EmptySeq DEF Base
<1>6. Due' = stack'
  <2>1. ~(Len(frames') > Len(Base'))
    BY <1>3, <1>4, <1>5, <1>d
  <2>2. SubSeq(stack', 1, Len(stack')) = stack'
    BY <1>4, SubSeqFull
  <2> QED BY <1>3, <1>4, <1>5, <2>1, <2>2 DEF Due
<1>7. Pairs(Due', frames')
  <2>1. Pair(s, f)
    <3>1. Empty = NoTab
      BY DEF Empty, NoTab, NoRow, Inherit
    <3> QED BY <1>2, <3>1 DEF Pair, Opaque, Fits
  <2>2. \A i \in 1..k : Pair(Due'[i], frames'[i])
    BY <1>3, <1>4, <1>6 DEF Structure, Pairs, k
  <2>3. \A i \in 1..(k + 1) : i \in 1..k \/ i = k + 1
    BY <1>d
  <2> QED BY <1>3, <1>4, <1>6, <2>1, <2>2, <2>3 DEF Pairs
<1>8. Nest(frames')
  <2>1. frames[Executing(frames)].unit = NodeFile[f.node]
    BY DEF Fits
  <2> QED BY <1>t, <2>1, NestBlock DEF Top
<1>9. Stale(Base', frames', left') /\ Len(frames') <= Len(Base') + 1 /\ ~(Len(frames') > Len(Base'))
  BY <1>3, <1>4, <1>5, <1>d DEF Stale
<1> QED BY <1>1, <1>3, <1>6, <1>7, <1>8, <1>9 DEF Structure

\* Frames go without an event; the scopes of those that stay are untouched.
LEMMA ShrinkKeepsStructure ==
    ASSUME TypeOK, Structure, NEW k \in 1..Len(frames), k < Len(frames),
           frames' = SubSeq(frames, 1, k), UNCHANGED <<stack, pending, scopes, writes>>,
           Stale(Base, frames', left')
    PROVE  /\ Structure' /\ Len(frames') = k
           /\ \A i \in 1..k : Due'[i] = Due[i] /\ frames'[i] = frames[i]
<1>b. /\ Base \in Seq(Scope) /\ Len(Base) \in Nat \ {0} /\ Len(frames) \in Nat \ {0}
      /\ Base' = Base /\ k <= Len(Base)
  <2>1. /\ Base \in Seq(Scope) /\ Len(Base) \in Nat \ {0} /\ Len(frames) \in Nat \ {0}
        /\ Len(frames) <= Len(Base) + 1
    BY BaseIs DEF Structure
  <2> QED BY <2>1 DEF Base
<1>1. /\ Framed(frames') /\ Len(frames') = k
      /\ \A i \in 1..k : frames'[i] = frames[i]
  BY FramedPrefix DEF Structure
<1>2. Due' = SubSeq(Base, 1, k)
  <2>1. ~(Len(frames') > Len(Base'))
    BY <1>b, <1>1
  <2> QED BY <1>b, <1>1, <2>1 DEF Due
<1>3. \A i \in 1..k : Due'[i] = Due[i]
  <2>1. \A i \in 1..k : SubSeq(Base, 1, k)[i] = Base[i]
    BY <1>b, KeptType
  <2>2. \A i \in 1..k : Due[i] = Base[i]
    BY <1>b, DueIs
  <2> QED BY <1>2, <2>1, <2>2
<1>4. Pairs(Due', frames')
  BY <1>b, <1>1, <1>3 DEF Structure, Pairs
<1>5. Nest(frames')
  <2>1. \A i, j \in 1..k : Chain(frames', i, j) => Chain(frames, i, j)
    BY <1>b, <1>1 DEF Chain
  <2>2. Nest(frames)
    BY DEF Structure
  <2> QED BY <1>b, <1>1, <2>1, <2>2 DEF Nest
<1>6. Len(frames') <= Len(Base') + 1 /\ ~(Len(frames') > Len(Base'))
  BY <1>b, <1>1
<1> QED BY <1>b, <1>1, <1>3, <1>4, <1>5, <1>6 DEF Structure

\* A return takes the blocks of the frame with it; what is left behind is deeper
\* than the frame returned to.
LEMMA ReturnLeavesStale ==
    ASSUME TypeOK, Structure, Executing(frames) > 1
    PROVE  /\ Executing(frames) - 1 \in 1..Len(frames) /\ Executing(frames) - 1 < Len(frames)
           /\ Stale(Base, SubSeq(frames, 1, Executing(frames) - 1), left)
<1> DEFINE z == Executing(frames)
           k == z - 1
           fs == SubSeq(frames, 1, k)
<1>t. Framed(frames) /\ Nest(frames) /\ Pairs(Due, frames) /\ Stale(Base, frames, left)
  BY DEF Structure
<1>b. /\ Base \in Seq(Scope) /\ Len(Base) \in Nat /\ Len(frames) \in Nat \ {0}
      /\ \A i \in 1..Len(Base) : Base[i].depth \in Nat
  <2>1. Base \in Seq(Scope) /\ Len(Base) \in Nat /\ Len(frames) \in Nat \ {0}
    BY BaseIs
  <2>2. \A i \in 1..Len(Base) : Base[i] \in Scope
    BY <2>1, ElementOfSeq
  <2> QED BY <2>1, <2>2 DEF Scope
<1>z. z \in 1..Len(frames) /\ frames[z].kind # "block"
  BY <1>t, ExecutingIs
<1>1. k \in 1..Len(frames) /\ k < Len(frames) /\ k < z
  BY <1>b, <1>z
<1> HIDE DEF z, k
<1>2. Len(fs) = k /\ fs[k] = frames[k]
  BY <1>1, <1>t, FramedPrefix
<1>3. \A i \in 1..Len(frames) : frames[i].depth \in Nat /\ (i >= z => frames[i].depth > frames[k].depth)
  <2>1. \A i \in 1..Len(frames) : frames[i].depth \in Nat
    BY <1>t, TopDeepest
  <2>2. frames[k].depth < frames[z].depth
    BY <1>1, <1>t, <1>z DEF Nest
  <2>3. \A i \in 1..Len(frames) : i > z => frames[z].depth <= frames[i].depth
    BY <1>t, <1>z DEF Nest
  <2> QED BY <1>1, <1>z, <2>1, <2>2, <2>3
<1> HIDE DEF fs
<1>4. ASSUME NEW i \in 1..Len(Base), i > k PROVE Base[i].depth > frames[k].depth
  <2>1. CASE i <= Len(frames)
    <3>1. i \in 1..Len(frames) /\ i >= z
      BY <1>b, <1>z, <1>4, <2>1 DEF k
    <3>2. Base[i].depth = frames[i].depth
      BY <1>t, <2>1, <3>1, DueIs DEF Pairs, Pair
    <3> QED BY <1>3, <3>1, <3>2
  <2>2. CASE i > Len(frames)
    <3>1. Base[i].depth >= frames[Len(frames)].depth
      <4>1. Len(frames) \in 1..Len(frames)
        BY <1>b
      <4> QED BY <1>b, <1>3, <1>t, <2>2, <4>1 DEF Stale
    <3>2. Len(frames) \in 1..Len(frames) /\ Len(frames) >= z
      BY <1>b, <1>z
    <3> QED BY <1>b, <1>1, <1>3, <3>1, <3>2
  <2> QED BY <1>b, <2>1, <2>2
<1>5. Stale(Base, fs, left)
  BY <1>2, <1>4 DEF Stale
<1> QED BY <1>1, <1>5 DEF z, k, fs

\* endblock() leaves a scope the next event will find itself outside of.
LEMMA EndBlockLeavesStale ==
    ASSUME TypeOK, Structure, Top.kind = "block"
    PROVE  /\ Len(frames) - 1 \in 1..Len(frames) /\ Len(frames) - 1 < Len(frames)
           /\ Stale(Base, SubSeq(frames, 1, Len(frames) - 1), left \cup {Top.node})
<1> DEFINE n == Len(frames)
           k == n - 1
           fs == SubSeq(frames, 1, k)
           lv == left \cup {Top.node}
           z == Executing(frames)
<1>t. Framed(frames) /\ Nest(frames) /\ Pairs(Due, frames) /\ Stale(Base, frames, left)
  BY DEF Structure
<1>b. /\ Base \in Seq(Scope) /\ Len(Base) \in Nat /\ n \in Nat \ {0}
      /\ \A i \in 1..Len(Base) : Base[i].depth \in Nat
  <2>1. Base \in Seq(Scope) /\ Len(Base) \in Nat /\ Len(frames) \in Nat \ {0}
    BY BaseIs
  <2>2. \A i \in 1..Len(Base) : Base[i] \in Scope
    BY <2>1, ElementOfSeq
  <2> QED BY <2>1, <2>2 DEF Scope
<1>z. z \in 1..n /\ frames[z].kind # "block" /\ \A j \in 1..n : j > z => frames[j].kind = "block"
  BY <1>t, ExecutingIs
<1>1. Top = frames[n] /\ z < n /\ k \in 1..n /\ k < n /\ z \in 1..k /\ n \in 1..n
  BY <1>b, <1>z DEF Top
<1> HIDE DEF n, k, fs, z
<1>2. Framed(fs) /\ Len(fs) = k /\ \A i \in 1..k : fs[i] = frames[i]
  BY <1>1, <1>t, FramedPrefix DEF n, k, fs
<1>3. Executing(fs) = z
  <2> DEFINE y == Executing(fs)
  <2>1. y \in 1..k /\ fs[y].kind # "block" /\ \A j \in 1..k : j > y => fs[j].kind = "block"
    BY <1>2, ExecutingIs
  <2> HIDE DEF y
  <2>2. y = z
    BY <1>1, <1>2, <1>z, <1>b, <2>1
  <2> QED BY <2>2 DEF y
<1>4. Enclosing(fs) \subseteq Enclosing(frames) /\ Top.node \notin Enclosing(fs)
  <2>1. \A i \in (z + 1)..k : i \in (z + 1)..n /\ fs[i].node = frames[i].node
    BY <1>1, <1>2, <1>b
  <2>2. ASSUME NEW i \in (z + 1)..k PROVE frames[i].node # frames[n].node
    <3>1. i \in 1..n /\ i < n /\ frames[i].kind = "block"
      BY <1>1, <1>b, <1>z
    <3>2. Chain(frames, i, n)
      BY <1>z, <1>1, <1>b DEF Chain, n
    <3> QED BY <1>t, <1>1, <3>1, <3>2 DEF Nest, n
  <2>3. Enclosing(fs) = {fs[i].node : i \in (z + 1)..k}
    BY <1>2, <1>3 DEF Enclosing
  <2>4. Enclosing(frames) = {frames[i].node : i \in (z + 1)..n}
    BY DEF Enclosing, z, n
  <2> QED BY <1>1, <2>1, <2>2, <2>3, <2>4
<1>5. frames[k].depth = frames[n].depth /\ frames[n].depth \in Nat
  <2>1. Chain(frames, k, n)
    BY <1>1, <1>b DEF Chain, k, n
  <2>2. frames[n].depth \in Nat
    BY <1>1, <1>t, TopDeepest DEF n
  <2> QED BY <1>1, <1>t, <2>1, <2>2 DEF Nest, n
<1>6. ASSUME NEW i \in 1..Len(Base), i > k
      PROVE  \/ Base[i].depth > frames[k].depth
             \/ /\ Base[i].kind = "block" /\ Base[i].depth = frames[k].depth
                /\ Base[i].range \in (Nodes \cap lv) \ Enclosing(fs)
  <2>1. CASE i = n
    <3>1. Base[i].kind = "block" /\ Base[i].depth = frames[n].depth /\ Base[i].range = Top.node
      <4>1. Due[n] = Base[n]
        BY <1>1, <1>6, <2>1, DueIs DEF n
      <4> QED BY <1>1, <1>t, <2>1, <4>1 DEF Pairs, Pair, n
    <3>2. Top.node \in Nodes
      BY <1>1, <1>t DEF Framed, n
    <3> QED BY <1>4, <1>5, <3>1, <3>2
  <2>2. CASE i > n
    <3>1. \/ Base[i].depth > frames[n].depth
          \/ /\ Base[i].kind = "block" /\ Base[i].depth = frames[n].depth
             /\ Base[i].range \in (Nodes \cap left) \ Enclosing(frames)
      BY <1>t, <2>2 DEF Stale, n
    <3> QED BY <1>4, <1>5, <3>1
  <2> QED BY <1>b, <1>1, <1>6, <2>1, <2>2 DEF k
<1> HIDE DEF lv
<1>7. Stale(Base, fs, lv)
  <2> SUFFICES ASSUME NEW i \in 1..Len(Base), i > Len(fs)
               PROVE  \/ Base[i].depth > fs[Len(fs)].depth
                      \/ /\ Base[i].kind = "block" /\ Base[i].depth = fs[Len(fs)].depth
                         /\ Base[i].range \in (Nodes \cap lv) \ Enclosing(fs)
    BY DEF Stale
  <2>1. fs[k] = frames[k] /\ Len(fs) = k
    BY <1>1, <1>2, <1>b
  <2> QED BY <1>6, <2>1
<1> QED BY <1>1, <1>7 DEF n, k, fs, lv

\* project() and find_package() go from file to file in one frame.
LEMMA NextFileKeepsStructure ==
    ASSUME TypeOK, Structure, Top.kind = "include", NEW unit \in Files,
           frames' = [frames EXCEPT ![Len(frames)].unit = unit],
           UNCHANGED <<stack, pending, scopes, writes, left>>
    PROVE  /\ Structure' /\ Due' = Due /\ Len(frames') = Len(frames)
           /\ \A i \in 1..Len(frames) : frames'[i] = IF i = Len(frames)
                                                     THEN [Top EXCEPT !.unit = unit] ELSE frames[i]
<1> DEFINE n == Len(frames)
<1>t. /\ Framed(frames) /\ Nest(frames) /\ Pairs(Due, frames) /\ Stale(Base, frames, left)
      /\ frames \in Seq(FrameSet) /\ n \in Nat \ {0} /\ n \in 1..n
  BY DEF Structure, Framed
<1>f. Top \in FrameSet /\ Top = frames[n]
  BY <1>t, ElementOfSeq DEF Top
<1>1. [Top EXCEPT !.unit = unit] \in FrameSet
  BY <1>f DEF FrameSet
<1>2. /\ Len(frames') = n
      /\ \A i \in 1..n : frames'[i] = IF i = n THEN [Top EXCEPT !.unit = unit] ELSE frames[i]
      /\ frames' = [i \in 1..n |-> frames'[i]]
  <2>1. DOMAIN frames = 1..n
    BY <1>t, LenProperties
  <2>2. frames' = [i \in 1..n |-> IF i = n THEN [frames[n] EXCEPT !.unit = unit] ELSE frames[i]]
    BY <2>1
  <2>3. Len(frames') = n
    BY <2>2, <1>t
  <2> QED BY <1>f, <1>t, <2>2, <2>3
<1> HIDE DEF n
<1>3. frames' \in Seq(FrameSet)
  <2>1. \A i \in 1..n : frames'[i] \in FrameSet
    <3>1. \A i \in 1..n : frames[i] \in FrameSet
      BY <1>t, ElementOfSeq DEF n
    <3> QED BY <1>1, <1>2, <3>1
  <2> QED BY <1>2, <1>t, <2>1, IsASeq, SMTT(20)
<1>4. /\ \A i \in 1..n : /\ frames'[i].kind = frames[i].kind
                         /\ frames'[i].depth = frames[i].depth
                         /\ frames'[i].node = frames[i].node
                         /\ frames'[i].par = frames[i].par
      /\ \A i \in 1..n : i < n => frames'[i].unit = frames[i].unit
  BY <1>1, <1>2, <1>f, <1>t DEF FrameSet
<1>5. Framed(frames')
  <2>1. n \in Nat \ {0} /\ frames[1].kind = "root" /\ frames[1].depth = 1
        /\ \A i \in 1..n : /\ frames[i].kind = "block" => frames[i].node \in Nodes
                           /\ frames[i].kind # "macro" => frames[i].par = NoTab
    BY <1>t DEF Framed, n
  <2>2. frames'[1].kind = "root" /\ frames'[1].depth = 1
    BY <1>4, <2>1
  <2> QED BY <1>2, <1>3, <1>4, <2>1, <2>2, SMTT(20) DEF Framed
<1>6. Base' = Base /\ Due' = Due
  BY <1>2 DEF Base, Due, n
<1>7. Pairs(Due', frames')
  <2>1. \A i \in 1..n : Opaque(frames'[i]) <=> Opaque(frames[i])
    BY <1>4 DEF Opaque
  <2> SUFFICES ASSUME NEW i \in 1..n PROVE Pair(Due[i], frames'[i])
    BY <1>2, <1>6 DEF Pairs
  <2>2. Pair(Due[i], frames[i])
    BY <1>t DEF Pairs, n
  <2> QED BY <1>4, <2>1, <2>2 DEF Pair
<1>8. Nest(frames')
  <2>1. \A i, j \in 1..n : Chain(frames', i, j) => Chain(frames, i, j)
    BY <1>2, <1>4 DEF Chain, n
  <2>2. \A i, j \in 1..n : i < j => frames'[i].unit = frames[i].unit
    BY <1>4, <1>t
  <2> SUFFICES ASSUME NEW i \in 1..n, NEW j \in 1..n, i < j
               PROVE  /\ frames'[i].depth <= frames'[j].depth
                      /\ frames'[j].kind # "block" => frames'[i].depth < frames'[j].depth
                      /\ Chain(frames', i, j) =>
                           /\ frames'[i].depth = frames'[j].depth
                           /\ frames'[i].kind # "block" => frames'[i].unit = NodeFile[frames'[j].node]
                           /\ frames'[i].kind = "block" => frames'[i].node # frames'[j].node
    BY <1>2 DEF Nest
  <2>3. /\ frames[i].depth <= frames[j].depth
        /\ frames[j].kind # "block" => frames[i].depth < frames[j].depth
        /\ Chain(frames, i, j) =>
             /\ frames[i].depth = frames[j].depth
             /\ frames[i].kind # "block" => frames[i].unit = NodeFile[frames[j].node]
             /\ frames[i].kind = "block" => frames[i].node # frames[j].node
    BY <1>t DEF Nest, n
  <2> QED BY <1>4, <2>1, <2>2, <2>3
<1>9. Enclosing(frames') = Enclosing(frames)
  <2>1. Executing(frames') = Executing(frames)
    <3> DEFINE y == Executing(frames')
               z == Executing(frames)
    <3>1. y \in 1..n /\ frames'[y].kind # "block" /\ \A j \in 1..n : j > y => frames'[j].kind = "block"
      BY <1>2, <1>5, ExecutingIs
    <3>2. z \in 1..n /\ frames[z].kind # "block" /\ \A j \in 1..n : j > z => frames[j].kind = "block"
      BY <1>t, ExecutingIs DEF n
    <3> HIDE DEF y, z
    <3>3. y = z
      BY <1>4, <1>t, <3>1, <3>2
    <3> QED BY <3>3 DEF y, z
  <2>2. Executing(frames) \in 1..n
    BY <1>t, ExecutingIs DEF n
  <2>3. \A i \in (Executing(frames) + 1)..n : i \in 1..n /\ frames'[i].node = frames[i].node
    BY <1>4, <1>t, <2>2
  <2> QED BY <1>2, <2>1, <2>3 DEF Enclosing, n
<1>10. Stale(Base', frames', left')
  BY <1>2, <1>4, <1>6, <1>9, <1>t DEF Stale, n
<1>11. Len(frames') > Len(Base') => /\ stack' # <<>> /\ pending' # None
                                    /\ pending'.depth = Top'.depth /\ Top'.kind # "block"
  <2>1. Top'.depth = Top.depth /\ Top'.kind = Top.kind
    BY <1>2, <1>4, <1>t DEF Top, n
  <2> QED BY <1>2, <1>6, <2>1 DEF Structure, n
<1>12. Len(frames') <= Len(Base') + 1
  BY <1>2, <1>6 DEF Structure, n
<1> QED BY <1>2, <1>5, <1>6, <1>7, <1>8, <1>10, <1>11, <1>12 DEF Structure, n

-----------------------------------------------------------------------------
(* What the commands do to CMake's tables.                                 *)

\* Frames f and g agree about variable x.
SameColumn(f, g, x) ==
    /\ f.tab[x] = g.tab[x]
    /\ x \in f.copied <=> x \in g.copied
    /\ x \in f.raised <=> x \in g.raised

LEMMA FrameFacts ==
    ASSUME NEW fs, Framed(fs), NEW i \in 1..Len(fs)
    PROVE  /\ fs[i] \in FrameSet /\ fs[i].tab \in [Names -> Value]
           /\ fs[i].par \in [Names -> Nat]
           /\ fs[i].copied \in SUBSET Names /\ fs[i].raised \in SUBSET Names
<1>1. fs[i] \in FrameSet
  BY ElementOfSeq DEF Framed
<1> QED BY <1>1 DEF FrameSet

\* The value CMake finds from frame k, and where.
LEMMA NormalIs ==
    ASSUME NEW fs, Framed(fs), NEW k \in 1..Len(fs), NEW x \in Names
    PROVE  LET h == Holder(fs, k, x)
           IN  /\ h \in 0..k
               /\ h # 0 => h >= WorldStart(fs) /\ Opaque(fs[h]) /\ fs[h].tab[x] # Inherit
               /\ \A j \in WorldStart(fs)..k : j > h => ~(Opaque(fs[j]) /\ fs[j].tab[x] # Inherit)
               /\ Normal(fs, k, x) = IF h = 0 \/ fs[h].tab[x] = Hidden THEN 0 ELSE fs[h].tab[x]
               /\ Normal(fs, k, x) \in Nat
<1> DEFINE h == Holder(fs, k, x)
           ws == WorldStart(fs)
           S == {i \in ws..k : Opaque(fs[i]) /\ fs[i].tab[x] # Inherit}
<1>1. Len(fs) \in Nat /\ ws \in 1..Len(fs) /\ k \in Nat
  BY WorldStartIs, OwnIs DEF Framed
<1>2. h = MaxOf({0} \cup S)
  BY DEF Holder
<1>3. Normal(fs, k, x) = IF h = 0 \/ fs[h].tab[x] = Hidden THEN 0 ELSE fs[h].tab[x]
  BY DEF Normal
<1> HIDE DEF h, ws
<1>4. {0} \cup S \in SUBSET Nat /\ {0} \cup S # {} /\ \A m \in {0} \cup S : m <= k
  BY <1>1
<1> HIDE DEF S
<1>5. h \in {0} \cup S /\ \A m \in {0} \cup S : m <= h
  BY <1>1, <1>2, <1>4, MaxOfIs
<1>6. h \in 0..k /\ (h # 0 => h >= ws /\ Opaque(fs[h]) /\ fs[h].tab[x] # Inherit)
  BY <1>1, <1>5 DEF S
<1>7. \A j \in ws..k : j > h => ~(Opaque(fs[j]) /\ fs[j].tab[x] # Inherit)
  <2> SUFFICES ASSUME NEW j \in ws..k, j > h, Opaque(fs[j]) /\ fs[j].tab[x] # Inherit PROVE FALSE
    OBVIOUS
  <2>1. j \in S
    BY DEF S
  <2> QED BY <1>1, <1>5, <1>6, <2>1
<1>8. Normal(fs, k, x) \in Nat
  <2>1. CASE h = 0
    BY <1>3, <2>1
  <2>2. CASE h # 0
    <3>1. h \in 1..Len(fs)
      BY <1>1, <1>6, <2>2
    <3>2. fs[h].tab[x] \in Value
      BY <3>1, FrameFacts
    <3> QED BY <1>3, <3>2 DEF Value
  <2> QED BY <2>1, <2>2
<1> QED BY <1>3, <1>6, <1>7, <1>8 DEF h, ws

\* A stack with other tables is still a stack.
LEMMA Retabled ==
    ASSUME NEW fs, Framed(fs), NEW gs, gs = [i \in 1..Len(fs) |-> gs[i]],
           \A i \in 1..Len(fs) : gs[i] \in FrameSet /\ SameFrame(gs[i], fs[i])
    PROVE  Framed(gs) /\ Len(gs) = Len(fs)
<1>1. Len(fs) \in Nat \ {0}
  BY DEF Framed
<1>2. gs \in Seq(FrameSet) /\ Len(gs) = Len(fs)
  <2> DEFINE n == Len(fs)
  <2>1. n \in Nat
    BY <1>1
  <2> HIDE DEF n
  <2>2. gs = [i \in 1..n |-> gs[i]] /\ \A i \in 1..n : gs[i] \in FrameSet
    BY DEF n
  <2>3. gs \in Seq(FrameSet) /\ Len(gs) = n
    BY <2>1, <2>2, IsASeq
  <2> QED BY <2>3 DEF n
<1> QED BY <1>1, <1>2 DEF Framed, SameFrame

LEMMA SetEffect ==
    ASSUME NEW fs, Framed(fs), NEW x \in Names, NEW w \in Nat \ {0}
    PROVE  LET gs == FramesAfter(fs, "set", x, w)
               c  == Own(fs)
           IN  /\ Framed(gs) /\ Len(gs) = Len(fs)
               /\ \A i \in 1..Len(fs) :
                    /\ SameFrame(gs[i], fs[i])
                    /\ \A y \in Names : y # x \/ i # c => SameColumn(gs[i], fs[i], y)
               /\ gs[c].tab[x] = w /\ x \notin gs[c].copied /\ x \notin gs[c].raised
<1> DEFINE gs == FramesAfter(fs, "set", x, w)
           c  == Own(fs)
           n  == Len(fs)
           g  == [fs[c] EXCEPT !.tab = [@ EXCEPT ![x] = w], !.copied = @ \ {x}, !.raised = @ \ {x}]
<1>1. n \in Nat /\ c \in 1..n /\ DOMAIN fs = 1..n
  BY OwnIs, LenProperties DEF Framed
<1>2. /\ fs[c] \in FrameSet /\ fs[c].tab \in [Names -> Value]
      /\ fs[c].copied \in SUBSET Names /\ fs[c].raised \in SUBSET Names
  BY <1>1, FrameFacts
<1>3. gs = [i \in 1..n |-> IF i = c THEN g ELSE fs[i]]
  <2>1. gs = [fs EXCEPT ![Own(fs)].tab[x] = w, ![Own(fs)].copied = @ \ {x},
                        ![Own(fs)].raised = @ \ {x}]
    BY DEF FramesAfter
  <2>2. gs = [fs EXCEPT ![c].tab[x] = w, ![c].copied = @ \ {x}, ![c].raised = @ \ {x}]
    BY <2>1 DEF c
  <2> HIDE DEF c, gs
  <2> QED BY <1>1, <1>2, <2>2 DEF FrameSet
<1> HIDE DEF gs, c, g
<1>4. /\ g \in FrameSet /\ SameFrame(g, fs[c])
      /\ g.tab = [fs[c].tab EXCEPT ![x] = w] /\ g.copied = fs[c].copied \ {x}
      /\ g.raised = fs[c].raised \ {x}
  <2>1. [fs[c].tab EXCEPT ![x] = w] \in [Names -> Value]
    BY <1>2 DEF Value
  <2> QED BY <1>2, <2>1 DEF g, FrameSet, SameFrame
<1>5. \A i \in 1..n : gs[i] = IF i = c THEN g ELSE fs[i]
  BY <1>3
<1>6. \A i \in 1..n : /\ gs[i] \in FrameSet /\ SameFrame(gs[i], fs[i])
                      /\ \A y \in Names : y # x \/ i # c => SameColumn(gs[i], fs[i], y)
  <2> SUFFICES ASSUME NEW i \in 1..n
               PROVE  /\ gs[i] \in FrameSet /\ SameFrame(gs[i], fs[i])
                      /\ \A y \in Names : y # x \/ i # c => SameColumn(gs[i], fs[i], y)
    OBVIOUS
  <2>1. CASE i = c
    <3>1. gs[i] = g
      BY <1>5, <2>1
    <3>2. \A y \in Names : y # x => SameColumn(g, fs[c], y)
      BY <1>2, <1>4 DEF SameColumn
    <3> QED BY <1>4, <2>1, <3>1, <3>2
  <2>2. CASE i # c
    <3>1. gs[i] = fs[i] /\ fs[i] \in FrameSet
      BY <1>5, <2>2, FrameFacts
    <3> QED BY <3>1 DEF SameFrame, SameColumn
  <2> QED BY <2>1, <2>2
<1>7. gs[c].tab[x] = w /\ x \notin gs[c].copied /\ x \notin gs[c].raised
  BY <1>1, <1>2, <1>4, <1>5
<1>8. gs = [i \in 1..n |-> gs[i]]
  BY <1>3
<1>9. Framed(gs) /\ Len(gs) = n
  BY <1>6, <1>8, Retabled
<1> QED BY <1>6, <1>7, <1>9 DEF gs, c

LEMMA UnsetEffect ==
    ASSUME NEW fs, Framed(fs), NEW x \in Names, NEW w
    PROVE  LET gs == FramesAfter(fs, "unset", x, w)
               c  == Own(fs)
           IN  /\ Framed(gs) /\ Len(gs) = Len(fs)
               /\ \A i \in 1..Len(fs) :
                    /\ SameFrame(gs[i], fs[i])
                    /\ \A y \in Names : y # x \/ i # c => SameColumn(gs[i], fs[i], y)
               /\ gs[c].tab[x] = Hidden
               /\ x \in gs[c].copied <=> x \in fs[c].copied
               /\ x \in gs[c].raised <=> x \in fs[c].raised
<1> DEFINE gs == FramesAfter(fs, "unset", x, w)
           c  == Own(fs)
           n  == Len(fs)
           g  == [fs[c] EXCEPT !.tab = [@ EXCEPT ![x] = Hidden]]
<1>1. n \in Nat /\ c \in 1..n /\ DOMAIN fs = 1..n
  BY OwnIs, LenProperties DEF Framed
<1>2. fs[c] \in FrameSet /\ fs[c].tab \in [Names -> Value]
  BY <1>1, FrameFacts
<1>3. gs = [i \in 1..n |-> IF i = c THEN g ELSE fs[i]]
  <2>1. gs = [fs EXCEPT ![Own(fs)].tab[x] = Hidden]
    BY DEF FramesAfter
  <2>2. gs = [fs EXCEPT ![c].tab[x] = Hidden]
    BY <2>1 DEF c
  <2> HIDE DEF c, gs, Hidden
  <2> QED BY <1>1, <1>2, <2>2 DEF FrameSet
<1> HIDE DEF gs, c, g
<1>4. /\ g \in FrameSet /\ SameFrame(g, fs[c])
      /\ g.tab = [fs[c].tab EXCEPT ![x] = Hidden] /\ g.copied = fs[c].copied
      /\ g.raised = fs[c].raised
  <2>1. [fs[c].tab EXCEPT ![x] = Hidden] \in [Names -> Value]
    BY <1>2 DEF Value
  <2> QED BY <1>2, <2>1 DEF g, FrameSet, SameFrame
<1>5. \A i \in 1..n : gs[i] = IF i = c THEN g ELSE fs[i]
  BY <1>3
<1>6. \A i \in 1..n : /\ gs[i] \in FrameSet /\ SameFrame(gs[i], fs[i])
                      /\ \A y \in Names : y # x \/ i # c => SameColumn(gs[i], fs[i], y)
  <2> SUFFICES ASSUME NEW i \in 1..n
               PROVE  /\ gs[i] \in FrameSet /\ SameFrame(gs[i], fs[i])
                      /\ \A y \in Names : y # x \/ i # c => SameColumn(gs[i], fs[i], y)
    OBVIOUS
  <2>1. CASE i = c
    <3>1. gs[i] = g
      BY <1>5, <2>1
    <3>2. \A y \in Names : y # x => SameColumn(g, fs[c], y)
      BY <1>2, <1>4 DEF SameColumn
    <3> QED BY <1>4, <2>1, <3>1, <3>2
  <2>2. CASE i # c
    <3>1. gs[i] = fs[i] /\ fs[i] \in FrameSet
      BY <1>5, <2>2, FrameFacts
    <3> QED BY <3>1 DEF SameFrame, SameColumn
  <2> QED BY <2>1, <2>2
<1>7. /\ gs[c].tab[x] = Hidden
      /\ x \in gs[c].copied <=> x \in fs[c].copied
      /\ x \in gs[c].raised <=> x \in fs[c].raised
  BY <1>1, <1>2, <1>4, <1>5
<1>8. gs = [i \in 1..n |-> gs[i]]
  BY <1>3
<1>9. Framed(gs) /\ Len(gs) = n
  BY <1>6, <1>8, Retabled
<1> QED BY <1>6, <1>7, <1>9 DEF gs, c

\* The frame has a value of its own, so PARENT_SCOPE leaves it as it is.
OwnValue(f, x) == f.tab[x] > 0 /\ x \notin f.copied

\* PARENT_SCOPE fixes the value seen in the current table, and writes to the next.
LEMMA RaiseEffect ==
    ASSUME NEW fs, Framed(fs), ~AtTop(fs), NEW x \in Names, NEW w \in Nat \ {0}
    PROVE  LET gs == FramesAfter(fs, "parent_scope", x, w)
               c  == Own(fs)
               a  == Above(fs)
               v  == Normal(fs, Len(fs), x)
           IN  /\ Framed(gs) /\ Len(gs) = Len(fs)
               /\ \A i \in 1..Len(fs) :
                    /\ SameFrame(gs[i], fs[i])
                    /\ \A y \in Names : y # x \/ i \notin {a, c} => SameColumn(gs[i], fs[i], y)
               /\ gs[a].tab[x] = w
               /\ x \in gs[a].copied <=> x \in fs[a].copied
               /\ x \in gs[a].raised <=> x \in fs[a].raised
               /\ gs[c].tab[x] = (IF v = 0 THEN Hidden ELSE v)
               /\ x \in gs[c].copied <=> x \in fs[c].copied \/ ~OwnValue(fs[c], x)
               /\ x \in gs[c].raised <=> x \in fs[c].raised \/ ~OwnValue(fs[c], x)
<1> DEFINE gs  == FramesAfter(fs, "parent_scope", x, w)
           c   == Own(fs)
           a   == Above(fs)
           v   == Normal(fs, Len(fs), x)
           n   == Len(fs)
           u   == IF v = 0 THEN Hidden ELSE v
           own == OwnValue(fs[c], x)
           g   == [fs[c] EXCEPT !.tab = [@ EXCEPT ![x] = u],
                                !.copied = IF own THEN @ ELSE @ \cup {x},
                                !.raised = IF own THEN @ ELSE @ \cup {x}]
           h   == [fs[a] EXCEPT !.tab = [@ EXCEPT ![x] = w]]
<1>1. /\ n \in Nat /\ n \in 1..n /\ c \in 1..n /\ a \in 1..n /\ a # c /\ DOMAIN fs = 1..n
      /\ v \in Nat
  <2>1. n \in Nat /\ n \in 1..n /\ c \in 1..n /\ DOMAIN fs = 1..n
    BY OwnIs, LenProperties DEF Framed
  <2>2. a \in WorldStart(fs)..(c - 1) /\ WorldStart(fs) \in Nat /\ WorldStart(fs) >= 1
    BY AboveIs, WorldStartIs, OwnIs
  <2>3. v \in Nat
    BY <2>1, NormalIs
  <2> HIDE DEF c, a, n, v
  <2> QED BY <2>1, <2>2, <2>3
<1>2. /\ fs[c] \in FrameSet /\ fs[c].tab \in [Names -> Value]
      /\ fs[c].copied \in SUBSET Names /\ fs[c].raised \in SUBSET Names
      /\ fs[a] \in FrameSet /\ fs[a].tab \in [Names -> Value]
      /\ fs[a].copied \in SUBSET Names /\ fs[a].raised \in SUBSET Names
  BY <1>1, FrameFacts
<1>u. u \in Value /\ w \in Value
  BY <1>1 DEF Value
<1>3. gs = [i \in 1..n |-> IF i = c THEN g ELSE IF i = a THEN h ELSE fs[i]]
  <2> DEFINE local == [fs EXCEPT ![c].tab[x] = u,
                                 ![c].copied = IF own THEN @ ELSE @ \cup {x},
                                 ![c].raised = IF own THEN @ ELSE @ \cup {x}]
  <2>1. gs = [local EXCEPT ![a].tab[x] = w]
    BY DEF FramesAfter, Raise, Above, OwnValue
  <2> HIDE DEF c, a, v, u, own, n, gs
  <2>2. local = [i \in 1..n |-> IF i = c THEN g ELSE fs[i]]
    BY <1>1, <1>2 DEF FrameSet
  <2> HIDE DEF local, g
  <2>3. local[a] = fs[a] /\ DOMAIN local = 1..n
    BY <1>1, <2>2
  <2>4. gs = [i \in 1..n |-> IF i = a THEN h ELSE local[i]]
    BY <1>1, <1>2, <2>1, <2>3 DEF FrameSet
  <2> HIDE DEF h
  <2> QED BY <1>1, <2>2, <2>4
<1> HIDE DEF gs, c, a, v, u, own, g, h
<1>4. /\ g \in FrameSet /\ SameFrame(g, fs[c])
      /\ g.tab = [fs[c].tab EXCEPT ![x] = u]
      /\ g.copied = (IF own THEN fs[c].copied ELSE fs[c].copied \cup {x})
      /\ g.raised = (IF own THEN fs[c].raised ELSE fs[c].raised \cup {x})
  <2>1. [fs[c].tab EXCEPT ![x] = u] \in [Names -> Value]
    BY <1>2, <1>u
  <2>2. /\ (IF own THEN fs[c].copied ELSE fs[c].copied \cup {x}) \in SUBSET Names
        /\ (IF own THEN fs[c].raised ELSE fs[c].raised \cup {x}) \in SUBSET Names
    BY <1>2
  <2> QED BY <1>2, <2>1, <2>2 DEF g, FrameSet, SameFrame
<1>5. /\ h \in FrameSet /\ SameFrame(h, fs[a])
      /\ h.tab = [fs[a].tab EXCEPT ![x] = w] /\ h.copied = fs[a].copied
      /\ h.raised = fs[a].raised
  <2>1. [fs[a].tab EXCEPT ![x] = w] \in [Names -> Value]
    BY <1>2, <1>u
  <2> QED BY <1>2, <2>1 DEF h, FrameSet, SameFrame
<1>6. gs[c] = g /\ gs[a] = h /\ \A i \in 1..n : i \notin {a, c} => gs[i] = fs[i]
  BY <1>1, <1>3
<1>7. \A i \in 1..n : /\ gs[i] \in FrameSet /\ SameFrame(gs[i], fs[i])
                      /\ \A y \in Names : y # x \/ i \notin {a, c} => SameColumn(gs[i], fs[i], y)
  <2> SUFFICES ASSUME NEW i \in 1..n
               PROVE  /\ gs[i] \in FrameSet /\ SameFrame(gs[i], fs[i])
                      /\ \A y \in Names : y # x \/ i \notin {a, c} => SameColumn(gs[i], fs[i], y)
    OBVIOUS
  <2>1. CASE i = c
    <3>1. \A y \in Names : y # x => SameColumn(g, fs[c], y)
      BY <1>2, <1>4 DEF SameColumn
    <3> QED BY <1>4, <1>6, <2>1, <3>1
  <2>2. CASE i = a
    <3>1. \A y \in Names : y # x => SameColumn(h, fs[a], y)
      BY <1>2, <1>5 DEF SameColumn
    <3> QED BY <1>5, <1>6, <2>2, <3>1
  <2>3. CASE i \notin {a, c}
    <3>1. gs[i] = fs[i] /\ fs[i] \in FrameSet
      BY <1>6, <2>3, FrameFacts
    <3> QED BY <3>1 DEF SameFrame, SameColumn
  <2> QED BY <2>1, <2>2, <2>3
<1>8. /\ gs[a].tab[x] = w
      /\ x \in gs[a].copied <=> x \in fs[a].copied
      /\ x \in gs[a].raised <=> x \in fs[a].raised
  BY <1>2, <1>5, <1>6
<1>9. /\ gs[c].tab[x] = u
      /\ x \in gs[c].copied <=> x \in fs[c].copied \/ ~own
      /\ x \in gs[c].raised <=> x \in fs[c].raised \/ ~own
  BY <1>2, <1>4, <1>6
<1>10. gs = [i \in 1..n |-> gs[i]]
  BY <1>3
<1>11. Framed(gs) /\ Len(gs) = n
  BY <1>7, <1>10, Retabled
<1> QED BY <1>7, <1>8, <1>9, <1>11 DEF gs, a, c, u, v, own

LEMMA OtherEffect ==
    ASSUME NEW fs, NEW cmd, NEW x, NEW w,
           cmd \notin {"set", "unset", "parent_scope"} \/ (cmd = "parent_scope" /\ AtTop(fs))
    PROVE  FramesAfter(fs, cmd, x, w) = fs
BY DEF FramesAfter, Raise

-----------------------------------------------------------------------------
(* The tables of the scopes are those of the frames, but for what a frame   *)
(* holds only as a copy and what a PARENT_SCOPE write left behind.           *)

Binds(st, i, x) == ~st[i].transparent /\ st[i].vars[x] # NoRow

\* Among the first k scopes the innermost entry of x is v, if there is one.
Holding(st, k, x, v) ==
    \/ v = NoRow /\ \A i \in 1..k : ~Binds(st, i, x)
    \/ \E i \in 1..k : /\ Binds(st, i, x) /\ v = st[i].vars[x]
                       /\ \A j \in 1..k : j > i => ~Binds(st, j, x)

\* Seen from frame i, x is what a PARENT_SCOPE write left behind.
Vague(fs, i, x) ==
    \E r \in 1..i : x \in fs[r].raised /\ \A j \in 1..i : j > r => ~Wrote(fs, j, x)

OutOfTry(fs, i) == \A j \in 1..i : fs[j].kind # "try_compile"

Copied(v) == IF v = Hidden THEN NoRow ELSE v

DataAt(st, fs, i, x) ==
    OutOfTry(fs, i) /\ Opaque(fs[i]) =>
        /\ st[i].vars[x] # NoRow => fs[i].tab[x] = st[i].vars[x]
        /\ Wrote(fs, i, x) => st[i].vars[x] # NoRow
        /\ fs[i].kind # "directory" => (x \in fs[i].copied <=> x \in fs[i].raised)
        /\ st[i].vars[x] = NoRow /\ fs[i].tab[x] # Inherit /\ ~Vague(fs, i, x) =>
              Holding(st, i - 1, x, Copied(fs[i].tab[x]))

Data(st, fs) == \A i \in 1..Len(fs) : \A x \in Names : DataAt(st, fs, i, x)

\* Frame i and its scope are the same about x.
Still(st, fs, tt, gs, i, x) ==
    /\ gs[i].kind = fs[i].kind /\ gs[i].node = fs[i].node
    /\ SameColumn(gs[i], fs[i], x)
    /\ tt[i].transparent = st[i].transparent /\ tt[i].vars[x] = st[i].vars[x]

LEMMA ColumnKept ==
    ASSUME NEW st, NEW fs, NEW tt, NEW gs, NEW n \in Nat, NEW i \in 1..n, NEW x \in Names,
           \A j \in 1..i : Still(st, fs, tt, gs, j, x), DataAt(st, fs, i, x)
    PROVE  DataAt(tt, gs, i, x)
<1>1. i \in 1..i /\ \A j \in 1..(i - 1) : j \in 1..i
  OBVIOUS
<1>2. ASSUME NEW j \in 1..i
      PROVE  /\ gs[j].kind = fs[j].kind
             /\ Opaque(gs[j]) <=> Opaque(fs[j])
             /\ Wrote(gs, j, x) <=> Wrote(fs, j, x)
             /\ x \in gs[j].raised <=> x \in fs[j].raised
             /\ x \in gs[j].copied <=> x \in fs[j].copied
             /\ gs[j].tab[x] = fs[j].tab[x] /\ tt[j].vars[x] = st[j].vars[x]
             /\ Binds(tt, j, x) <=> Binds(st, j, x)
  <2>1. Still(st, fs, tt, gs, j, x)
    OBVIOUS
  <2>2. Opaque(gs[j]) <=> Opaque(fs[j])
    BY <2>1 DEF Still, Opaque
  <2> QED BY <2>1, <2>2 DEF Still, SameColumn, Wrote, Binds
<1>3. OutOfTry(gs, i) <=> OutOfTry(fs, i)
  BY <1>2 DEF OutOfTry
<1>4. Vague(gs, i, x) <=> Vague(fs, i, x)
  BY <1>2 DEF Vague
<1>5. \A v : Holding(tt, i - 1, x, v) <=> Holding(st, i - 1, x, v)
  BY <1>1, <1>2 DEF Holding
<1>6. /\ gs[i].kind = fs[i].kind
      /\ Opaque(gs[i]) <=> Opaque(fs[i])
      /\ Wrote(gs, i, x) <=> Wrote(fs, i, x)
      /\ x \in gs[i].raised <=> x \in fs[i].raised
      /\ x \in gs[i].copied <=> x \in fs[i].copied
      /\ gs[i].tab[x] = fs[i].tab[x] /\ tt[i].vars[x] = st[i].vars[x]
  BY <1>1, <1>2
<1> QED BY <1>3, <1>4, <1>5, <1>6 DEF DataAt

\* The tables a command writes are those CMake writes.
LEMMA TargetIs ==
    ASSUME NEW st, NEW fs, Framed(fs), Len(st) = Len(fs), Pairs(st, fs), NEW i \in 1..Len(fs)
    PROVE  /\ Target(st, "set", i) <=> i = Own(fs)
           /\ Target(st, "unset", i) <=> i = Own(fs)
           /\ ~AtTop(fs) => (Target(st, "parent_scope", i) <=> i = Above(fs))
<1> DEFINE n == Len(fs)
           c == Own(fs)
           a == Above(fs)
<1>1. \A j \in 1..n : st[j].transparent <=> ~Opaque(fs[j])
  BY DEF Pairs, Pair
<1>2. c \in 1..n /\ Opaque(fs[c]) /\ \A j \in 1..n : j > c => ~Opaque(fs[j])
  BY OwnIs
<1>3. n \in Nat
  BY DEF Framed
<1>w. WorldStart(fs) \in 1..c
  BY WorldStartIs
<1>4. ~AtTop(fs) => /\ a \in 1..n /\ a < c /\ Opaque(fs[a])
                    /\ \A j \in 1..n : a < j /\ j < c => ~Opaque(fs[j])
  <2> SUFFICES ASSUME ~AtTop(fs)
               PROVE  /\ a \in 1..n /\ a < c /\ Opaque(fs[a])
                      /\ \A j \in 1..n : a < j /\ j < c => ~Opaque(fs[j])
    OBVIOUS
  <2>1. /\ a \in WorldStart(fs)..(c - 1) /\ Opaque(fs[a])
        /\ \A j \in 1..n : a < j /\ j < c => ~Opaque(fs[j])
    BY AboveIs
  <2> HIDE DEF a, c, n
  <2> QED BY <1>2, <1>3, <1>w, <2>1
<1> HIDE DEF a, c, n
<1>5. \A k \in 1..n : Nearest(st, k) <=> k = c
  BY <1>1, <1>2, <1>3 DEF Nearest, n
<1>6. ~AtTop(fs) => (SecondNearest(st, i) <=> i = a)
  <2> SUFFICES ASSUME ~AtTop(fs) PROVE SecondNearest(st, i) <=> i = a
    OBVIOUS
  <2>1. ~\A j \in 1..n : j # i => st[j].transparent
    BY <1>1, <1>2, <1>4 DEF n
  <2>2. SecondNearest(st, i) <=> /\ Opaque(fs[i])
                                /\ c > i /\ \A j \in 1..n : i < j /\ j < c => ~Opaque(fs[j])
    BY <1>1, <1>2, <1>5, <2>1 DEF SecondNearest, n
  <2> QED BY <1>2, <1>3, <1>4, <2>2 DEF n
<1> QED BY <1>5, <1>6 DEF Target, a, c, n

\* Where nothing is vague the scopes have the value CMake sees.
LEMMA NormalHeld ==
    ASSUME NEW st \in Seq(Scope), NEW fs, Len(st) = Len(fs), Framed(fs), Pairs(st, fs),
           Data(st, fs), ~InTry(fs),
           NEW x \in Names, ~Vague(fs, Len(fs), x)
    PROVE  Holding(st, Len(fs), x, Normal(fs, Len(fs), x))
<1> DEFINE n == Len(fs)
           h == Holder(fs, n, x)
           v == Normal(fs, n, x)
<1>n. n \in Nat /\ n \in 1..n /\ WorldStart(fs) = 1 /\ DOMAIN fs = 1..n
  BY WorldStartIs, LenProperties DEF Framed
<1>1. /\ h \in 0..n
      /\ h # 0 => Opaque(fs[h]) /\ fs[h].tab[x] # Inherit
      /\ \A j \in 1..n : j > h => ~(Opaque(fs[j]) /\ fs[j].tab[x] # Inherit)
      /\ v = IF h = 0 \/ fs[h].tab[x] = Hidden THEN 0 ELSE fs[h].tab[x]
  BY <1>n, NormalIs, SMTT(20)
<1>2. \A j \in 1..n : Binds(st, j, x) <=> Opaque(fs[j]) /\ st[j].vars[x] # NoRow
  BY DEF Pairs, Pair, Binds
<1>3. \A i \in 1..n : OutOfTry(fs, i)
  BY <1>n DEF OutOfTry, InTry
<1>4. \A i \in 1..n : Opaque(fs[i]) =>
        /\ st[i].vars[x] # NoRow => fs[i].tab[x] = st[i].vars[x]
        /\ st[i].vars[x] = NoRow /\ fs[i].tab[x] # Inherit /\ ~Vague(fs, i, x) =>
              Holding(st, i - 1, x, Copied(fs[i].tab[x]))
  BY <1>3 DEF Data, DataAt
<1>t. \A i \in 1..n : fs[i].tab[x] \in Value
  BY FrameFacts
<1>s. \A i \in 1..n : st[i].vars[x] \in Nat
  <2>1. \A i \in 1..n : st[i] \in Scope
    BY ElementOfSeq
  <2> QED BY <2>1 DEF Scope
<1> HIDE DEF n, h, v
<1>5. \A j \in 1..n : j > h => ~Binds(st, j, x)
  BY <1>1, <1>2, <1>4 DEF Inherit, NoRow
<1>6. CASE h = 0
  <2>1. v = NoRow /\ \A j \in 1..n : ~Binds(st, j, x)
    BY <1>1, <1>5, <1>6, <1>n DEF NoRow
  <2>2. Holding(st, n, x, v)
    BY <2>1 DEF Holding
  <2> QED BY <2>2 DEF n, v
<1>7. CASE h # 0
  <2>1. h \in 1..n /\ Opaque(fs[h]) /\ fs[h].tab[x] # Inherit
    BY <1>1, <1>7, <1>n
  <2>2. CASE st[h].vars[x] # NoRow
    <3>1. fs[h].tab[x] = st[h].vars[x] /\ Binds(st, h, x)
      BY <1>2, <1>4, <2>1, <2>2
    <3>2. ASSUME fs[h].tab[x] # Hidden PROVE Holding(st, n, x, v)
      <4>1. v = st[h].vars[x]
        BY <1>1, <1>7, <3>1, <3>2
      <4> QED BY <1>5, <2>1, <3>1, <4>1 DEF Holding
    <3>3. fs[h].tab[x] # Hidden
      BY <1>s, <2>1, <3>1 DEF Hidden
    <3> QED BY <3>2, <3>3 DEF n, v
  <2>3. CASE st[h].vars[x] = NoRow
    <3>1. ~Vague(fs, h, x)
      <4> SUFFICES ASSUME Vague(fs, h, x) PROVE FALSE
        OBVIOUS
      <4>1. PICK r \in 1..h : x \in fs[r].raised /\ \A j \in 1..h : j > r => ~Wrote(fs, j, x)
        BY DEF Vague
      <4>2. \A j \in 1..n : j > h => ~Wrote(fs, j, x)
        BY <1>1 DEF Wrote, Inherit
      <4>3. r \in 1..n /\ \A j \in 1..n : j > r => ~Wrote(fs, j, x)
        BY <1>n, <2>1, <4>1, <4>2
      <4> QED BY <4>1, <4>3 DEF Vague, n
    <3>2. Holding(st, h - 1, x, v)
      <4>1. Copied(fs[h].tab[x]) = v
        BY <1>1, <1>7 DEF Copied, NoRow
      <4> QED BY <1>4, <2>1, <2>3, <3>1, <4>1
    <3>3. ~Binds(st, h, x)
      BY <1>2, <2>1, <2>3
    <3>4. \A j \in 1..n : j > h - 1 => ~Binds(st, j, x)
      BY <1>5, <1>n, <2>1, <3>3
    <3>5. Holding(st, n, x, v)
      <4>1. CASE v = NoRow /\ \A i \in 1..(h - 1) : ~Binds(st, i, x)
        <5>1. \A i \in 1..n : ~Binds(st, i, x)
          BY <1>n, <2>1, <3>4, <4>1
        <5> QED BY <4>1, <5>1 DEF Holding
      <4>2. CASE \E i \in 1..(h - 1) : /\ Binds(st, i, x) /\ v = st[i].vars[x]
                                       /\ \A j \in 1..(h - 1) : j > i => ~Binds(st, j, x)
        <5>1. PICK i \in 1..(h - 1) : /\ Binds(st, i, x) /\ v = st[i].vars[x]
                                      /\ \A j \in 1..(h - 1) : j > i => ~Binds(st, j, x)
          BY <4>2
        <5>2. i \in 1..n /\ \A j \in 1..n : j > i => ~Binds(st, j, x)
          BY <1>n, <2>1, <3>4, <5>1
        <5> QED BY <5>1, <5>2 DEF Holding
      <4> QED BY <3>2, <4>1, <4>2 DEF Holding
    <3> QED BY <3>5 DEF n, v
  <2> QED BY <2>2, <2>3
<1> QED BY <1>6, <1>7

\* What writing x leaves of the scope at i of st.
OneCell(st, cmd, x, w, i) ==
    /\ Written(st, cmd, x, w)[i].transparent = st[i].transparent
    /\ ~Target(st, cmd, i) => Written(st, cmd, x, w)[i].vars = st[i].vars
    /\ \A y \in Names : y # x => Written(st, cmd, x, w)[i].vars[y] = st[i].vars[y]
    /\ Target(st, cmd, i) =>
          Written(st, cmd, x, w)[i].vars[x] = IF cmd = "unset" THEN NoRow ELSE w

\* A table beside the one written is untouched, and so are the other variables.
LEMMA WrittenStill ==
    \A st \in Seq(Scope) : \A cmd : \A x \in Names : \A w \in Nat : \A i \in 1..Len(st) :
        OneCell(st, cmd, x, w, i)
<1> TAKE st \in Seq(Scope)
<1> TAKE cmd
<1> TAKE x \in Names
<1> TAKE w \in Nat
<1> TAKE i \in 1..Len(st)
<1>1. /\ Written(st, cmd, x, w)[i].transparent = st[i].transparent
      /\ Written(st, cmd, x, w)[i].vars =
           IF Target(st, cmd, i)
           THEN [st[i].vars EXCEPT ![x] = IF cmd = "unset" THEN NoRow ELSE w]
           ELSE st[i].vars
  <2>1. Written(st, cmd, x, w)[i].transparent = st[i].transparent
    BY WrittenPairs, SMTT(20)
  <2>2. Written(st, cmd, x, w)[i].vars =
           IF Target(st, cmd, i)
           THEN [st[i].vars EXCEPT ![x] = IF cmd = "unset" THEN NoRow ELSE w]
           ELSE st[i].vars
    BY WrittenVars, ZenonT(40)
  <2> QED BY <2>1, <2>2
<1>2. st[i].vars \in [Names -> Nat]
  <2>1. st[i] \in Scope
    BY ElementOfSeq
  <2> QED BY <2>1 DEF Scope
<1> QED BY <1>1, <1>2 DEF OneCell

LEMMA SetKeepsData ==
    ASSUME NEW st \in Seq(Scope), NEW fs, Len(st) = Len(fs), Framed(fs), Pairs(st, fs),
           Data(st, fs), NEW x \in Names, NEW w \in Nat \ {0}
    PROVE  Data(Written(st, "set", x, w), FramesAfter(fs, "set", x, w))
<1> DEFINE tt == Written(st, "set", x, w)
           gs == FramesAfter(fs, "set", x, w)
           c  == Own(fs)
           n  == Len(fs)
<1>1. /\ Len(gs) = n
      /\ \A i \in 1..n : /\ SameFrame(gs[i], fs[i])
                         /\ \A y \in Names : y # x \/ i # c => SameColumn(gs[i], fs[i], y)
      /\ gs[c].tab[x] = w /\ x \notin gs[c].copied /\ x \notin gs[c].raised
  BY SetEffect
<1>2. \A i \in 1..n : Target(st, "set", i) <=> i = c
  BY TargetIs
<1>3. \A i \in 1..n : /\ tt[i].transparent = st[i].transparent
                      /\ i # c => tt[i].vars = st[i].vars
                      /\ \A y \in Names : y # x => tt[i].vars[y] = st[i].vars[y]
                      /\ i = c => tt[i].vars[x] = w
  <2>1. w \in Nat /\ n = Len(st)
    OBVIOUS
  <2>2. ASSUME NEW i \in 1..n PROVE OneCell(st, "set", x, w, i)
    BY <2>1, WrittenStill
  <2> QED BY <1>2, <2>2 DEF OneCell
<1>4. n \in Nat /\ c \in 1..n /\ \A j \in 1..n : j > c => ~Opaque(fs[j])
  BY OwnIs DEF Framed
<1> HIDE DEF tt, gs, c, n
<1> SUFFICES ASSUME NEW i \in 1..n, NEW y \in Names PROVE DataAt(tt, gs, i, y)
  BY <1>1 DEF Data, tt, gs
<1>5. DataAt(st, fs, i, y)
  BY DEF Data, n
<1>6. CASE y # x \/ i < c
  <2>1. ASSUME NEW j \in 1..i PROVE Still(st, fs, tt, gs, j, y)
    <3>1. j \in 1..n /\ (y # x \/ j # c)
      BY <1>4, <1>6
    <3> QED BY <1>1, <1>3, <3>1 DEF Still, SameFrame
  <2> QED BY <1>4, <1>5, <2>1, ColumnKept
<1>7. CASE y = x /\ i > c
  <2>1. ~Opaque(gs[i])
    BY <1>1, <1>4, <1>7 DEF Opaque, SameFrame
  <2> QED BY <2>1 DEF DataAt
<1>8. CASE y = x /\ i = c
  <2>1. gs[i].tab[y] = w /\ tt[i].vars[y] = w /\ y \notin gs[i].copied /\ y \notin gs[i].raised
    BY <1>1, <1>3, <1>8
  <2> QED BY <2>1 DEF DataAt, NoRow
<1> QED BY <1>4, <1>6, <1>7, <1>8

LEMMA UnsetKeepsData ==
    ASSUME NEW st \in Seq(Scope), NEW fs, Len(st) = Len(fs), Framed(fs), Pairs(st, fs),
           Data(st, fs), NEW x \in Names, NEW w \in Nat, ~HidesOuter(fs, x)
    PROVE  Data(Written(st, "unset", x, w), FramesAfter(fs, "unset", x, w))
<1> DEFINE tt == Written(st, "unset", x, w)
           gs == FramesAfter(fs, "unset", x, w)
           c  == Own(fs)
           n  == Len(fs)
<1>1. /\ Len(gs) = n
      /\ \A i \in 1..n : /\ SameFrame(gs[i], fs[i])
                         /\ \A y \in Names : y # x \/ i # c => SameColumn(gs[i], fs[i], y)
      /\ gs[c].tab[x] = Hidden
      /\ x \in gs[c].copied <=> x \in fs[c].copied
      /\ x \in gs[c].raised <=> x \in fs[c].raised
  BY UnsetEffect
<1>2. \A i \in 1..n : Target(st, "unset", i) <=> i = c
  BY TargetIs
<1>3. \A i \in 1..n : /\ tt[i].transparent = st[i].transparent
                      /\ i # c => tt[i].vars = st[i].vars
                      /\ \A y \in Names : y # x => tt[i].vars[y] = st[i].vars[y]
                      /\ i = c => tt[i].vars[x] = NoRow
  <2>1. w \in Nat /\ n = Len(st)
    OBVIOUS
  <2>2. ASSUME NEW i \in 1..n PROVE OneCell(st, "unset", x, w, i)
    BY <2>1, WrittenStill
  <2> QED BY <1>2, <2>2 DEF OneCell
<1>4. n \in Nat /\ c \in 1..n /\ \A j \in 1..n : j > c => ~Opaque(fs[j])
  BY OwnIs DEF Framed
<1>o. \A j \in 1..n : /\ Opaque(gs[j]) <=> Opaque(fs[j])
                      /\ gs[j].kind = fs[j].kind
  BY <1>1 DEF Opaque, SameFrame
<1>w. OutOfTry(fs, c) => WorldStart(fs) = 1
  <2> SUFFICES ASSUME OutOfTry(fs, c), WorldStart(fs) # 1 PROVE FALSE
    OBVIOUS
  <2>1. WorldStart(fs) \in 1..c /\ fs[WorldStart(fs)].kind = "try_compile"
    BY WorldStartIs
  <2> QED BY <2>1 DEF OutOfTry
<1>h. ~\E j \in WorldStart(fs)..(c - 1) : Opaque(fs[j]) /\ fs[j].tab[x] > 0
  BY DEF HidesOuter
<1>v. \A j \in 1..n : st[j].vars[x] \in Nat /\ (Opaque(fs[j]) <=> ~st[j].transparent)
  <2>1. \A j \in 1..n : st[j] \in Scope
    BY ElementOfSeq
  <2> QED BY <2>1 DEF Scope, Pairs, Pair
<1> HIDE DEF tt, gs, c, n
<1> SUFFICES ASSUME NEW i \in 1..n, NEW y \in Names PROVE DataAt(tt, gs, i, y)
  BY <1>1 DEF Data, tt, gs
<1>5. DataAt(st, fs, i, y)
  BY DEF Data, n
<1>6. CASE y # x \/ i < c
  <2>1. ASSUME NEW j \in 1..i PROVE Still(st, fs, tt, gs, j, y)
    <3>1. j \in 1..n /\ (y # x \/ j # c)
      BY <1>4, <1>6
    <3> QED BY <1>1, <1>3, <3>1 DEF Still, SameFrame
  <2> QED BY <1>4, <1>5, <2>1, ColumnKept
<1>7. CASE y = x /\ i > c
  <2>1. ~Opaque(gs[i])
    BY <1>4, <1>7, <1>o
  <2> QED BY <2>1 DEF DataAt
<1>8. CASE y = x /\ i = c
  <2> SUFFICES ASSUME OutOfTry(gs, i)
               PROVE  /\ ~Wrote(gs, i, y) /\ tt[i].vars[y] = NoRow
                      /\ gs[i].kind # "directory" => (y \in gs[i].copied <=> y \in gs[i].raised)
                      /\ Holding(tt, i - 1, y, Copied(gs[i].tab[y]))
    BY DEF DataAt
  <2>1. tt[i].vars[y] = NoRow /\ gs[i].tab[y] = Hidden /\ ~Wrote(gs, i, y)
    BY <1>1, <1>3, <1>8 DEF Wrote, Hidden
  <2>2. OutOfTry(fs, i) /\ Opaque(fs[i])
    <3>1. \A j \in 1..i : j \in 1..n
      BY <1>4
    <3>2. Opaque(fs[i])
      BY <1>8, OwnIs DEF c
    <3> QED BY <1>o, <3>1, <3>2 DEF OutOfTry
  <2>3. fs[i].kind # "directory" => (y \in fs[i].copied <=> y \in fs[i].raised)
    BY <1>5, <2>2 DEF DataAt
  <2>4. ASSUME NEW j \in 1..(i - 1) PROVE ~Binds(tt, j, y)
    <3>1. j \in 1..n /\ j # c /\ j \in 1..i /\ j \in 1..(c - 1)
      BY <1>4, <1>8
    <3>2. OutOfTry(fs, j)
      BY <1>4, <2>2, <3>1 DEF OutOfTry
    <3>3. DataAt(st, fs, j, y)
      BY <3>1 DEF Data, n
    <3>4. Opaque(fs[j]) /\ st[j].vars[y] # NoRow => fs[j].tab[y] > 0
      BY <1>v, <1>8, <3>1, <3>2, <3>3 DEF DataAt, NoRow
    <3>5. ~(Opaque(fs[j]) /\ fs[j].tab[x] > 0)
      BY <1>h, <1>w, <1>8, <2>2, <3>1
    <3> QED BY <1>3, <1>v, <1>8, <3>1, <3>4, <3>5 DEF Binds
  <2>5. Holding(tt, i - 1, y, Copied(gs[i].tab[y]))
    BY <2>1, <2>4 DEF Holding, Copied
  <2>6. gs[i].kind # "directory" => (y \in gs[i].copied <=> y \in gs[i].raised)
    BY <1>1, <1>8, <1>o, <2>3
  <2> QED BY <2>1, <2>5, <2>6
<1> QED BY <1>4, <1>6, <1>7, <1>8

\* A value of its own is the one seen in the current table.
LEMMA OwnIsSeen ==
    ASSUME NEW fs, Framed(fs), NEW x \in Names, fs[Own(fs)].tab[x] > 0
    PROVE  Normal(fs, Len(fs), x) = fs[Own(fs)].tab[x]
<1> DEFINE n == Len(fs)
           c == Own(fs)
           h == Holder(fs, n, x)
<1>1. n \in 1..n /\ n \in Nat
  BY DEF Framed
<1>2. /\ h \in 0..n
      /\ h # 0 => Opaque(fs[h])
      /\ \A j \in WorldStart(fs)..n : j > h => ~(Opaque(fs[j]) /\ fs[j].tab[x] # Inherit)
      /\ Normal(fs, n, x) = IF h = 0 \/ fs[h].tab[x] = Hidden THEN 0 ELSE fs[h].tab[x]
  BY <1>1, NormalIs
<1>3. c \in 1..n /\ Opaque(fs[c]) /\ \A j \in 1..n : j > c => ~Opaque(fs[j])
  BY OwnIs
<1>4. WorldStart(fs) \in 1..c
  BY WorldStartIs
<1> HIDE DEF h, n
<1>5. h = c
  <2>1. ~(c > h)
    BY <1>1, <1>2, <1>3, <1>4 DEF Inherit, c
  <2>2. ~(h > c)
    BY <1>1, <1>2, <1>3, <1>4
  <2> QED BY <1>1, <1>2, <1>3, <2>1, <2>2
<1>6. fs[c].tab[x] # Hidden
  BY DEF Hidden
<1> QED BY <1>1, <1>2, <1>3, <1>5, <1>6 DEF n

LEMMA RaiseKeepsData ==
    ASSUME NEW st \in Seq(Scope), NEW fs, Len(st) = Len(fs), Framed(fs), Pairs(st, fs),
           Data(st, fs), NEW x \in Names, NEW w \in Nat \ {0}, ~AtTop(fs)
    PROVE  Data(Written(st, "parent_scope", x, w), FramesAfter(fs, "parent_scope", x, w))
<1> DEFINE tt == Written(st, "parent_scope", x, w)
           gs == FramesAfter(fs, "parent_scope", x, w)
           c  == Own(fs)
           a  == Above(fs)
           n  == Len(fs)
           v  == Normal(fs, Len(fs), x)
<1>1. /\ Len(gs) = n
      /\ \A i \in 1..n : /\ SameFrame(gs[i], fs[i])
                         /\ \A y \in Names : y # x \/ i \notin {a, c} => SameColumn(gs[i], fs[i], y)
      /\ gs[a].tab[x] = w
      /\ x \in gs[a].copied <=> x \in fs[a].copied
      /\ x \in gs[a].raised <=> x \in fs[a].raised
      /\ gs[c].tab[x] = (IF v = 0 THEN Hidden ELSE v)
      /\ x \in gs[c].copied <=> x \in fs[c].copied \/ ~OwnValue(fs[c], x)
      /\ x \in gs[c].raised <=> x \in fs[c].raised \/ ~OwnValue(fs[c], x)
  BY RaiseEffect
<1>2. \A i \in 1..n : Target(st, "parent_scope", i) <=> i = a
  BY TargetIs
<1>3. \A i \in 1..n : /\ tt[i].transparent = st[i].transparent
                      /\ i # a => tt[i].vars = st[i].vars
                      /\ \A y \in Names : y # x => tt[i].vars[y] = st[i].vars[y]
                      /\ i = a => tt[i].vars[x] = w
  <2>1. w \in Nat /\ n = Len(st)
    OBVIOUS
  <2>2. ASSUME NEW i \in 1..n PROVE OneCell(st, "parent_scope", x, w, i)
    BY <2>1, WrittenStill
  <2> QED BY <1>2, <2>2 DEF OneCell
<1>4. /\ n \in Nat /\ c \in 1..n /\ a \in 1..n /\ a < c
      /\ \A j \in 1..n : j > a /\ j # c => ~Opaque(fs[j])
  <2>1. n \in Nat /\ c \in 1..n /\ \A j \in 1..n : j > c => ~Opaque(fs[j])
    BY OwnIs DEF Framed
  <2>2. /\ a \in WorldStart(fs)..(c - 1) /\ WorldStart(fs) \in 1..c
        /\ \A j \in 1..n : a < j /\ j < c => ~Opaque(fs[j])
    BY AboveIs, WorldStartIs
  <2> HIDE DEF a, c, n
  <2> QED BY <2>1, <2>2
<1>o. \A j \in 1..n : /\ Opaque(gs[j]) <=> Opaque(fs[j])
                      /\ gs[j].kind = fs[j].kind
  BY <1>1 DEF Opaque, SameFrame
<1>v. st[c].vars[x] \in Nat
  <2>1. st[c] \in Scope
    BY <1>4, ElementOfSeq
  <2> QED BY <2>1 DEF Scope
<1>s. fs[c].tab[x] > 0 => v = fs[c].tab[x]
  BY OwnIsSeen
<1> HIDE DEF tt, gs, c, a, n, v
<1> SUFFICES ASSUME NEW i \in 1..n, NEW y \in Names PROVE DataAt(tt, gs, i, y)
  BY <1>1 DEF Data, tt, gs
<1>5. DataAt(st, fs, i, y)
  BY DEF Data, n
<1>t. OutOfTry(gs, i) /\ Opaque(gs[i]) => OutOfTry(fs, i) /\ Opaque(fs[i])
  <2>1. \A j \in 1..i : j \in 1..n
    BY <1>4
  <2> QED BY <1>o, <2>1 DEF OutOfTry
<1>6. CASE y # x \/ i < a
  <2>1. ASSUME NEW j \in 1..i PROVE Still(st, fs, tt, gs, j, y)
    <3>1. j \in 1..n /\ (y # x \/ j \notin {a, c})
      BY <1>4, <1>6
    <3> QED BY <1>1, <1>3, <3>1 DEF Still, SameFrame
  <2> QED BY <1>4, <1>5, <2>1, ColumnKept
<1>7. CASE y = x /\ i > a /\ i # c
  <2>1. ~Opaque(gs[i])
    BY <1>4, <1>7, <1>o
  <2> QED BY <2>1 DEF DataAt
<1>8. CASE y = x /\ i = a
  <2>1. gs[i].tab[y] = w /\ tt[i].vars[y] = w /\ w # NoRow
    BY <1>1, <1>3, <1>8 DEF NoRow
  <2>2. fs[i].kind # "directory" => (y \in fs[i].copied <=> y \in fs[i].raised)
           \/ ~(OutOfTry(fs, i) /\ Opaque(fs[i]))
    BY <1>5 DEF DataAt
  <2>3. OutOfTry(gs, i) /\ Opaque(gs[i]) /\ gs[i].kind # "directory"
           => (y \in gs[i].copied <=> y \in gs[i].raised)
    BY <1>1, <1>8, <1>o, <1>t, <2>2
  <2> QED BY <2>1, <2>3 DEF DataAt
<1>9. CASE y = x /\ i = c
  <2>1. tt[i].vars[y] = st[c].vars[x] /\ i # a
    BY <1>3, <1>4, <1>9
  <2>2. OutOfTry(fs, i) /\ Opaque(fs[i]) =>
          /\ st[c].vars[x] # NoRow => fs[c].tab[x] = st[c].vars[x]
          /\ Wrote(fs, c, x) => st[c].vars[x] # NoRow
          /\ fs[c].kind # "directory" => (x \in fs[c].copied <=> x \in fs[c].raised)
    BY <1>5, <1>9 DEF DataAt
  <2>3. CASE OwnValue(fs[c], x)
    <3>1. v = fs[c].tab[x] /\ v > 0
      BY <1>s, <2>3 DEF OwnValue
    <3>2. /\ gs[c].tab[x] = fs[c].tab[x]
          /\ x \in gs[c].copied <=> x \in fs[c].copied
          /\ x \in gs[c].raised <=> x \in fs[c].raised
      BY <1>1, <2>3, <3>1
    <3>3. Opaque(fs[c]) => Wrote(fs, c, x)
      BY <2>3 DEF OwnValue, Wrote
    <3> QED BY <1>9, <1>o, <1>t, <2>1, <2>2, <3>2, <3>3 DEF DataAt
  <2>4. CASE ~OwnValue(fs[c], x)
    <3>1. x \in gs[c].copied /\ x \in gs[c].raised
      BY <1>1, <2>4
    <3>2. ~Wrote(gs, c, x)
      BY <3>1 DEF Wrote
    <3>3. Vague(gs, c, x)
      <4>1. c \in 1..c /\ \A j \in 1..c : ~(j > c)
        BY <1>4
      <4> QED BY <3>1, <4>1 DEF Vague
    <3>4. OutOfTry(gs, c) /\ Opaque(gs[c]) /\ st[c].vars[x] # NoRow => gs[c].tab[x] = st[c].vars[x]
      <4> SUFFICES ASSUME OutOfTry(gs, c) /\ Opaque(gs[c]) /\ st[c].vars[x] # NoRow
                   PROVE  gs[c].tab[x] = st[c].vars[x]
        OBVIOUS
      <4>1. fs[c].tab[x] = st[c].vars[x] /\ fs[c].tab[x] > 0
        BY <1>9, <1>t, <1>v, <2>2 DEF NoRow
      <4>2. v = fs[c].tab[x] /\ v # 0
        BY <1>s, <4>1
      <4> QED BY <1>1, <4>1, <4>2
    <3> QED BY <1>9, <2>1, <3>1, <3>2, <3>3, <3>4 DEF DataAt
  <2> QED BY <2>3, <2>4
<1> QED BY <1>4, <1>6, <1>7, <1>8, <1>9

\* A command that writes no table of a scope.
LEMMA UnwrittenKeepsData ==
    ASSUME NEW st \in Seq(Scope), NEW fs, Len(st) = Len(fs), Data(st, fs), Framed(fs),
           NEW cmd, cmd \notin {"set", "unset", "parent_scope"}, NEW x \in Names, NEW w \in Nat
    PROVE  Data(Written(st, cmd, x, w), fs)
<1> DEFINE tt == Written(st, cmd, x, w)
<1>1. \A i \in 1..Len(fs) : tt[i].transparent = st[i].transparent /\ tt[i].vars = st[i].vars
  <2> SUFFICES ASSUME NEW i \in 1..Len(st)
               PROVE  tt[i].transparent = st[i].transparent /\ tt[i].vars = st[i].vars
    OBVIOUS
  <2>1. ~Target(st, cmd, i)
    BY DEF Target
  <2>2. Written(st, cmd, x, w)[i].transparent = st[i].transparent
    BY WrittenPairs
  <2>3. Written(st, cmd, x, w)[i].vars = st[i].vars
    BY <2>1, WrittenVars
  <2> QED BY <2>2, <2>3
<1>2. Len(fs) \in Nat
  BY DEF Framed
<1> HIDE DEF tt
<1> SUFFICES ASSUME NEW i \in 1..Len(fs), NEW y \in Names PROVE DataAt(tt, fs, i, y)
  BY DEF Data, tt
<1>3. \A j \in 1..i : j \in 1..Len(fs)
  BY <1>2
<1>4. \A j \in 1..i : Still(st, fs, tt, fs, j, y)
  BY <1>1, <1>3 DEF Still, SameColumn
<1>5. DataAt(st, fs, i, y)
  BY DEF Data
<1> QED BY <1>2, <1>4, <1>5, ColumnKept

\* In a try_compile a cache write is one of the replay's locals, and CMake's
\* cache is its own: no table outside is concerned.
LEMMA ContainedKeepsData ==
    ASSUME NEW st \in Seq(Scope), NEW fs, Len(st) = Len(fs), Framed(fs), Pairs(st, fs),
           Data(st, fs), NEW x \in Names, NEW w \in Nat, InTry(fs)
    PROVE  Data(Written(st, "set", x, w), fs)
<1> DEFINE tt == Written(st, "set", x, w)
           c  == Own(fs)
           n  == Len(fs)
<1>1. \A i \in 1..n : Target(st, "set", i) <=> i = c
  BY TargetIs
<1>2. \A i \in 1..n : tt[i].transparent = st[i].transparent /\ (i # c => tt[i].vars = st[i].vars)
  <2> SUFFICES ASSUME NEW i \in 1..Len(st)
               PROVE  tt[i].transparent = st[i].transparent /\ (i # c => tt[i].vars = st[i].vars)
    OBVIOUS
  <2>1. Written(st, "set", x, w)[i].transparent = st[i].transparent
    BY WrittenPairs
  <2>2. ~Target(st, "set", i) => Written(st, "set", x, w)[i].vars = st[i].vars
    BY WrittenVars
  <2> QED BY <1>1, <2>1, <2>2
<1>3. n \in Nat /\ c \in 1..n /\ \A j \in 1..n : j > c => ~Opaque(fs[j])
  BY OwnIs DEF Framed
<1>4. WorldStart(fs) \in 1..c /\ fs[WorldStart(fs)].kind = "try_compile"
  BY WorldStartIs
<1> HIDE DEF tt, c, n
<1> SUFFICES ASSUME NEW i \in 1..n, NEW y \in Names PROVE DataAt(tt, fs, i, y)
  BY DEF Data, tt, n
<1>5. CASE i < c
  <2>1. \A j \in 1..i : j \in 1..n /\ j # c
    BY <1>3, <1>5
  <2>2. \A j \in 1..i : Still(st, fs, tt, fs, j, y)
    BY <1>2, <2>1 DEF Still, SameColumn
  <2>3. DataAt(st, fs, i, y)
    BY DEF Data, n
  <2> QED BY <1>3, <2>2, <2>3, ColumnKept
<1>6. CASE i >= c
  <2>1. ~OutOfTry(fs, i)
    BY <1>3, <1>4, <1>6 DEF OutOfTry
  <2> QED BY <2>1 DEF DataAt
<1> QED BY <1>3, <1>5, <1>6

\* Frames with a scope below the ones that change are not concerned.
LEMMA PrefixKept ==
    ASSUME NEW st, NEW fs, NEW tt, NEW gs, NEW k \in Nat,
           \A i \in 1..k : /\ tt[i] = st[i]
                           /\ gs[i].kind = fs[i].kind /\ gs[i].node = fs[i].node
                           /\ gs[i].tab = fs[i].tab /\ gs[i].copied = fs[i].copied
                           /\ gs[i].raised = fs[i].raised,
           \A i \in 1..k : \A x \in Names : DataAt(st, fs, i, x)
    PROVE  \A i \in 1..k : \A x \in Names : DataAt(tt, gs, i, x)
<1> SUFFICES ASSUME NEW i \in 1..k, NEW x \in Names PROVE DataAt(tt, gs, i, x)
  OBVIOUS
<1>1. \A j \in 1..i : j \in 1..k
  OBVIOUS
<1>2. \A j \in 1..i : Still(st, fs, tt, gs, j, x)
  BY <1>1 DEF Still, SameColumn
<1>3. DataAt(st, fs, i, x)
  OBVIOUS
<1> QED BY <1>2, <1>3, ColumnKept

\* A frame whose table is that of its scope: a function with its arguments, or
\* a block().
LEMMA FreshTable ==
    ASSUME NEW st, NEW fs, NEW i, NEW x \in Names,
           fs[i].tab[x] = st[i].vars[x], st[i].vars[x] \in Nat,
           fs[i].copied = {}, fs[i].raised = {}
    PROVE  DataAt(st, fs, i, x)
BY DEF DataAt, Wrote, NoRow, Inherit

\* A frame without a table outside of any try_compile has none to compare.
LEMMA NoTable ==
    ASSUME NEW st, NEW fs, NEW i \in Nat \ {0}, NEW x \in Names,
           ~Opaque(fs[i]) \/ fs[i].kind = "try_compile"
    PROVE  DataAt(st, fs, i, x)
<1>1. i \in 1..i
  OBVIOUS
<1> QED BY <1>1 DEF DataAt, OutOfTry

\* A subdirectory starts with a copy of the values CMake sees.
LEMMA CopiedTable ==
    ASSUME NEW st \in Seq(Scope), NEW fs, Len(st) = Len(fs), Framed(fs), Pairs(st, fs),
           Data(st, fs), NEW tt, NEW gs, NEW x \in Names,
           \A i \in 1..Len(fs) : gs[i] = fs[i] /\ tt[i] = st[i],
           gs[Len(fs) + 1].kind = "directory", gs[Len(fs) + 1].tab = Closure(fs),
           gs[Len(fs) + 1].copied = Names, tt[Len(fs) + 1].vars = Empty
    PROVE  DataAt(tt, gs, Len(fs) + 1, x)
<1> DEFINE n == Len(fs)
           k == n + 1
           v == Normal(fs, n, x)
<1>1. n \in Nat /\ n \in 1..n /\ k \in Nat /\ k - 1 = n
  BY DEF Framed
<1>2. v \in Nat
  BY <1>1, NormalIs
<1>3. tt[k].vars[x] = NoRow /\ gs[k].tab[x] = IF v = 0 THEN Hidden ELSE v
  BY DEF Closure, Empty
<1>4. Copied(gs[k].tab[x]) = v
  BY <1>2, <1>3 DEF Copied, Hidden, NoRow
<1>5. ~Wrote(gs, k, x)
  BY DEF Wrote
<1>6. ASSUME OutOfTry(gs, k), ~Vague(gs, k, x) PROVE Holding(tt, n, x, v)
  <2>1. ~InTry(fs)
    <3>1. DOMAIN fs = 1..n
      BY LenProperties DEF Framed
    <3>2. \A j \in 1..n : j \in 1..k /\ gs[j] = fs[j]
      BY <1>1
    <3> QED BY <1>6, <3>1, <3>2 DEF OutOfTry, InTry
  <2>2. ~Vague(fs, n, x)
    <3> SUFFICES ASSUME Vague(fs, n, x) PROVE FALSE
      OBVIOUS
    <3>1. PICK r \in 1..n : x \in fs[r].raised /\ \A j \in 1..n : j > r => ~Wrote(fs, j, x)
      BY DEF Vague
    <3>2. \A j \in 1..n : Wrote(gs, j, x) <=> Wrote(fs, j, x)
      BY DEF Wrote
    <3>3. \A j \in 1..k : j \in 1..n \/ j = k
      BY <1>1
    <3>4. r \in 1..k /\ x \in gs[r].raised /\ \A j \in 1..k : j > r => ~Wrote(gs, j, x)
      BY <1>1, <1>5, <3>1, <3>2, <3>3
    <3> QED BY <1>6, <3>4 DEF Vague
  <2>3. Holding(st, n, x, v)
    BY <2>1, <2>2, NormalHeld
  <2>4. \A j \in 1..n : tt[j] = st[j]
    OBVIOUS
  <2> HIDE DEF n, v
  <2> QED BY <2>3, <2>4 DEF Holding, Binds
<1> HIDE DEF k, n, v
<1>7. DataAt(tt, gs, k, x)
  <2>1. gs[k].kind = "directory"
    BY DEF k, n
  <2> QED BY <1>1, <1>3, <1>4, <1>5, <1>6, <2>1 DEF DataAt
<1> QED BY <1>7 DEF k, n

\* A frame more.
LEMMA PushKeepsData ==
    ASSUME NEW st, NEW fs, Framed(fs), Data(st, fs), NEW tt, NEW gs, Len(gs) = Len(fs) + 1,
           \A i \in 1..Len(fs) : gs[i] = fs[i] /\ tt[i] = st[i],
           \A x \in Names : DataAt(tt, gs, Len(fs) + 1, x)
    PROVE  Data(tt, gs)
<1> DEFINE n == Len(fs)
<1>1. n \in Nat
  BY DEF Framed
<1>2. \A i \in 1..n : \A x \in Names : DataAt(st, fs, i, x)
  BY DEF Data
<1>3. \A i \in 1..n : gs[i] = fs[i] /\ tt[i] = st[i]
  OBVIOUS
<1>4. \A x \in Names : DataAt(tt, gs, n + 1, x)
  OBVIOUS
<1>5. Len(gs) = n + 1
  OBVIOUS
<1> HIDE DEF n
<1>6. \A i \in 1..n : \A x \in Names : DataAt(tt, gs, i, x)
  BY <1>1, <1>2, <1>3, PrefixKept
<1>7. \A i \in 1..(n + 1) : i \in 1..n \/ i = n + 1
  BY <1>1
<1> QED BY <1>4, <1>5, <1>6, <1>7 DEF Data

-----------------------------------------------------------------------------
(* The caches and the environment.                                         *)

Typed ==
    cache \in [Names -> Nat] /\ env \in [Names -> Nat] /\ cleared \in SUBSET Names

\* Entry w of the replay's cache is right where CMake's entry is v: of a name
\* unset(X CACHE) removed the replay keeps the row of the unset.
Entry(x, w, v, cl, ws) ==
    IF x \in cl THEN v = NoRow /\ w \in 1..Len(ws) /\ ws[w].cmd = "unset_cache" ELSE w = v

CacheAgrees == \A x \in Names : Entry(x, cacheVars[x], cache[x], cleared, writes)

Fresh == nEvents = 0 => writes = <<>> /\ cleared = {}

\* While the replay runs, it mirrors CMake.
Mirrors ==
    /\ Structure /\ Data(Due, frames)
    /\ Typed /\ CacheAgrees /\ envVars = env /\ Fresh

LEMMA SameTry ==
    ASSUME TypeOK, Structure
    PROVE  InTryCompile(Due) <=> InTry(frames)
<1>1. Len(Due) = Len(frames) /\ DOMAIN frames = 1..Len(frames)
  BY DueIs, LenProperties DEF Structure, Framed
<1>2. \A i \in 1..Len(frames) : Due[i].kind = frames[i].kind
  BY DEF Structure, Pairs, Pair
<1> QED BY <1>1, <1>2 DEF InTryCompile, InTry

\* What an event reads from, and what it does to the caches.
LEMMA EventCaches ==
    ASSUME DisciplineInv, ContainInv, Mirrors, NEW e, Event2(e), Fits(e), NEW dump, Replay(e, dump)
    PROVE  \E c2 \in [Names -> Nat], k \in Nat :
              /\ \A x \in Names : Entry(x, c2[x], SeededCache(1)[x], cleared, writes')
              /\ RecordReads(e, Due, c2, k)
              /\ IsWrite(e) =>
                   LET cmd == EffectiveCmd(Due, e.cmd)
                       w   == Len(writes')
                   IN  /\ w \in Nat \ {0} /\ writes'[w].cmd = cmd
                       /\ RecordScope(Due, cmd, writes'[w].scope)
                       /\ cacheVars' = CacheWritten(c2, cmd, e.name, w)
                       /\ envVars' = EnvWritten(Due, envVars, cmd, e.name, w)
              /\ ~IsWrite(e) => cacheVars' = c2 /\ envVars' = envVars
              /\ \A w \in 1..Len(writes) : w \in 1..Len(writes') /\ writes'[w] = writes[w]
              /\ nEvents' = nEvents + 1 /\ nEvents' > 0
              /\ mismatches' \in {mismatches, mismatches \cup SnapshotMismatches(Due, dump)}
              /\ SeededCache(1) \in [Names -> Nat]
<1>t. TypeOK /\ Structure /\ TreeInv /\ Dated(writes, nEvents) /\ Started /\ outcome = "running"
  BY DEF DisciplineInv, Mirrors, ContainInv, Replay
<1>n. PICK n, st1, sc1, sc2, ws2, c2, cmd, st3 :
         /\ Stages(e, n, st1, sc1, Due, sc2, ws2, c2, cmd, st3)
         /\ Results(e, dump, Due, sc2, ws2, c2, cmd, st3)
  BY <1>t, EventConsumed
<1>1. ws2 \in Seq(WriteRow) /\ Len(ws2) \in Nat /\ c2 \in [Names -> Nat] /\ nEvents \in Nat
  <2>1. ws2 \in Seq(WriteRow) /\ Len(ws2) \in Nat /\ c2 \in [Names -> Nat]
    BY <1>n, <1>t, StageTypes
  <2> QED BY <2>1, <1>t, ReplayAssumption DEF TypeOK, ReplayAssumption
<1>2. /\ \A w \in 1..Len(writes) : w \in 1..Len(writes') /\ writes'[w] = writes[w]
      /\ IsWrite(e) => writes'[Len(writes')].cmd = cmd
                       /\ RecordScope(Due, cmd, writes'[Len(writes')].scope)
  BY <1>n, <1>t, WritesGrow
<1>3. c2 = CacheWithSeeds(ws2) /\ cmd = EffectiveCmd(Due, e.cmd)
  BY <1>n DEF Stages
<1>4. SeededCache(1) \in [Names -> Nat]
  BY DEF SeededCache, Mirrors, Typed
<1>5. ASSUME NEW x \in Names PROVE Entry(x, c2[x], SeededCache(1)[x], cleared, writes')
  <2>1. CASE nEvents = 0 /\ x \in Preseeded
    <3>1. writes = <<>> /\ x \notin cleared
      BY <2>1 DEF Mirrors, Fresh
    <3>2. ~Synthesizes(e)
      BY <1>t, <2>1 DEF Started, Synthesizes, Opens
    <3>3. x \in Seeds /\ Seeds # {}
      BY <2>1 DEF Seeds
    <3>4. PICK row : ws2 = Append(writes, row)
      BY <1>n, <3>2, <3>3 DEF Stages, Synthesized, SeededRows
    <3>5. Len(ws2) = 1
      <4>1. <<>> \in Seq(WriteRow) /\ Len(<<>>) = 0
        BY EmptySeq
      <4> QED BY <3>1, <3>4, <4>1
    <3>6. c2[x] = 1
      BY <1>3, <3>3, <3>5 DEF CacheWithSeeds
    <3> QED BY <2>1, <3>1, <3>6 DEF Entry, SeededCache
  <2>2. CASE ~(nEvents = 0 /\ x \in Preseeded)
    <3>1. c2[x] = cacheVars[x] /\ SeededCache(1)[x] = cache[x]
      BY <1>3, <2>2 DEF CacheWithSeeds, Seeds, SeededCache
    <3>2. Entry(x, cacheVars[x], cache[x], cleared, writes)
      BY DEF Mirrors, CacheAgrees
    <3> QED BY <1>2, <3>1, <3>2 DEF Entry
  <2> QED BY <2>1, <2>2
<1>6. IsWrite(e) => Len(writes') = Len(ws2) + 1
  <2> SUFFICES ASSUME IsWrite(e) PROVE Len(writes') = Len(ws2) + 1
    OBVIOUS
  <2>1. PICK row : writes' = Append(ws2, row)
    BY <1>n DEF Results
  <2> QED BY <1>1, <2>1
<1>7. IsWrite(e) => /\ cacheVars' = CacheWritten(c2, cmd, e.name, Len(writes'))
                    /\ envVars' = EnvWritten(Due, envVars, cmd, e.name, Len(writes'))
  BY <1>n, <1>6 DEF Results
<1>8. IsWrite(e) => Len(writes') \in Nat \ {0}
  BY <1>1, <1>6
<1>9. /\ RecordReads(e, Due, c2, Len(ws2))
      /\ ~IsWrite(e) => cacheVars' = c2 /\ envVars' = envVars
      /\ nEvents' = nEvents + 1
      /\ mismatches' \in {mismatches, mismatches \cup SnapshotMismatches(Due, dump)}
  BY <1>n DEF Results
<1>10. nEvents' > 0
  BY <1>1, <1>9
<1>11. c2 \in [Names -> Nat] /\ Len(ws2) \in Nat
  BY <1>1
<1> HIDE DEF IsWrite
<1> USE <1>11
<1> WITNESS c2 \in [Names -> Nat], Len(ws2) \in Nat
<1> QED BY <1>2, <1>3, <1>4, <1>5, <1>7, <1>8, <1>9, <1>10

\* A command that writes nothing leaves the caches as they are.
LEMMA QuietKeepsCaches ==
    ASSUME DisciplineInv, ContainInv, Mirrors, NEW e, Event2(e), Fits(e), NEW dump, Replay(e, dump),
           ~IsWrite(e), cache' = SeededCache(1), UNCHANGED <<env, cleared>>
    PROVE  Typed' /\ CacheAgrees' /\ envVars' = env' /\ Fresh'
<1>1. PICK c2 \in [Names -> Nat], k \in Nat :
         /\ \A x \in Names : Entry(x, c2[x], SeededCache(1)[x], cleared, writes')
         /\ cacheVars' = c2 /\ envVars' = envVars
         /\ nEvents' > 0
         /\ SeededCache(1) \in [Names -> Nat]
  BY EventCaches
<1>2. Typed'
  BY <1>1 DEF Typed, Mirrors
<1>3. CacheAgrees'
  BY <1>1 DEF CacheAgrees
<1>4. envVars' = env'
  BY <1>1 DEF Mirrors
<1> QED BY <1>1, <1>2, <1>3, <1>4 DEF Fresh

\* Nor does what a write does to them tell the replay from CMake.
LEMMA WriteKeepsCaches ==
    ASSUME DisciplineInv, ContainInv, Mirrors, NEW e, Event2(e), Fits(e), NEW dump, Replay(e, dump),
           IsWrite(e), e.cmd = "cache_soft" => InTry(frames) \/ e.name \notin cleared,
           cache' = CacheAfter(frames, SeededCache(1), e.cmd, e.name, Len(writes')),
           env' = EnvAfter(frames, env, e.cmd, e.name, Len(writes')),
           cleared' = ClearedAfter(frames, cleared, e.cmd, e.name)
    PROVE  Typed' /\ CacheAgrees' /\ envVars' = env' /\ Fresh'
<1> DEFINE w   == Len(writes')
           cmd == EffectiveCmd(Due, e.cmd)
           sc  == SeededCache(1)
           y   == e.name
<1>t. (InTryCompile(Due) <=> InTry(frames)) /\ y \in Names /\ e.cmd \in WriteCmds
  BY SameTry DEF DisciplineInv, Mirrors, IsWrite, Event2, Event
<1>1. PICK c2 \in [Names -> Nat], k \in Nat :
         /\ \A x \in Names : Entry(x, c2[x], sc[x], cleared, writes')
         /\ w \in Nat \ {0} /\ writes'[w].cmd = cmd
         /\ cacheVars' = CacheWritten(c2, cmd, y, w)
         /\ envVars' = EnvWritten(Due, envVars, cmd, y, w)
         /\ nEvents' > 0
         /\ sc \in [Names -> Nat]
  BY EventCaches
<1>m. env \in [Names -> Nat] /\ cleared \in SUBSET Names /\ envVars = env
  BY DEF Mirrors, Typed
<1>w. w \in 1..Len(writes')
  BY <1>1
<1>2. CASE InTry(frames)
  <2>1. cmd \notin {"cache", "cache_soft", "unset_cache"}
    BY <1>t, <1>2 DEF EffectiveCmd
  <2> HIDE DEF cmd, w, sc, y
  <2>2. cacheVars' = c2
    BY <1>1, <2>1 DEF CacheWritten
  <2>3. cache' = sc
    BY <1>2 DEF CacheAfter, sc
  <2>4. cleared' = cleared
    BY <1>2 DEF ClearedAfter
  <2>5. env' = env /\ envVars' = envVars
    BY <1>1, <1>2, <1>t DEF EnvAfter, EnvWritten
  <2> QED BY <1>1, <1>m, <2>2, <2>3, <2>4, <2>5 DEF Typed, CacheAgrees, Fresh
<1>3. CASE ~InTry(frames)
  <2>0. cmd = e.cmd
    BY <1>t, <1>3 DEF EffectiveCmd
  <2> HIDE DEF cmd, w, sc, y
  <2>1. envVars' = env' /\ env' \in [Names -> Nat]
    BY <1>1, <1>3, <1>m, <1>t, <2>0 DEF EnvAfter, EnvWritten, NoRow, w, y
  <2>2. CASE e.cmd = "cache"
    <3>1. /\ cacheVars' = [c2 EXCEPT ![y] = w] /\ cache' = [sc EXCEPT ![y] = w]
          /\ cleared' = cleared \ {y}
      BY <1>1, <1>3, <2>0, <2>2 DEF CacheWritten, CacheAfter, ClearedAfter, sc, w, y
    <3>2. \A x \in Names : Entry(x, cacheVars'[x], cache'[x], cleared', writes')
      BY <1>1, <3>1 DEF Entry
    <3>3. Typed'
      BY <1>1, <1>m, <2>1, <3>1 DEF Typed
    <3> QED BY <1>1, <2>1, <3>2, <3>3 DEF CacheAgrees, Fresh
  <2>3. CASE e.cmd = "cache_soft"
    <3>1. y \notin cleared
      BY <1>3, <2>3 DEF y
    <3>2. c2[y] = sc[y]
      BY <1>1, <1>t, <3>1 DEF Entry
    <3>3. /\ cacheVars' = (IF c2[y] = NoRow THEN [c2 EXCEPT ![y] = w] ELSE c2)
          /\ cache' = [sc EXCEPT ![y] = IF @ = 0 THEN w ELSE @] /\ cleared' = cleared
      BY <1>1, <1>3, <2>0, <2>3 DEF CacheWritten, CacheAfter, ClearedAfter, sc, w, y
    <3>4. ASSUME NEW x \in Names PROVE Entry(x, cacheVars'[x], cache'[x], cleared', writes')
      <4>1. Entry(x, c2[x], sc[x], cleared, writes')
        BY <1>1
      <4>2. CASE x = y
        <5>1. cacheVars'[x] = cache'[x]
          BY <1>1, <1>t, <3>2, <3>3, <4>2 DEF NoRow
        <5> QED BY <3>1, <3>3, <4>2, <5>1 DEF Entry
      <4>3. CASE x # y
        <5>1. cacheVars'[x] = c2[x] /\ cache'[x] = sc[x]
          BY <1>1, <1>t, <3>3, <4>3
        <5> QED BY <3>3, <4>1, <5>1
      <4> QED BY <4>2, <4>3
    <3>5. Typed'
      BY <1>1, <1>m, <2>1, <3>3 DEF Typed
    <3> QED BY <1>1, <2>1, <3>4, <3>5 DEF CacheAgrees, Fresh
  <2>4. CASE e.cmd = "unset_cache"
    <3>1. /\ cacheVars' = [c2 EXCEPT ![y] = w] /\ cache' = [sc EXCEPT ![y] = 0]
          /\ cleared' = cleared \cup {y}
      BY <1>1, <1>3, <2>0, <2>4 DEF CacheWritten, CacheAfter, ClearedAfter, sc, w, y
    <3>2. ASSUME NEW x \in Names PROVE Entry(x, cacheVars'[x], cache'[x], cleared', writes')
      <4>1. Entry(x, c2[x], sc[x], cleared, writes')
        BY <1>1
      <4>2. CASE x = y
        <5>1. cacheVars'[x] = w /\ cache'[x] = NoRow /\ x \in cleared'
          BY <1>1, <1>t, <3>1, <4>2 DEF NoRow
        <5>2. writes'[w].cmd = "unset_cache"
          BY <1>1, <2>0, <2>4
        <5> QED BY <1>w, <5>1, <5>2 DEF Entry
      <4>3. CASE x # y
        <5>1. cacheVars'[x] = c2[x] /\ cache'[x] = sc[x] /\ (x \in cleared' <=> x \in cleared)
          BY <1>1, <1>t, <3>1, <4>3
        <5> QED BY <4>1, <5>1 DEF Entry
      <4> QED BY <4>2, <4>3
    <3>3. Typed'
      BY <1>1, <1>m, <1>t, <2>1, <3>1 DEF Typed
    <3> QED BY <1>1, <2>1, <3>2, <3>3 DEF CacheAgrees, Fresh
  <2>5. CASE e.cmd \notin {"cache", "cache_soft", "unset_cache"}
    <3>1. cacheVars' = c2 /\ cache' = sc /\ cleared' = cleared
      BY <1>1, <1>3, <2>0, <2>5 DEF CacheWritten, CacheAfter, ClearedAfter, sc
    <3> QED BY <1>1, <1>m, <2>1, <3>1 DEF Typed, CacheAgrees, Fresh
  <2> QED BY <2>2, <2>3, <2>4, <2>5
<1> QED BY <1>2, <1>3

-----------------------------------------------------------------------------
(* The events CMake traces.                                                *)

LEMMA TopDepth ==
    ASSUME Framed(frames)
    PROVE  Top.depth \in Nat \ {0} /\ Top.depth + 1 \in Nat \ {0}
<1>1. Len(frames) \in 1..Len(frames)
  BY DEF Framed
<1>2. frames[Len(frames)] \in FrameSet
  BY <1>1, FrameFacts
<1>3. frames[Len(frames)].depth \in Nat \ {0}
  BY <1>2 DEF FrameSet
<1> QED BY <1>3 DEF Top

LEMMA EnclosingNodes ==
    ASSUME Framed(frames)
    PROVE  Enclosing(frames) \in SUBSET Nodes
<1> SUFFICES ASSUME NEW i \in (Executing(frames) + 1)..Len(frames) PROVE frames[i].node \in Nodes
  BY DEF Enclosing
<1>1. /\ Executing(frames) \in 1..Len(frames)
      /\ \A j \in 1..Len(frames) : j > Executing(frames) => frames[j].kind = "block"
  BY ExecutingIs
<1>2. i \in 1..Len(frames) /\ i > Executing(frames)
  BY <1>1 DEF Framed
<1> QED BY <1>1, <1>2 DEF Framed

\* The event e is that of the command.
Emitted(e, cmd, node, name, ref, proc, params) ==
    /\ e.cmd = cmd /\ e.node = node /\ e.name = name /\ e.ref = ref
    /\ e.proc = proc /\ e.params = params
    /\ e.file = frames[Executing(frames)].unit /\ e.depth = Top.depth
    /\ Event2(e)
    /\ node = None \/ node \notin left => Fits(e)

LEMMA EventOfIs ==
    Framed(frames) =>
    \A cmd \in BuiltinCmds \cup Procs : \A node \in Nodes \cup {None} :
    \A name \in Names \cup {None} : \A ref \in Names \cup {None} :
    \A proc \in Procs \cup {None} : \A params \in SUBSET Names :
        (cmd = "block" => node \in Nodes) =>
        Emitted(EventOf(cmd, node, name, ref, proc, params), cmd, node, name, ref, proc, params)
<1> SUFFICES ASSUME Framed(frames),
                    NEW cmd \in BuiltinCmds \cup Procs, NEW node \in Nodes \cup {None},
                    NEW name \in Names \cup {None}, NEW ref \in Names \cup {None},
                    NEW proc \in Procs \cup {None}, NEW params \in SUBSET Names,
                    cmd = "block" => node \in Nodes
             PROVE  Emitted(EventOf(cmd, node, name, ref, proc, params),
                            cmd, node, name, ref, proc, params)
  OBVIOUS
<1> DEFINE e == EventOf(cmd, node, name, ref, proc, params)
           at == Enclosing(frames) \cup ({node} \ {None})
<1>1. /\ e.cmd = cmd /\ e.node = node /\ e.name = name /\ e.ref = ref
      /\ e.proc = proc /\ e.params = params
      /\ e.file = frames[Executing(frames)].unit /\ e.depth = Top.depth /\ e.at = at
  BY DEF EventOf
<1>2. /\ Top.depth \in Nat \ {0} /\ frames[Executing(frames)].unit \in Files
  <2>1. Len(frames) \in 1..Len(frames) /\ Executing(frames) \in 1..Len(frames)
    BY ExecutingIs DEF Framed
  <2>2. \A i \in 1..Len(frames) : frames[i] \in FrameSet
    BY FrameFacts
  <2> QED BY <2>1, <2>2 DEF FrameSet, Top
<1>3. at \in SUBSET Nodes
  BY EnclosingNodes
<1>4. e \in Event
  <2> HIDE DEF at
  <2>1. e = [cmd |-> cmd, depth |-> Top.depth, file |-> frames[Executing(frames)].unit,
             at |-> at, node |-> node, name |-> name, ref |-> ref, proc |-> proc, params |-> params]
    BY DEF EventOf, at
  <2> HIDE DEF e
  <2> QED BY <1>2, <1>3, <2>1 DEF Event
<1>5. Event2(e)
  BY <1>1, <1>4 DEF Event2
<1>6. node = None \/ node \notin left => Fits(e)
  BY <1>1 DEF Fits
<1> QED BY <1>1, <1>5, <1>6 DEF Emitted

-----------------------------------------------------------------------------
(* Reading.                                                                *)

LEMMA VagueIs ==
    ASSUME NEW fs, Framed(fs), NEW x
    PROVE  Vague(fs, Len(fs), x) <=> Approximated(fs, x)
<1>1. Len(fs) \in Nat /\ DOMAIN fs = 1..Len(fs)
  BY LenProperties DEF Framed
<1>2. \A r \in 1..Len(fs) : (\A j \in 1..Len(fs) : j > r => ~Wrote(fs, j, x)) <=> Reaches(fs, r, x)
  <2> TAKE r \in 1..Len(fs)
  <2>1. \A j : j \in (r + 1)..Len(fs) <=> j \in 1..Len(fs) /\ j > r
    BY <1>1
  <2> QED BY <2>1 DEF Reaches
<1> QED BY <1>1, <1>2 DEF Vague, Approximated

LEMMA OnStackOnce ==
    ASSUME NEW st \in Seq(Scope), NEW x, NEW v, NEW w, OnStack(st, x, v), OnStack(st, x, w)
    PROVE  v = w
<1>1. Len(st) \in Nat
  BY LenProperties
<1>2. CASE \A i \in 1..Len(st) : ~Holds(st[i], x)
  BY <1>2 DEF OnStack
<1>3. CASE \E i \in 1..Len(st) : Holds(st[i], x)
  <2>1. PICK i \in 1..Len(st) : /\ Holds(st[i], x) /\ v = Held(st[i], x)
                                /\ \A j \in 1..Len(st) : j > i => ~Holds(st[j], x)
    BY <1>3 DEF OnStack
  <2>2. PICK k \in 1..Len(st) : /\ Holds(st[k], x) /\ w = Held(st[k], x)
                                /\ \A j \in 1..Len(st) : j > k => ~Holds(st[j], x)
    BY <1>3 DEF OnStack
  <2>3. i = k
    BY <1>1, <2>1, <2>2
  <2> QED BY <2>1, <2>2, <2>3
<1> QED BY <1>2, <1>3

\* Outside of a try_compile, where nothing approximates and no macro argument
\* is misread, the scopes give what CMake does.
LEMMA StackReads ==
    ASSUME NEW st \in Seq(Scope), NEW fs, Len(st) = Len(fs), Framed(fs), Pairs(st, fs),
           Data(st, fs), ~InTry(fs)
    PROVE  \A x \in Names : ~Approximated(fs, x) /\ ~MacroArgMisread(fs, x) =>
              LET here == fs[Executing(fs)].par[x]
                  var  == Normal(fs, Len(fs), x)
              IN  /\ OnStack(st, x, IF here # 0 THEN here ELSE var)
                  /\ (\E i \in 1..Len(st) : Holds(st[i], x)) <=> here # 0 \/ var # 0
<1> TAKE x \in Names
<1> SUFFICES ASSUME ~Approximated(fs, x), ~MacroArgMisread(fs, x)
             PROVE  LET here == fs[Executing(fs)].par[x]
                        var  == Normal(fs, Len(fs), x)
                    IN  /\ OnStack(st, x, IF here # 0 THEN here ELSE var)
                        /\ (\E i \in 1..Len(st) : Holds(st[i], x)) <=> here # 0 \/ var # 0
  OBVIOUS
<1> DEFINE n    == Len(fs)
           ex   == Executing(fs)
           here == fs[ex].par[x]
           var  == Normal(fs, n, x)
<1>n. n \in Nat \ {0} /\ Len(st) = n /\ DOMAIN fs = 1..n
  BY LenProperties DEF Framed
<1>e. ex \in 1..n /\ \A j \in 1..n : j > ex => fs[j].kind = "block"
  BY ExecutingIs
<1>p. \A i \in 1..n : /\ st[i].params = fs[i].par /\ (st[i].transparent <=> ~Opaque(fs[i]))
                      /\ fs[i].par[x] \in Nat
  BY FrameFacts DEF Pairs, Pair
<1>h. \A i \in 1..n : Holds(st[i], x) <=> fs[i].par[x] # 0 \/ Binds(st, i, x)
  BY <1>p DEF Holds, Binds, NoRow
<1>b. \A j \in 1..n : j > ex => fs[j].par[x] = 0
  <2> TAKE j \in 1..n
  <2> HAVE j > ex
  <2>1. fs[j].par = NoTab
    BY <1>e DEF Framed
  <2> QED BY <2>1 DEF NoTab, Inherit
<1>v. ~Vague(fs, n, x)
  BY VagueIs
<1>o. \A i \in 1..n : OutOfTry(fs, i)
  BY <1>n DEF OutOfTry, InTry
<1>d. \A i \in 1..n : DataAt(st, fs, i, x)
  BY DEF Data
<1>w. \A i \in 1..n : Wrote(fs, i, x) => Binds(st, i, x)
  BY <1>d, <1>o, <1>p DEF DataAt, Wrote, Binds
<1> HIDE DEF here, var, ex, n
<1>1. CASE here # 0
  <2>1. Reaches(fs, ex, x)
    BY <1>1, <1>e, <1>n DEF MacroArgMisread, ex, here
  <2>2. \A j \in 1..n : j > ex => ~Wrote(fs, j, x)
    BY <1>e, <1>n, <2>1 DEF Reaches, n
  <2>3. ASSUME NEW j \in 1..n, j > ex PROVE ~Binds(st, j, x)
    <3> SUFFICES ASSUME Binds(st, j, x) PROVE FALSE
      OBVIOUS
    <3>1. Opaque(fs[j]) /\ st[j].vars[x] # NoRow /\ fs[j].tab[x] = st[j].vars[x]
      BY <1>d, <1>o, <1>p DEF Binds, DataAt
    <3>2. fs[j].tab[x] > 0
      <4>1. st[j] \in Scope
        BY <1>n
      <4>2. st[j].vars[x] \in Nat
        BY <4>1 DEF Scope
      <4> QED BY <3>1, <4>2 DEF NoRow
    <3>3. x \in fs[j].copied
      BY <2>2, <2>3, <3>1, <3>2 DEF Wrote
    <3>4. x \in fs[j].raised
      BY <1>d, <1>e, <1>o, <2>3, <3>1, <3>3 DEF DataAt
    <3>5. \A k \in 1..n : k > j => ~Wrote(fs, k, x)
      BY <1>e, <1>n, <2>2, <2>3
    <3> QED BY <1>v, <1>n, <3>4, <3>5 DEF Vague
  <2>4. Holds(st[ex], x) /\ Held(st[ex], x) = here /\ \A j \in 1..n : j > ex => ~Holds(st[j], x)
    BY <1>1, <1>b, <1>e, <1>h, <1>p, <2>3 DEF Held, NoRow, here
  <2>5. OnStack(st, x, here)
    BY <1>n, <1>e, <2>4 DEF OnStack
  <2> QED BY <1>1, <1>e, <1>n, <2>4, <2>5 DEF here, var, ex, n
<1>2. CASE here = 0
  <2>1. \A i \in 1..n : fs[i].par[x] # 0 => \E j \in 1..n : j > i /\ Binds(st, j, x)
    <3> SUFFICES ASSUME NEW i \in 1..n, fs[i].par[x] # 0 PROVE \E j \in 1..n : j > i /\ Binds(st, j, x)
      OBVIOUS
    <3>1. i # ex /\ i \in Nat /\ ex \in Nat /\ ~(i > ex)
      BY <1>2, <1>b, <1>e, <1>n DEF here
    <3>2. i < ex
      BY <3>1
    <3>3. ~Reaches(fs, i, x)
      BY <1>n, <3>1, <3>2 DEF MacroArgMisread, ex
    <3>4. PICK j \in (i + 1)..n : Wrote(fs, j, x)
      BY <3>3 DEF Reaches, n
    <3>5. j \in 1..n /\ j > i
      BY <1>n, <3>1
    <3> QED BY <1>w, <3>4, <3>5
  <2>2. Holding(st, n, x, var)
    BY <1>v, NormalHeld DEF n, var
  <2>3. CASE /\ var = NoRow
             /\ \A i \in 1..n : ~Binds(st, i, x)
    <3>1. \A i \in 1..n : ~Holds(st[i], x)
      BY <1>h, <2>1, <2>3
    <3>2. OnStack(st, x, var)
      BY <1>n, <2>3, <3>1 DEF OnStack
    <3> QED BY <1>2, <1>n, <2>3, <3>1, <3>2 DEF NoRow, here, var, ex, n
  <2>4. ASSUME NEW i \in 1..n, Binds(st, i, x), var = st[i].vars[x],
               \A j \in 1..n : j > i => ~Binds(st, j, x)
        PROVE  /\ OnStack(st, x, var) /\ var # 0
               /\ \E k \in 1..n : Holds(st[k], x)
    <3>1. fs[i].par[x] = 0
      BY <2>1, <2>4
    <3>2. \A j \in 1..n : j > i => fs[j].par[x] = 0
      <4> SUFFICES ASSUME NEW j \in 1..n, j > i, fs[j].par[x] # 0 PROVE FALSE
        OBVIOUS
      <4>1. PICK k \in 1..n : k > j /\ Binds(st, k, x)
        BY <2>1
      <4>2. k > i
        BY <1>n, <4>1
      <4> QED BY <2>4, <4>1, <4>2
    <3>3. \A j \in 1..n : j > i => ~Holds(st[j], x)
      BY <1>h, <2>4, <3>2
    <3>4. Holds(st[i], x) /\ Held(st[i], x) = var
      BY <1>h, <1>p, <2>4, <3>1 DEF Held, NoRow
    <3>5. OnStack(st, x, var)
      BY <1>n, <3>3, <3>4 DEF OnStack
    <3> QED BY <2>4, <3>4, <3>5 DEF Binds, NoRow
  <2>5. CASE \E i \in 1..n : /\ Binds(st, i, x) /\ var = st[i].vars[x]
                             /\ \A j \in 1..n : j > i => ~Binds(st, j, x)
    <3>1. OnStack(st, x, var) /\ var # 0 /\ \E k \in 1..n : Holds(st[k], x)
      BY <2>4, <2>5
    <3> QED BY <1>2, <1>n, <3>1 DEF here, var, ex, n
  <2> QED BY <2>2, <2>3, <2>5 DEF Holding
<1> QED BY <1>1, <1>2 DEF here

\* So a read resolves to what CMake reads, from the same cache.
LEMMA ReadAgrees ==
    ASSUME NEW st \in Seq(Scope), NEW fs, Len(st) = Len(fs), Framed(fs), Pairs(st, fs),
           Data(st, fs), ~InTry(fs)
    PROVE  \A x \in Names : ~Approximated(fs, x) /\ ~MacroArgMisread(fs, x) =>
              \A c, w : Resolves(st, c, x, w) => w = Reads(fs, c, x)
<1> SUFFICES ASSUME NEW x \in Names, ~Approximated(fs, x), ~MacroArgMisread(fs, x),
                    NEW c, NEW w, Resolves(st, c, x, w)
             PROVE  w = Reads(fs, c, x)
  OBVIOUS
<1> DEFINE here == fs[Executing(fs)].par[x]
           var  == Normal(fs, Len(fs), x)
<1>1. /\ OnStack(st, x, IF here # 0 THEN here ELSE var)
      /\ (\E i \in 1..Len(st) : Holds(st[i], x)) <=> here # 0 \/ var # 0
  BY StackReads
<1>2. Reads(fs, c, x) = IF here # 0 THEN here ELSE IF var # 0 THEN var ELSE c[x]
  BY DEF Reads
<1> HIDE DEF here, var
<1>3. CASE here # 0 \/ var # 0
  <2>1. OnStack(st, x, w)
    BY <1>1, <1>3 DEF Resolves
  <2>2. w = IF here # 0 THEN here ELSE var
    BY <1>1, <2>1, OnStackOnce
  <2> QED BY <1>2, <1>3, <2>2
<1>4. CASE ~(here # 0 \/ var # 0)
  BY <1>1, <1>2, <1>4 DEF Resolves
<1> QED BY <1>3, <1>4

-----------------------------------------------------------------------------
(* A traced command: what the replay does, whatever the command does.      *)

\* What Traced(e) dumps for the replay to compare.
Dumped(e) == IF e.cmd = "snapshot" THEN [x \in Names |-> Normal(frames, Len(frames), x)] ELSE Empty

LEMMA TracedReads ==
    ASSUME Irregular = {}, DisciplineInv, ContainInv, Mirrors, NEW e, Event2(e), Fits(e), Traced(e)
    PROVE  ReadsResolve'
<1> DEFINE x  == e.ref
           sc == SeededCache(1)
<1>s. TypeOK /\ Structure /\ Data(Due, frames) /\ Typed /\ envVars = env /\ Framed(frames)
      /\ Pairs(Due, frames)
  BY DEF DisciplineInv, Mirrors, Structure
<1>d. Due \in Seq(Scope) /\ Len(Due) = Len(frames)
  BY <1>s, DueIs
<1>r. Replay(e, Dumped(e))
  BY DEF Traced, Dumped
<1>t. /\ x # None => ~MacroArgMisread(frames, x)
      /\ truth' = IF x = None \/ ~Joined(e) THEN NoTruth
                  ELSE [name |-> x, var |-> Reads(frames, sc, x), env |-> env[x],
                        covered |-> InTry(frames) \/ Approximated(frames, x)]
  BY DEF Traced
<1>1. PICK c2 \in [Names -> Nat], k \in Nat :
         /\ \A y \in Names : Entry(y, c2[y], sc[y], cleared, writes')
         /\ RecordReads(e, Due, c2, k)
  BY <1>r, EventCaches
<1> SUFFICES ASSUME truth'.name # None
             PROVE  /\ lastRead'.name = truth'.name
                    /\ lastRead'.env = truth'.env
                    /\ ~truth'.covered =>
                          \/ lastRead'.var = truth'.var
                          \/ truth'.var = NoRow /\ writes'[lastRead'.var].cmd = "unset_cache"
  BY DEF ReadsResolve
<1>2. x # None /\ Joined(e)
  BY <1>t DEF NoTruth
<1>3. x \in Names
  BY <1>2 DEF Event2, Event
<1>4. /\ truth'.name = x /\ truth'.var = Reads(frames, sc, x) /\ truth'.env = env[x]
      /\ truth'.covered <=> InTry(frames) \/ Approximated(frames, x)
  BY <1>t, <1>2
<1>5. PICK w \in 0..k : /\ Resolves(Due, c2, x, w)
                        /\ lastRead' = [name |-> x, var |-> w, env |-> envVars[x]]
  BY <1>1, <1>2 DEF RecordReads
<1>6. lastRead'.name = x /\ lastRead'.var = w /\ lastRead'.env = env[x]
  BY <1>5, <1>s
<1> HIDE DEF x, sc
<1>7. ASSUME ~truth'.covered
      PROVE  \/ w = Reads(frames, sc, x)
             \/ Reads(frames, sc, x) = NoRow /\ writes'[w].cmd = "unset_cache"
  <2>1. ~InTry(frames) /\ ~Approximated(frames, x) /\ ~MacroArgMisread(frames, x)
    BY <1>2, <1>4, <1>7, <1>t
  <2>2. w = Reads(frames, c2, x)
    BY <1>s, <1>d, <1>3, <1>5, <2>1, ReadAgrees
  <2>3. \/ Reads(frames, c2, x) = Reads(frames, sc, x)
        \/ Reads(frames, c2, x) = c2[x] /\ Reads(frames, sc, x) = sc[x]
    <3> DEFINE here == frames[Executing(frames)].par[x]
               var  == Normal(frames, Len(frames), x)
    <3>1. \A c : Reads(frames, c, x) = IF here # 0 THEN here ELSE IF var # 0 THEN var ELSE c[x]
      BY DEF Reads
    <3> HIDE DEF here, var
    <3> QED BY <3>1
  <2>4. Entry(x, c2[x], sc[x], cleared, writes')
    BY <1>1, <1>3
  <2>5. CASE Reads(frames, c2, x) = Reads(frames, sc, x)
    BY <2>2, <2>5
  <2>6. CASE Reads(frames, c2, x) = c2[x] /\ Reads(frames, sc, x) = sc[x]
    BY <2>2, <2>4, <2>6 DEF Entry
  <2> QED BY <2>3, <2>5, <2>6
<1> QED BY <1>4, <1>6, <1>7

LEMMA TracedDump ==
    ASSUME DisciplineInv, ContainInv, Mirrors, NEW e, Event2(e), Fits(e), Traced(e),
           e.cmd = "snapshot" => /\ Top.kind \notin {"block", "macro"} /\ ~InTry(frames)
                                 /\ \A x \in Names : ~MacroArgMisread(frames, x)
    PROVE  \A x \in mismatches' \ mismatches : Approximated(frames, x)
<1>s. TypeOK /\ Structure /\ Data(Due, frames) /\ Framed(frames) /\ Pairs(Due, frames)
  BY DEF DisciplineInv, Mirrors, Structure
<1>d. Due \in Seq(Scope) /\ Len(Due) = Len(frames)
  BY <1>s, DueIs
<1>r. Replay(e, Dumped(e))
  BY DEF Traced, Dumped
<1>1. mismatches' \in {mismatches, mismatches \cup SnapshotMismatches(Due, Dumped(e))}
  BY <1>r, EventCaches
<1> SUFFICES ASSUME NEW x \in mismatches' \ mismatches, ~Approximated(frames, x) PROVE FALSE
  OBVIOUS
<1>2. x \in Names /\ Dumped(e)[x] # NoRow /\ ~OnStack(Due, x, Dumped(e)[x])
  BY <1>1 DEF SnapshotMismatches
<1>3. e.cmd = "snapshot" /\ Dumped(e)[x] = Normal(frames, Len(frames), x)
  BY <1>2 DEF Dumped, Empty
<1>4. frames[Executing(frames)].par[x] = 0
  <2>1. /\ Executing(frames) \in 1..Len(frames) /\ Len(frames) \in 1..Len(frames)
        /\ \A j \in 1..Len(frames) : j > Executing(frames) => frames[j].kind = "block"
    BY <1>s, ExecutingIs DEF Framed
  <2>2. Executing(frames) = Len(frames)
    BY <1>3, <2>1 DEF Top
  <2>3. frames[Len(frames)].par = NoTab
    BY <1>3, <1>s, <2>1 DEF Framed, Top
  <2> QED BY <1>2, <2>2, <2>3 DEF NoTab, Inherit
<1>5. OnStack(Due, x, Normal(frames, Len(frames), x))
  BY <1>s, <1>d, <1>2, <1>3, <1>4, StackReads
<1> QED BY <1>2, <1>3, <1>5

\* A PARENT_SCOPE write that is not at the top of its world goes to a scope of
\* that world.
LEMMA TracedRaises ==
    ASSUME DisciplineInv, ContainInv, Structure, NEW e, Event2(e), Fits(e),
           NEW dump, Replay(e, dump), e.cmd = "parent_scope" => ~AtTop(frames)
    PROVE  RaisesWithin
<1>t. TypeOK /\ TreeInv /\ Dated(writes, nEvents) /\ outcome = "running" /\ writes \in Seq(WriteRow)
      /\ Framed(frames) /\ Pairs(Due, frames)
  BY DEF DisciplineInv, ContainInv, Replay, TypeOK, Structure
<1>d. Due \in Seq(Scope) /\ Len(Due) = Len(frames)
  BY <1>t, DueIs
<1>n. PICK n, st1, sc1, sc2, ws2, c2, cmd, st3 :
         /\ Stages(e, n, st1, sc1, Due, sc2, ws2, c2, cmd, st3)
         /\ Results(e, dump, Due, sc2, ws2, c2, cmd, st3)
  BY EventConsumed
<1> SUFFICES ASSUME Len(writes') > Len(writes), writes'[Len(writes')].cmd = "parent_scope",
                    NEW i \in 1..Len(stack'), stack'[i].kind = "try_compile"
             PROVE  writes'[Len(writes')].scope >= stack'[i].id
  BY DEF RaisesWithin
<1>1. IsWrite(e)
  <2> SUFFICES ASSUME ~IsWrite(e) PROVE FALSE
    OBVIOUS
  <2> DEFINE ws == Synthesized(e, Len(sc1) + 1)
  <2>1. writes' = SeededRows(ws)
    BY <1>n DEF Results, Stages
  <2>2. ws = writes \/ \E r : ws = Append(writes, r) /\ r.cmd = "synthetic" /\ r \in WriteRow
    <3> SUFFICES ASSUME Synthesizes(e)
                 PROVE  \E r : ws = Append(writes, r) /\ r.cmd = "synthetic" /\ r \in WriteRow
      BY DEF Synthesized
    <3> DEFINE r == [names |-> pending.params, scope |-> Len(sc1) + 1, cmd |-> "synthetic",
                     event |-> pending.openedBy]
    <3>1. ws = Append(writes, r) /\ r.cmd = "synthetic"
      BY DEF Synthesized
    <3>2. pending \in Pending
      BY <1>t DEF Synthesizes, Opens, TypeOK
    <3>3. Len(sc1) \in Nat
      BY <1>n, <1>t, StageTypes
    <3>4. r \in WriteRow
      BY <3>2, <3>3 DEF Pending, WriteRow
    <3> QED BY <3>1, <3>4
  <2>3. ws \in Seq(WriteRow) /\ Len(ws) \in Nat /\ (ws = writes \/ ws[Len(ws)].cmd = "synthetic")
    <3>1. CASE ws = writes
      BY <3>1, <1>t, LenProperties
    <3>2. ASSUME NEW r \in WriteRow, ws = Append(writes, r), r.cmd = "synthetic"
          PROVE  ws \in Seq(WriteRow) /\ Len(ws) \in Nat /\ ws[Len(ws)].cmd = "synthetic"
      <4>1. /\ Append(writes, r) \in Seq(WriteRow)
            /\ Len(Append(writes, r)) = Len(writes) + 1 /\ Append(writes, r)[Len(writes) + 1] = r
            /\ Len(writes) \in Nat
        BY <1>t, AppendProperties, LenProperties
      <4> HIDE DEF ws
      <4> QED BY <3>2, <4>1
    <3> QED BY <2>2, <3>1, <3>2
  <2> HIDE DEF ws
  <2>4. CASE Seeds = {}
    <3>1. writes' = ws
      BY <2>1, <2>4 DEF SeededRows
    <3> QED BY <1>t, <2>3, <3>1, LenProperties
  <2>5. CASE Seeds # {}
    <3> DEFINE r == [names |-> Seeds, scope |-> NoRow, cmd |-> "cache", event |-> nEvents + 1]
    <3>1. writes' = Append(ws, r) /\ r.cmd = "cache"
      BY <2>1, <2>5 DEF SeededRows
    <3>2. Len(Append(ws, r)) = Len(ws) + 1 /\ Append(ws, r)[Len(ws) + 1] = r
      BY <2>3
    <3> HIDE DEF r
    <3> QED BY <3>1, <3>2
  <2> QED BY <2>4, <2>5
<1>2. cmd = "parent_scope" /\ RecordScope(Due, cmd, writes'[Len(writes')].scope)
  BY <1>1, <1>n, <1>t, WritesGrow
<1>3. cmd = EffectiveCmd(Due, e.cmd)
  BY <1>n DEF Stages
<1>4. e.cmd = "parent_scope"
  BY <1>2, <1>3 DEF EffectiveCmd
<1>5. ~AtTop(frames)
  BY <1>4
<1> DEFINE a == Above(frames)
<1>6. a \in WorldStart(frames)..(Own(frames) - 1) /\ WorldStart(frames) \in 1..Len(frames)
      /\ Own(frames) \in 1..Len(frames)
      /\ \A j \in 1..Len(frames) : j > WorldStart(frames) => frames[j].kind # "try_compile"
  BY <1>5, <1>t, AboveIs, WorldStartIs, OwnIs
<1> HIDE DEF a
<1>f. Len(frames) \in Nat
  BY <1>t DEF Framed
<1>7. a \in 1..Len(frames) /\ \A j \in 1..Len(frames) : Target(Due, "parent_scope", j) <=> j = a
  BY <1>5, <1>6, <1>d, <1>f, <1>t, TargetIs DEF a
<1>8. writes'[Len(writes')].scope = Due[a].id
  BY <1>2, <1>7, <1>d DEF RecordScope
<1>9. stack' = st3 /\ st3 = Written(Due, cmd, e.name, Len(ws2) + 1)
  BY <1>1, <1>4, <1>n DEF Results, Stages
<1>10. Len(stack') = Len(Due) /\ stack'[i].id = Due[i].id /\ stack'[i].kind = Due[i].kind
  <2>1. e.name \in Names /\ Len(ws2) + 1 \in Nat
    BY <1>1, <1>n, <1>t, StageTypes DEF IsWrite, Event2, Event
  <2> QED BY <1>9, <1>d, <2>1, WrittenShape
<1>11. i \in 1..Len(frames) /\ frames[i].kind = "try_compile"
  BY <1>10, <1>d, <1>t DEF Pairs, Pair
<1>12. i <= a
  BY <1>6, <1>11, <1>f
<1>13. Tree(Due, sc2, nEvents) /\ Len(sc2) \in Nat
  BY <1>n, <1>t, TreeReplay, StageTypes
<1>14. Due[i].id \in Nat /\ Due[a].id \in Nat /\ (i < a => Due[i].id < Due[a].id)
  <2>1. i \in 1..Len(Due) /\ a \in 1..Len(Due)
    BY <1>7, <1>11, <1>d
  <2>2. Due[i] \in Scope /\ Due[a] \in Scope
    BY <1>d, <2>1, ElementOfSeq
  <2>3. \A j, k \in 1..Len(Due) : j < k => Due[j].id < Due[k].id
    BY <1>13 DEF Tree
  <2> QED BY <2>1, <2>2, <2>3 DEF Scope
<1> QED BY <1>7, <1>8, <1>10, <1>11, <1>12, <1>14, <1>f

-----------------------------------------------------------------------------
(* The replay mirrors CMake after every command.                           *)

\* What every traced command keeps.
LEMMA TracedKeeps ==
    ASSUME Irregular = {}, DisciplineInv, ContainInv, Mirrors, NEW e, Event2(e), Fits(e), Traced(e),
           e.cmd = "parent_scope" => ~AtTop(frames)
    PROVE  DisciplineInv' /\ ContainInv' /\ ReadsResolve'
<1>1. Replay(e, Dumped(e))
  BY DEF Traced, Dumped
<1>2. RaisesWithin
  BY <1>1, TracedRaises DEF Mirrors
<1> QED BY <1>1, <1>2, ReplayKeepsDiscipline, ContainReplay, TracedReads

LEMMA FramesAfterShape ==
    ASSUME NEW fs, Framed(fs), NEW cmd, cmd = "parent_scope" => ~AtTop(fs), NEW x \in Names,
           NEW w \in Nat \ {0}
    PROVE  LET gs == FramesAfter(fs, cmd, x, w)
           IN  /\ Framed(gs) /\ Len(gs) = Len(fs)
               /\ \A i \in 1..Len(fs) : SameFrame(gs[i], fs[i])
<1>1. CASE cmd = "set"
  BY <1>1, SetEffect
<1>2. CASE cmd = "unset"
  BY <1>2, UnsetEffect
<1>3. CASE cmd = "parent_scope"
  BY <1>3, RaiseEffect
<1>4. CASE cmd \notin {"set", "unset", "parent_scope"}
  BY <1>4, OtherEffect DEF SameFrame
<1> QED BY <1>1, <1>2, <1>3, <1>4

\* A write changes the table of the scope as CMake changes that of the frame.
LEMMA WriteKeepsData ==
    ASSUME NEW st \in Seq(Scope), NEW fs, Len(st) = Len(fs), Framed(fs), Pairs(st, fs),
           Data(st, fs), InTryCompile(st) <=> InTry(fs), NEW cmd,
           NEW x \in Names, NEW w \in Nat \ {0},
           cmd = "unset" => ~HidesOuter(fs, x), cmd = "parent_scope" => ~AtTop(fs)
    PROVE  Data(Written(st, EffectiveCmd(st, cmd), x, w), FramesAfter(fs, cmd, x, w))
<1>1. CASE cmd = "set"
  <2>1. EffectiveCmd(st, cmd) = "set"
    BY <1>1 DEF EffectiveCmd
  <2> QED BY <1>1, <2>1, SetKeepsData
<1>2. CASE cmd = "unset"
  <2>1. EffectiveCmd(st, cmd) = "unset"
    BY <1>2 DEF EffectiveCmd
  <2> QED BY <1>2, <2>1, UnsetKeepsData
<1>3. CASE cmd = "parent_scope"
  <2>1. EffectiveCmd(st, cmd) = "parent_scope"
    BY <1>3 DEF EffectiveCmd
  <2> QED BY <1>3, <2>1, RaiseKeepsData
<1>4. CASE cmd \notin {"set", "unset", "parent_scope"}
  <2>1. FramesAfter(fs, cmd, x, w) = fs
    BY <1>4, OtherEffect
  <2>2. CASE InTry(fs) /\ cmd \in {"cache", "cache_soft", "unset_cache"}
    <3>1. EffectiveCmd(st, cmd) = "set"
      BY <2>2 DEF EffectiveCmd
    <3> QED BY <2>1, <2>2, <3>1, ContainedKeepsData
  <2>3. CASE ~(InTry(fs) /\ cmd \in {"cache", "cache_soft", "unset_cache"})
    <3>1. EffectiveCmd(st, cmd) = cmd
      BY <2>3 DEF EffectiveCmd
    <3> QED BY <1>4, <2>1, <3>1, UnwrittenKeepsData
  <2> QED BY <2>2, <2>3
<1> QED BY <1>1, <1>2, <1>3, <1>4

Kept == DisciplineInv' /\ ContainInv' /\ Mirrors' /\ ReadsResolve'

NoAlarm == \A x \in mismatches' \ mismatches : Approximated(frames, x)

LEMMA WriteKept ==
    ASSUME Irregular = {}, DisciplineInv, ContainInv, Mirrors,
           NEW cmd \in WriteCmds, NEW x \in Names, NEW ref \in Names \cup {None}, Write(cmd, x, ref)
    PROVE  Kept /\ NoAlarm
<1>s. TypeOK /\ Structure /\ Data(Due, frames) /\ Framed(frames) /\ Pairs(Due, frames)
  BY DEF DisciplineInv, Mirrors, Structure
<1>d. Due \in Seq(Scope) /\ Len(Due) = Len(frames) /\ (InTryCompile(Due) <=> InTry(frames))
  BY <1>s, DueIs, SameTry
<1>e. PICK e : e = EventOf(cmd, None, x, ref, None, {})
  OBVIOUS
<1>1. /\ e.cmd = cmd /\ e.name = x /\ Event2(e) /\ Fits(e)
  <2>1. cmd \in BuiltinCmds /\ cmd # "block"
    BY DEF BuiltinCmds, WriteCmds
  <2>2. /\ {} \in SUBSET Names /\ None \in Nodes \cup {None} /\ None \in Procs \cup {None}
        /\ x \in Names \cup {None} /\ cmd \in BuiltinCmds \cup Procs
    BY <2>1
  <2>3. Emitted(e, cmd, None, x, ref, None, {})
    BY <1>e, <1>s, <2>1, <2>2, EventOfIs
  <2> QED BY <2>3 DEF Emitted
<1>2. Traced(e)
  BY <1>e DEF Write
<1>3. /\ cmd = "unset" => ~HidesOuter(frames, x)
      /\ cmd = "parent_scope" => ~AtTop(frames)
      /\ cmd = "cache_soft" => InTry(frames) \/ x \notin cleared
      /\ frames' = FramesAfter(frames, cmd, x, Len(writes'))
      /\ cache' = CacheAfter(frames, SeededCache(1), cmd, x, Len(writes'))
      /\ env' = EnvAfter(frames, env, cmd, x, Len(writes'))
      /\ cleared' = ClearedAfter(frames, cleared, cmd, x)
  BY DEF Write
<1>4. IsWrite(e) /\ e.cmd # "block" /\ e.cmd # "snapshot"
  BY <1>1, ReplayAssumption DEF IsWrite, ReplayAssumption, WriteCmds
<1>5. Replay(e, Dumped(e))
  BY <1>2 DEF Traced, Dumped
<1>6. PICK w \in Nat \ {0} : w = Len(writes') /\ stack' = Written(Due, EffectiveCmd(Due, cmd), x, w)
  BY <1>1, <1>4, <1>5, <1>s, StackAfter
<1>7. /\ Framed(frames') /\ Len(frames') = Len(frames)
      /\ \A i \in 1..Len(frames) : SameFrame(frames'[i], frames[i])
  BY <1>3, <1>6, <1>s, FramesAfterShape
<1>8. Structure' /\ Due' = stack'
  BY <1>1, <1>4, <1>5, <1>7, <1>s, PlainKeepsStructure
<1>9. Data(Due', frames')
  BY <1>3, <1>6, <1>8, <1>d, <1>s, WriteKeepsData
<1>10. Typed' /\ CacheAgrees' /\ envVars' = env' /\ Fresh'
  BY <1>1, <1>3, <1>4, <1>5, WriteKeepsCaches
<1>11. DisciplineInv' /\ ContainInv' /\ ReadsResolve'
  BY <1>1, <1>2, <1>3, TracedKeeps
<1>12. NoAlarm
  BY <1>1, <1>2, <1>4, TracedDump DEF NoAlarm
<1> QED BY <1>8, <1>9, <1>10, <1>11, <1>12 DEF Mirrors, Kept

\* A command that only reads, defines or dumps.
LEMMA QuietKept ==
    ASSUME Irregular = {}, DisciplineInv, ContainInv, Mirrors, NEW e, Event2(e), Fits(e), Traced(e),
           ~IsWrite(e), e.cmd \notin {"block", "parent_scope"}, UNCHANGED frames, Quiet
    PROVE  Kept
<1>s. TypeOK /\ Structure /\ Data(Due, frames) /\ Framed(frames)
  BY DEF DisciplineInv, Mirrors, Structure
<1>1. Replay(e, Dumped(e))
  BY DEF Traced, Dumped
<1>2. Structure' /\ Due' = stack'
  BY <1>1, <1>s, PlainKeepsStructure DEF SameFrame
<1>3. stack' = Due
  BY <1>1, <1>s, StackAfter
<1>4. Data(Due', frames')
  BY <1>2, <1>3, <1>s
<1>5. Typed' /\ CacheAgrees' /\ envVars' = env' /\ Fresh'
  BY <1>1, QuietKeepsCaches DEF Quiet
<1>6. DisciplineInv' /\ ContainInv' /\ ReadsResolve'
  BY TracedKeeps
<1> QED BY <1>2, <1>4, <1>5, <1>6 DEF Mirrors, Kept

LEMMA ReadKept ==
    ASSUME Irregular = {}, DisciplineInv, ContainInv, Mirrors,
           NEW ref \in Names \cup {None}, Read(ref)
    PROVE  Kept /\ NoAlarm
<1>s. Framed(frames)
  BY DEF Mirrors, Structure
<1>e. PICK e : e = EventOf("other", None, None, ref, None, {})
  OBVIOUS
<1>1. e.cmd = "other" /\ Event2(e) /\ Fits(e)
  <2>1. /\ {} \in SUBSET Names /\ None \in Nodes \cup {None} /\ None \in Procs \cup {None}
        /\ None \in Names \cup {None} /\ "other" \in BuiltinCmds \cup Procs
    BY DEF BuiltinCmds
  <2>2. Emitted(e, "other", None, None, ref, None, {})
    BY <1>e, <1>s, <2>1, EventOfIs
  <2> QED BY <2>2 DEF Emitted
<1>2. Traced(e) /\ UNCHANGED frames /\ Quiet
  BY <1>e DEF Read
<1>3. ~IsWrite(e)
  BY <1>1 DEF IsWrite, WriteCmds
<1>4. Kept
  BY <1>1, <1>2, <1>3, QuietKept
<1> QED BY <1>1, <1>2, <1>4, TracedDump DEF NoAlarm

LEMMA DefineKept ==
    ASSUME Irregular = {}, DisciplineInv, ContainInv, Mirrors,
           NEW p \in Procs, NEW d \in Def, Define(p, d)
    PROVE  Kept /\ NoAlarm
<1>s. Framed(frames)
  BY DEF Mirrors, Structure
<1>e. PICK e : e = EventOf(d.kind, None, None, None, p, d.params)
  OBVIOUS
<1>0. d.kind \in {"function", "macro"} /\ d.params \in SUBSET Names
  BY DEF Def
<1>1. e.cmd = d.kind /\ Event2(e) /\ Fits(e)
  <2>1. d.kind \in BuiltinCmds /\ d.kind # "block"
    BY <1>0 DEF BuiltinCmds
  <2>2. /\ None \in Nodes \cup {None} /\ None \in Names \cup {None} /\ p \in Procs \cup {None}
        /\ d.kind \in BuiltinCmds \cup Procs
    BY <2>1
  <2>3. Emitted(e, d.kind, None, None, None, p, d.params)
    BY <1>e, <1>s, <1>0, <2>1, <2>2, EventOfIs
  <2> QED BY <2>3 DEF Emitted
<1>2. Traced(e) /\ UNCHANGED frames /\ Quiet
  BY <1>e DEF Define
<1>3. ~IsWrite(e) /\ e.cmd \notin {"block", "parent_scope", "snapshot"}
  BY <1>0, <1>1 DEF IsWrite, WriteCmds
<1>4. Kept
  BY <1>1, <1>2, <1>3, QuietKept
<1> QED BY <1>1, <1>2, <1>3, <1>4, TracedDump DEF NoAlarm

LEMMA DumpKept ==
    ASSUME Irregular = {}, DisciplineInv, ContainInv, Mirrors, Dump
    PROVE  Kept /\ NoAlarm
<1>s. Framed(frames)
  BY DEF Mirrors, Structure
<1>e. PICK e : e = EventOf("snapshot", None, None, None, None, {})
  OBVIOUS
<1>1. e.cmd = "snapshot" /\ Event2(e) /\ Fits(e)
  <2>1. /\ {} \in SUBSET Names /\ None \in Nodes \cup {None} /\ None \in Procs \cup {None}
        /\ None \in Names \cup {None} /\ "snapshot" \in BuiltinCmds \cup Procs
    BY DEF BuiltinCmds
  <2>2. Emitted(e, "snapshot", None, None, None, None, {})
    BY <1>e, <1>s, <2>1, EventOfIs
  <2> QED BY <2>2 DEF Emitted
<1>2. Traced(e) /\ UNCHANGED frames /\ Quiet
  BY <1>e DEF Dump
<1>3. ~IsWrite(e)
  BY <1>1 DEF IsWrite, WriteCmds
<1>4. Kept
  BY <1>1, <1>2, <1>3, QuietKept
<1>5. /\ Top.kind \notin {"block", "macro"} /\ ~InTry(frames)
      /\ \A x \in Names : ~MacroArgMisread(frames, x)
  BY DEF Dump
<1> QED BY <1>1, <1>2, <1>4, <1>5, TracedDump DEF NoAlarm

\* A command that pushes the frame the pending scope is for.
LEMMA PushKept ==
    ASSUME Irregular = {}, DisciplineInv, ContainInv, Mirrors, NEW e, Event2(e), Fits(e), Traced(e),
           ~IsWrite(e), e.cmd \notin {"block", "parent_scope"},
           NEW f \in FrameSet, frames' = Append(frames, f), Quiet,
           f.kind \in {"function", "macro", "directory", "include", "try_compile"},
           f.kind = pending'.kind, f.depth = Top.depth + 1,
           LET args == [x \in Names |-> IF x \in pending'.params THEN Len(writes') + 1 ELSE NoRow]
           IN  /\ f.par = IF f.kind = "macro" THEN args ELSE NoTab
               /\ f.kind = "function" => f.tab = args /\ f.copied = {} /\ f.raised = {},
           f.kind = "directory" => f.tab = Closure(frames) /\ f.copied = Names
    PROVE  Kept
<1>s. TypeOK /\ Structure /\ Data(Due, frames) /\ Framed(frames) /\ Pairs(Due, frames)
  BY DEF DisciplineInv, Mirrors, Structure
<1>d. Due \in Seq(Scope) /\ Len(Due) = Len(frames)
  BY <1>s, DueIs
<1>1. Replay(e, Dumped(e))
  BY DEF Traced, Dumped
<1>2. Structure' /\ Due' = Append(Due, Called(pending', Len(scopes') + 1, Len(writes') + 1))
  BY <1>1, <1>s, PushKeepsStructure
<1>3. pending' \in Pending /\ Len(writes') \in Nat /\ Len(scopes') \in Nat
  BY <1>1, <1>s, StackAfter
<1> DEFINE n == Len(frames)
<1>4. PICK s, tt, gs, args :
         /\ s = Called(pending', Len(scopes') + 1, Len(writes') + 1) /\ tt = Due' /\ gs = frames'
         /\ args = [x \in Names |-> IF x \in pending'.params THEN Len(writes') + 1 ELSE NoRow]
  OBVIOUS
<1>5. /\ s \in Scope /\ s.kind = f.kind /\ s.transparent = Transparent(f.kind)
      /\ s.vars = IF f.kind = "function" THEN args ELSE Empty
  <2>1. \A i \in Nat, w \in Nat : LET t == Called(pending', i, w)
                                      a == [x \in Names |-> IF x \in pending'.params THEN w ELSE NoRow]
                                  IN  /\ t \in Scope /\ t.kind = pending'.kind
                                      /\ t.transparent = Transparent(pending'.kind)
                                      /\ t.vars = IF pending'.kind = "function" THEN a ELSE Empty
    BY <1>3, CalledFacts
  <2>2. Len(scopes') + 1 \in Nat /\ Len(writes') + 1 \in Nat
    BY <1>3
  <2> QED BY <1>4, <2>1, <2>2
<1>6. /\ n \in Nat /\ Len(gs) = n + 1 /\ gs[n + 1] = f /\ tt[n + 1] = s
      /\ \A i \in 1..n : gs[i] = frames[i] /\ tt[i] = Due[i]
  <2>1. tt = Append(Due, s) /\ gs = Append(frames, f) /\ n \in Nat
    BY <1>2, <1>4, <1>s DEF Framed
  <2>2. frames \in Seq(FrameSet)
    BY <1>s DEF Framed
  <2> QED BY <1>5, <1>d, <2>1, <2>2
<1>7. ASSUME NEW x \in Names PROVE DataAt(tt, gs, n + 1, x)
  <2>1. CASE f.kind \in {"macro", "include", "try_compile"}
    <3>1. ~Opaque(f) \/ f.kind = "try_compile"
      BY <2>1 DEF Opaque
    <3> QED BY <1>6, <3>1, NoTable
  <2>2. CASE f.kind = "function"
    <3>1. s.vars = args /\ f.tab = args /\ f.copied = {} /\ f.raised = {} /\ args[x] \in Nat
      BY <1>3, <1>4, <1>5, <2>2 DEF NoRow
    <3> QED BY <1>6, <3>1, FreshTable
  <2>3. CASE f.kind = "directory"
    <3>1. s.vars = Empty /\ f.tab = Closure(frames) /\ f.copied = Names
      BY <1>5, <2>3
    <3>2. /\ gs[n + 1].kind = "directory" /\ gs[n + 1].tab = Closure(frames)
          /\ gs[n + 1].copied = Names /\ tt[n + 1].vars = Empty
      BY <1>6, <2>3, <3>1
    <3> QED BY <1>6, <1>d, <1>s, <3>2, CopiedTable
  <2> QED BY <2>1, <2>2, <2>3
<1>8. Data(tt, gs)
  BY <1>6, <1>7, <1>s, PushKeepsData
<1>9. Data(Due', frames')
  BY <1>4, <1>8
<1>10. Typed' /\ CacheAgrees' /\ envVars' = env' /\ Fresh'
  BY <1>1, QuietKeepsCaches DEF Quiet
<1>11. DisciplineInv' /\ ContainInv' /\ ReadsResolve'
  BY TracedKeeps
<1> QED BY <1>2, <1>9, <1>10, <1>11 DEF Mirrors, Kept

\* A frame as the commands that push one make it.
LEMMA FrameIs ==
    ASSUME NEW kind \in Kinds, NEW depth \in Nat \ {0}, NEW unit \in Files
    PROVE  LET f == Frame(kind, depth, unit)
           IN  /\ f \in FrameSet /\ f.kind = kind /\ f.depth = depth /\ f.unit = unit
               /\ f.par = NoTab /\ f.tab = NoTab /\ f.copied = {} /\ f.raised = {}
               /\ \A args \in [Names -> Nat] :
                    /\ [f EXCEPT !.par = args] \in FrameSet /\ [f EXCEPT !.tab = args] \in FrameSet
                    /\ LET g == [f EXCEPT !.par = args] IN
                         /\ g.kind = kind /\ g.depth = depth /\ g.par = args
                    /\ LET g == [f EXCEPT !.tab = args] IN
                         /\ g.kind = kind /\ g.depth = depth /\ g.par = NoTab /\ g.tab = args
                         /\ g.copied = {} /\ g.raised = {}
<1> DEFINE f == Frame(kind, depth, unit)
<1>1. NoTab \in [Names -> Nat] /\ NoTab \in [Names -> Value]
  BY DEF NoTab, Inherit, Value
<1>2. f = [kind |-> kind, depth |-> depth, unit |-> unit, node |-> "none", tab |-> NoTab,
           par |-> NoTab, copied |-> {}, raised |-> {}]
  BY DEF Frame
<1> HIDE DEF f
<1>3. f \in FrameSet
  BY <1>1, <1>2 DEF FrameSet
<1>4. /\ f.kind = kind /\ f.depth = depth /\ f.unit = unit
      /\ f.par = NoTab /\ f.tab = NoTab /\ f.copied = {} /\ f.raised = {}
  BY <1>2
<1>5. ASSUME NEW args \in [Names -> Nat]
      PROVE  /\ [f EXCEPT !.par = args] \in FrameSet /\ [f EXCEPT !.tab = args] \in FrameSet
             /\ LET g == [f EXCEPT !.par = args] IN
                  /\ g.kind = kind /\ g.depth = depth /\ g.par = args
             /\ LET g == [f EXCEPT !.tab = args] IN
                  /\ g.kind = kind /\ g.depth = depth /\ g.par = NoTab /\ g.tab = args
                  /\ g.copied = {} /\ g.raised = {}
  <2>1. args \in [Names -> Value]
    BY DEF Value
  <2>2. [f EXCEPT !.par = args] \in FrameSet /\ [f EXCEPT !.tab = args] \in FrameSet
    BY <1>3, <2>1 DEF FrameSet
  <2>3. LET g == [f EXCEPT !.par = args] IN g.kind = kind /\ g.depth = depth /\ g.par = args
    BY <1>3, <1>4 DEF FrameSet
  <2>4. LET g == [f EXCEPT !.tab = args] IN
           /\ g.kind = kind /\ g.depth = depth /\ g.par = NoTab /\ g.tab = args
           /\ g.copied = {} /\ g.raised = {}
    BY <1>3, <1>4 DEF FrameSet
  <2> QED BY <2>2, <2>3, <2>4
<1> QED BY <1>3, <1>4, <1>5 DEF f

\* The values a subdirectory starts with.
LEMMA ClosureIs ==
    ASSUME NEW fs, Framed(fs)
    PROVE  Closure(fs) \in [Names -> Value]
<1>1. Len(fs) \in 1..Len(fs)
  BY DEF Framed
<1>2. \A x \in Names : Normal(fs, Len(fs), x) \in Nat
  BY <1>1, NormalIs
<1> QED BY <1>2 DEF Closure, Value

LEMMA CallKept ==
    ASSUME Irregular = {}, DisciplineInv, ContainInv, Mirrors,
           NEW p \in Procs, NEW ref \in Names \cup {None}, Call(p, ref)
    PROVE  Kept /\ NoAlarm
<1>s. TypeOK /\ Structure /\ Framed(frames)
  BY DEF DisciplineInv, Mirrors, Structure
<1>p. p \notin BuiltinCmds /\ p # None /\ "cmake_language" \in BuiltinCmds
  BY RecordingAssumption, ReplayAssumption
     DEF RecordingAssumption, ReplayAssumption, BuiltinCmds, OpenerCmds
<1>1. PICK via \in {"cmake_language", p} :
         Traced(EventOf(via, None, None, ref, IF via = p THEN None ELSE p, {}))
  BY DEF Call
<1>2. /\ defs[p] # None /\ frames' = Append(frames, CallFrame(p)) /\ Quiet
  BY DEF Call
<1>e. PICK e : e = EventOf(via, None, None, ref, IF via = p THEN None ELSE p, {})
  OBVIOUS
<1>3. Traced(e)
  BY <1>1, <1>e
<1>4. /\ e.cmd = via /\ e.name = None /\ e.proc = (IF via = p THEN None ELSE p)
      /\ Event2(e) /\ Fits(e)
  <2>1. /\ {} \in SUBSET Names /\ None \in Nodes \cup {None} /\ None \in Names \cup {None}
        /\ (IF via = p THEN None ELSE p) \in Procs \cup {None}
        /\ via \in BuiltinCmds \cup Procs /\ via # "block"
    BY <1>p DEF BuiltinCmds
  <2>2. Emitted(e, via, None, None, ref, IF via = p THEN None ELSE p, {})
    BY <1>e, <1>s, <2>1, EventOfIs
  <2> QED BY <2>2 DEF Emitted
<1>5. /\ ~IsWrite(e)
      /\ e.cmd \notin {"block", "parent_scope", "snapshot", "function", "macro", "add_subdirectory"}
  BY <1>4, <1>p DEF IsWrite, BuiltinCmds, WriteCmds, OpenerCmds
<1>6. Replay(e, Dumped(e))
  BY <1>3 DEF Traced, Dumped
<1>7. defs[p] \in Def
  BY <1>2, <1>s DEF TypeOK
<1>8. pending' = ComputePending(e, defs, nEvents + 1) /\ Len(writes') \in Nat
  <2>1. DefsAfter(e) = defs
    BY <1>5 DEF DefsAfter
  <2> QED BY <1>4, <1>6, <1>s, <2>1, StackAfter
<1>9. pending'.kind = defs[p].kind /\ pending'.params = defs[p].params
  <2>1. PendingKind(e, defs) = defs[p].kind /\ PendingParams(e, defs) = defs[p].params
    <3>1. CASE via = p
      <4>1. e.cmd = p /\ p # "cmake_language" /\ p # "add_subdirectory"
        BY <1>4, <1>p, <3>1 DEF BuiltinCmds, OpenerCmds
      <4> QED BY <1>2, <4>1 DEF PendingKind, PendingParams
    <3>2. CASE via # p
      <4>1. e.cmd = "cmake_language" /\ e.proc = p
        BY <1>4, <3>2
      <4> QED BY <1>2, <1>p, <4>1 DEF PendingKind, PendingParams
    <3> QED BY <3>1, <3>2
  <2> QED BY <1>8, <2>1 DEF ComputePending
<1> DEFINE f0 == Frame(defs[p].kind, Top.depth + 1, ProcFile[p])
           as == [x \in Names |-> IF x \in defs[p].params THEN Len(writes') + 1 ELSE NoRow]
<1>a. PICK args : args = as
  OBVIOUS
<1>10. CallFrame(p) = IF defs[p].kind = "macro" THEN [f0 EXCEPT !.par = args]
                      ELSE [f0 EXCEPT !.tab = args]
  BY <1>a DEF CallFrame, Inherit, NoRow, Frame
<1>11. args \in [Names -> Nat]
  BY <1>8, <1>a DEF NoRow
<1>12. defs[p].kind \in {"function", "macro"} /\ defs[p].kind \in Kinds /\ ProcFile[p] \in Files
  BY <1>7, RecordingAssumption DEF Def, Kinds, RecordingAssumption
<1>13. Top.depth \in Nat \ {0} /\ Top.depth + 1 \in Nat \ {0}
  BY <1>s, TopDepth
<1>14. PICK k, d, u : k = defs[p].kind /\ d = Top.depth + 1 /\ u = ProcFile[p]
  OBVIOUS
<1>15. /\ [Frame(k, d, u) EXCEPT !.par = args] \in FrameSet
       /\ [Frame(k, d, u) EXCEPT !.tab = args] \in FrameSet
       /\ LET g == [Frame(k, d, u) EXCEPT !.par = args] IN
            /\ g.kind = k /\ g.depth = d /\ g.par = args
       /\ LET g == [Frame(k, d, u) EXCEPT !.tab = args] IN
            /\ g.kind = k /\ g.depth = d /\ g.par = NoTab /\ g.tab = args
            /\ g.copied = {} /\ g.raised = {}
  BY <1>11, <1>12, <1>13, <1>14, FrameIs
<1>16. PICK f : f = CallFrame(p)
  OBVIOUS
<1>17. /\ f \in FrameSet /\ f.kind = k /\ f.depth = d
       /\ f.par = (IF k = "macro" THEN args ELSE NoTab)
       /\ k = "function" => f.tab = args /\ f.copied = {} /\ f.raised = {}
  <2>1. f0 = Frame(k, d, u)
    BY <1>14
  <2>2. CASE k = "macro"
    <3>1. f = [Frame(k, d, u) EXCEPT !.par = args]
      BY <1>10, <1>14, <1>16, <2>1, <2>2
    <3> QED BY <1>15, <2>2, <3>1
  <2>3. CASE k # "macro"
    <3>1. f = [Frame(k, d, u) EXCEPT !.tab = args]
      BY <1>10, <1>14, <1>16, <2>1, <2>3
    <3> QED BY <1>15, <2>3, <3>1
  <2> QED BY <2>2, <2>3
<1>18. args = [x \in Names |-> IF x \in pending'.params THEN Len(writes') + 1 ELSE NoRow]
  BY <1>9, <1>a
<1>19. frames' = Append(frames, f) /\ f.kind = pending'.kind /\ f.depth = Top.depth + 1
       /\ f.kind \in {"function", "macro", "directory", "include", "try_compile"}
  BY <1>2, <1>9, <1>12, <1>14, <1>16, <1>17
<1>20. f.kind # "directory"
  BY <1>12, <1>14, <1>17
<1>21. Kept
  BY <1>2, <1>3, <1>4, <1>5, <1>17, <1>18, <1>19, <1>20, PushKept
<1> QED BY <1>3, <1>4, <1>5, <1>21, TracedDump DEF NoAlarm

LEMMA EnterKept ==
    ASSUME Irregular = {}, DisciplineInv, ContainInv, Mirrors,
           NEW cmd \in {"add_subdirectory", "include", "try_compile"}, NEW file \in Files,
           Enter(cmd, file)
    PROVE  Kept /\ NoAlarm
<1>s. TypeOK /\ Structure /\ Framed(frames)
  BY DEF DisciplineInv, Mirrors, Structure
<1> DEFINE kind == IF cmd = "add_subdirectory" THEN "directory" ELSE cmd
           f0   == Frame(kind, Top.depth + 1, file)
<1>1. /\ Traced(EventOf(cmd, None, None, None, None, {})) /\ Quiet
      /\ frames' = Append(frames, IF cmd = "add_subdirectory"
                                  THEN [f0 EXCEPT !.tab = Closure(frames), !.copied = Names]
                                  ELSE f0)
  BY DEF Enter
<1>e. PICK e : e = EventOf(cmd, None, None, None, None, {})
  OBVIOUS
<1>3. Traced(e)
  BY <1>1, <1>e
<1>4. e.cmd = cmd /\ e.name = None /\ Event2(e) /\ Fits(e)
  <2>1. /\ {} \in SUBSET Names /\ None \in Nodes \cup {None} /\ None \in Names \cup {None}
        /\ None \in Procs \cup {None} /\ cmd \in BuiltinCmds \cup Procs /\ cmd # "block"
    BY DEF BuiltinCmds, OpenerCmds
  <2>2. Emitted(e, cmd, None, None, None, None, {})
    BY <1>e, <1>s, <2>1, EventOfIs
  <2> QED BY <2>2 DEF Emitted
<1>5. ~IsWrite(e) /\ e.cmd \notin {"block", "parent_scope", "snapshot"}
  BY <1>4 DEF IsWrite
<1>6. Replay(e, Dumped(e))
  BY <1>3 DEF Traced, Dumped
<1>7. pending' = ComputePending(e, DefsAfter(e), nEvents + 1)
  BY <1>4, <1>6, <1>s, StackAfter
<1>8. pending'.kind = kind
  <2>1. cmd \notin Procs
    BY RecordingAssumption DEF RecordingAssumption, BuiltinCmds, OpenerCmds
  <2>2. PendingKind(e, DefsAfter(e)) = kind
    BY <1>4, <2>1 DEF PendingKind
  <2> QED BY <1>7, <2>2 DEF ComputePending
<1>9. Top.depth \in Nat \ {0} /\ Top.depth + 1 \in Nat \ {0}
  BY <1>s, TopDepth
<1>10. kind \in Kinds /\ kind \in {"directory", "include", "try_compile"}
  BY DEF Kinds
<1>11. PICK k, d : k = kind /\ d = Top.depth + 1
  OBVIOUS
<1>12. PICK g : g = Frame(k, d, file)
  OBVIOUS
<1>13. /\ g \in FrameSet /\ g.kind = k /\ g.depth = d /\ g.par = NoTab
  BY <1>9, <1>10, <1>11, <1>12, FrameIs
<1> DEFINE f == IF cmd = "add_subdirectory"
                THEN [g EXCEPT !.tab = Closure(frames), !.copied = Names] ELSE g
<1>14. frames' = Append(frames, f)
  BY <1>1, <1>11, <1>12
<1>15. /\ f \in FrameSet /\ f.kind = k /\ f.depth = d /\ f.par = NoTab
       /\ k = "directory" => f.tab = Closure(frames) /\ f.copied = Names
  <2>1. CASE cmd = "add_subdirectory"
    <3>1. Closure(frames) \in [Names -> Value]
      BY <1>s, ClosureIs
    <3>2. f = [g EXCEPT !.tab = Closure(frames), !.copied = Names]
      BY <2>1
    <3> HIDE DEF f
    <3> QED BY <1>13, <3>1, <3>2 DEF FrameSet
  <2>2. CASE cmd # "add_subdirectory"
    <3>1. f = g /\ k # "directory"
      BY <1>11, <2>2
    <3> QED BY <1>13, <3>1
  <2> QED BY <2>1, <2>2
<1>16. PICK h : h = f
  OBVIOUS
<1> HIDE DEF f
<1>17. /\ h \in FrameSet /\ frames' = Append(frames, h) /\ h.kind = pending'.kind
       /\ h.kind \in {"function", "macro", "directory", "include", "try_compile"}
       /\ h.kind \notin {"function", "macro"}
       /\ h.depth = Top.depth + 1 /\ h.par = NoTab
       /\ h.kind = "directory" => h.tab = Closure(frames) /\ h.copied = Names
  <2>1. k \in {"directory", "include", "try_compile"} /\ pending'.kind = k /\ d = Top.depth + 1
    BY <1>8, <1>10, <1>11
  <2> QED BY <1>14, <1>15, <1>16, <2>1
<1>18. Kept
  BY <1>1, <1>3, <1>4, <1>5, <1>17, PushKept
<1> QED BY <1>3, <1>4, <1>5, <1>18, TracedDump DEF NoAlarm

LEMMA BlockKept ==
    ASSUME Irregular = {}, DisciplineInv, ContainInv, Mirrors, NEW n \in Nodes, Block(n)
    PROVE  Kept /\ NoAlarm
<1>s. TypeOK /\ Structure /\ Data(Due, frames) /\ Framed(frames)
  BY DEF DisciplineInv, Mirrors, Structure
<1>d. Due \in Seq(Scope) /\ Len(Due) = Len(frames)
  BY <1>s, DueIs
<1>1. /\ frames[Executing(frames)].unit = NodeFile[n]
      /\ Enclosing(frames) = NodeOuter[n] /\ n \notin left
      /\ Traced(EventOf("block", n, None, None, None, {})) /\ Quiet
      /\ frames' = Append(frames, [Frame("block", Top.depth, NodeFile[n]) EXCEPT !.node = n])
  BY DEF Block
<1>e. PICK e : e = EventOf("block", n, None, None, None, {})
  OBVIOUS
<1>3. Traced(e)
  BY <1>1, <1>e
<1>4. /\ e.cmd = "block" /\ e.name = None /\ e.node = n /\ e.file = NodeFile[n]
      /\ Event2(e) /\ Fits(e)
  <2>1. /\ {} \in SUBSET Names /\ n \in Nodes \cup {None} /\ None \in Names \cup {None}
        /\ None \in Procs \cup {None} /\ "block" \in BuiltinCmds \cup Procs
    BY DEF BuiltinCmds
  <2>2. Emitted(e, "block", n, None, None, None, {})
    BY <1>e, <1>s, <2>1, EventOfIs
  <2> QED BY <1>1, <2>2 DEF Emitted
<1>5. ~IsWrite(e)
  BY <1>4 DEF IsWrite
<1>6. Replay(e, Dumped(e))
  BY <1>3 DEF Traced, Dumped
<1>7. Joined(e) /\ n \notin Enclosing(frames) /\ NodeFile[n] \in Files
  BY <1>1, <1>4, RecordingAssumption, ProjectAssumption
     DEF Joined, RecordingAssumption, ProjectAssumption
<1>8. Top.depth \in Nat \ {0}
  BY <1>s, TopDepth
<1>9. PICK d : d = Top.depth
  OBVIOUS
<1>10. PICK g : g = Frame("block", d, NodeFile[n])
  OBVIOUS
<1>11. PICK f : f = [g EXCEPT !.node = n]
  OBVIOUS
<1>12. /\ g \in FrameSet /\ g.kind = "block" /\ g.depth = d /\ g.par = NoTab /\ g.tab = NoTab
       /\ g.copied = {} /\ g.raised = {}
  <2>1. "block" \in Kinds
    BY DEF Kinds
  <2> QED BY <1>7, <1>8, <1>9, <1>10, <2>1, FrameIs
<1>13. /\ f \in FrameSet /\ f.kind = "block" /\ f.node = n /\ f.depth = Top.depth /\ f.par = NoTab
       /\ f.tab = NoTab /\ f.copied = {} /\ f.raised = {}
  BY <1>9, <1>11, <1>12 DEF FrameSet
<1>14. frames' = Append(frames, f)
  BY <1>1, <1>9, <1>10, <1>11
<1>15. /\ Structure' /\ Due' = stack'
       /\ \E id \in Nat : stack' = Append(Due, BlockScope(e, id))
  BY <1>4, <1>6, <1>7, <1>13, <1>14, <1>s, BlockKeepsStructure
<1>16. PICK id \in Nat : stack' = Append(Due, BlockScope(e, id))
  BY <1>15
<1> DEFINE k == Len(frames)
<1>17. PICK tt, gs, s : tt = Due' /\ gs = frames' /\ s = BlockScope(e, id)
  OBVIOUS
<1>18. s \in Scope /\ s.vars = Empty
  BY <1>4, <1>17, BlockScopeType DEF Event2
<1>19. /\ k \in Nat /\ Len(gs) = k + 1 /\ gs[k + 1] = f /\ tt[k + 1] = s
       /\ \A i \in 1..k : gs[i] = frames[i] /\ tt[i] = Due[i]
  <2>1. tt = Append(Due, s) /\ gs = Append(frames, f) /\ k \in Nat
    BY <1>14, <1>15, <1>16, <1>17, <1>s DEF Framed
  <2>2. frames \in Seq(FrameSet)
    BY <1>s DEF Framed
  <2> QED BY <1>13, <1>18, <1>d, <2>1, <2>2
<1>20. ASSUME NEW x \in Names PROVE DataAt(tt, gs, k + 1, x)
  <2>1. gs[k + 1].tab[x] = tt[k + 1].vars[x] /\ tt[k + 1].vars[x] \in Nat
    BY <1>13, <1>18, <1>19 DEF NoTab, Empty, Inherit, NoRow
  <2> QED BY <1>13, <1>19, <2>1, FreshTable
<1>21. Data(tt, gs)
  BY <1>19, <1>20, <1>s, PushKeepsData
<1>22. Data(Due', frames')
  BY <1>17, <1>21
<1>23. Typed' /\ CacheAgrees' /\ envVars' = env' /\ Fresh'
  BY <1>1, <1>4, <1>5, <1>6, QuietKeepsCaches DEF Quiet
<1>24. DisciplineInv' /\ ContainInv' /\ ReadsResolve'
  BY <1>3, <1>4, TracedKeeps
<1>25. Kept
  BY <1>15, <1>22, <1>23, <1>24 DEF Mirrors, Kept
<1> QED BY <1>3, <1>4, <1>25, TracedDump DEF NoAlarm

-----------------------------------------------------------------------------
(* Between the commands, and at the end.                                   *)

\* A silent step leaves the replay alone.
LEMMA SilentKeeps ==
    ASSUME DisciplineInv, ContainInv, ReadsResolve, UNCHANGED rvars,
           truth' = NoTruth \/ UNCHANGED truth
    PROVE  DisciplineInv' /\ ContainInv' /\ ReadsResolve' /\ NoAlarm
<1>1. DisciplineInv'
  BY DEF rvars, DisciplineInv, TypeOK, Started, StackMirrorsCalls, NoReturnedScopeOpen
<1>2. ContainInv'
  BY DEF rvars, ContainInv, TypeOK, TreeInv, Paced
<1>3. ReadsResolve'
  <2>1. CASE truth' = NoTruth
    <3>1. truth'.name = None
      BY <2>1 DEF NoTruth
    <3> QED BY <3>1 DEF ReadsResolve
  <2>2. CASE UNCHANGED truth
    BY <2>2 DEF ReadsResolve, rvars
  <2> QED BY <2>1, <2>2
<1> QED BY <1>1, <1>2, <1>3 DEF NoAlarm, rvars

\* Frames that end take their scopes along.
LEMMA ShrinkKept ==
    ASSUME DisciplineInv, ContainInv, Mirrors, ReadsResolve, NEW k \in 1..Len(frames),
           k < Len(frames), NEW lv, Silent(SubSeq(frames, 1, k), lv),
           Stale(Base, SubSeq(frames, 1, k), lv)
    PROVE  Kept /\ NoAlarm
<1>s. TypeOK /\ Structure /\ Data(Due, frames) /\ Framed(frames)
  BY DEF DisciplineInv, Mirrors, Structure
<1>1. /\ frames' = SubSeq(frames, 1, k) /\ left' = lv /\ truth' = NoTruth
      /\ UNCHANGED <<rvars, cache, env, cleared>>
  BY DEF Silent
<1>2. UNCHANGED <<stack, pending, scopes, writes, cacheVars, envVars, nEvents>>
  BY <1>1 DEF rvars
<1>3. Stale(Base, frames', left')
  BY <1>1
<1>4. /\ Structure' /\ Len(frames') = k
      /\ \A i \in 1..k : Due'[i] = Due[i] /\ frames'[i] = frames[i]
  BY <1>1, <1>2, <1>3, <1>s, ShrinkKeepsStructure
<1>5. PICK tt, gs : tt = Due' /\ gs = frames'
  OBVIOUS
<1>6. k \in Nat /\ k <= Len(frames)
  BY <1>s DEF Framed
<1>7. \A i \in 1..k : \A x \in Names : DataAt(Due, frames, i, x)
  BY <1>6, <1>s DEF Data, Framed
<1>8. \A i \in 1..k : \A x \in Names : DataAt(tt, gs, i, x)
  BY <1>4, <1>5, <1>6, <1>7, PrefixKept
<1>9. Data(tt, gs)
  BY <1>4, <1>5, <1>8 DEF Data
<1>10. Data(Due', frames')
  BY <1>5, <1>9
<1>11. Typed' /\ CacheAgrees' /\ envVars' = env' /\ Fresh'
  BY <1>1, <1>2 DEF Mirrors, Typed, CacheAgrees, Fresh
<1>12. DisciplineInv' /\ ContainInv' /\ ReadsResolve' /\ NoAlarm
  BY <1>1, SilentKeeps
<1> QED BY <1>4, <1>10, <1>11, <1>12 DEF Kept, Mirrors

LEMMA ReturnKept ==
    ASSUME DisciplineInv, ContainInv, Mirrors, ReadsResolve, Return
    PROVE  Kept /\ NoAlarm
<1>1. TypeOK /\ Structure /\ Executing(frames) > 1
  BY DEF DisciplineInv, Mirrors, Return
<1>2. /\ Executing(frames) - 1 \in 1..Len(frames) /\ Executing(frames) - 1 < Len(frames)
      /\ Stale(Base, SubSeq(frames, 1, Executing(frames) - 1), left)
  BY <1>1, ReturnLeavesStale
<1>3. PICK k : k = Executing(frames) - 1
  OBVIOUS
<1>4. PICK lv : lv = left
  OBVIOUS
<1>5. Silent(SubSeq(frames, 1, k), lv) /\ Stale(Base, SubSeq(frames, 1, k), lv)
      /\ k \in 1..Len(frames) /\ k < Len(frames)
  BY <1>2, <1>3, <1>4 DEF Return
<1> QED BY <1>5, ShrinkKept

LEMMA EndBlockKept ==
    ASSUME DisciplineInv, ContainInv, Mirrors, ReadsResolve, EndBlock
    PROVE  Kept /\ NoAlarm
<1>1. TypeOK /\ Structure /\ Top.kind = "block"
  BY DEF DisciplineInv, Mirrors, EndBlock
<1>2. /\ Len(frames) - 1 \in 1..Len(frames) /\ Len(frames) - 1 < Len(frames)
      /\ Stale(Base, SubSeq(frames, 1, Len(frames) - 1), left \cup {Top.node})
  BY <1>1, EndBlockLeavesStale
<1>3. PICK k : k = Len(frames) - 1
  OBVIOUS
<1>4. PICK lv : lv = left \cup {Top.node}
  OBVIOUS
<1>5. Silent(SubSeq(frames, 1, k), lv) /\ Stale(Base, SubSeq(frames, 1, k), lv)
      /\ k \in 1..Len(frames) /\ k < Len(frames)
  BY <1>2, <1>3, <1>4 DEF EndBlock
<1> QED BY <1>5, ShrinkKept

LEMMA NextFileKept ==
    ASSUME DisciplineInv, ContainInv, Mirrors, ReadsResolve, project \in Project, NextFile
    PROVE  Kept /\ NoAlarm
<1>s. TypeOK /\ Structure /\ Data(Due, frames) /\ Framed(frames) /\ Top.kind = "include"
  BY DEF DisciplineInv, Mirrors, Structure, NextFile
<1>1. PICK unit \in project.files : Silent([frames EXCEPT ![Len(frames)].unit = unit], left)
  BY DEF NextFile
<1>2. unit \in Files
  BY <1>1 DEF Project
<1>3. /\ frames' = [frames EXCEPT ![Len(frames)].unit = unit] /\ left' = left /\ truth' = NoTruth
      /\ UNCHANGED <<rvars, cache, env, cleared>>
  BY <1>1 DEF Silent
<1>4. UNCHANGED <<stack, pending, scopes, writes, cacheVars, envVars, nEvents>>
  BY <1>3 DEF rvars
<1>5. /\ Structure' /\ Due' = Due /\ Len(frames') = Len(frames)
      /\ \A i \in 1..Len(frames) : frames'[i] = IF i = Len(frames)
                                                THEN [Top EXCEPT !.unit = unit] ELSE frames[i]
  BY <1>2, <1>3, <1>4, <1>s, NextFileKeepsStructure
<1>6. PICK gs : gs = frames'
  OBVIOUS
<1>7. Top \in FrameSet
  <2>1. Len(frames) \in 1..Len(frames)
    BY <1>s DEF Framed
  <2> QED BY <1>s, <2>1, FrameFacts DEF Top
<1>8. \A i \in 1..Len(frames) :
         /\ gs[i].kind = frames[i].kind /\ gs[i].node = frames[i].node
         /\ gs[i].tab = frames[i].tab /\ gs[i].copied = frames[i].copied
         /\ gs[i].raised = frames[i].raised
  <2> TAKE i \in 1..Len(frames)
  <2>1. CASE i = Len(frames)
    <3>1. gs[i] = [Top EXCEPT !.unit = unit] /\ Top = frames[i]
      BY <1>5, <1>6, <2>1 DEF Top
    <3> QED BY <1>7, <3>1 DEF FrameSet
  <2>2. CASE i # Len(frames)
    <3>1. gs[i] = frames[i]
      BY <1>5, <1>6, <2>2
    <3> QED BY <3>1
  <2> QED BY <2>1, <2>2
<1>9. Len(frames) \in Nat /\ \A i \in 1..Len(frames) : \A x \in Names : DataAt(Due, frames, i, x)
  BY <1>s DEF Data, Framed
<1>10. \A i \in 1..Len(frames) : \A x \in Names : DataAt(Due, gs, i, x)
  BY <1>8, <1>9, PrefixKept
<1>11. Data(Due, gs)
  BY <1>5, <1>6, <1>10 DEF Data
<1>12. Data(Due', frames')
  BY <1>5, <1>6, <1>11
<1>13. Typed' /\ CacheAgrees' /\ envVars' = env' /\ Fresh'
  BY <1>3, <1>4 DEF Mirrors, Typed, CacheAgrees, Fresh
<1>14. DisciplineInv' /\ ContainInv' /\ ReadsResolve' /\ NoAlarm
  BY <1>3, SilentKeeps
<1> QED BY <1>5, <1>12, <1>13, <1>14 DEF Kept, Mirrors

LEMMA EndKept ==
    ASSUME DisciplineInv, ContainInv, End
    PROVE  DisciplineInv' /\ ContainInv' /\ ReadsResolve' /\ NoAlarm /\ outcome' # "running"
<1>1. Finish /\ truth' = NoTruth
  BY DEF End
<1>2. outcome' # "running"
  BY <1>1 DEF Finish
<1>3. TypeOK' /\ stack' = <<>> /\ UNCHANGED <<writes, cacheVars, envVars, nEvents, mismatches>>
  BY <1>1, FinishType DEF ContainInv, Finish
<1>4. TreeInv'
  BY <1>1, TreeFinish DEF ContainInv
<1>5. Len(stack') = 0 /\ Match(stack', writes', cacheVars', envVars') /\ Dated(writes', nEvents')
  BY <1>3 DEF ContainInv, Match, Dated
<1>6. ContainInv'
  BY <1>3, <1>4, <1>5 DEF ContainInv, OpaqueTries, Sealed
<1>7. DisciplineInv'
  BY <1>2, <1>3, <1>5 DEF DisciplineInv, Started, StackMirrorsCalls, NoReturnedScopeOpen
<1>8. ReadsResolve'
  BY <1>1 DEF ReadsResolve, NoTruth
<1>9. NoAlarm
  BY <1>3 DEF NoAlarm
<1> QED BY <1>2, <1>6, <1>7, <1>8, <1>9

-----------------------------------------------------------------------------
(* Every recording of a project without irregularities.                    *)

RecordingInv ==
    /\ DisciplineInv /\ ContainInv
    /\ outcome = "running" => Mirrors
    /\ ReadsResolve
    /\ project \in Project

LEMMA InitMirrors ==
    ASSUME Init
    PROVE  RecordingInv
<1>1. /\ stack = <<>> /\ pending = None /\ scopes = <<>> /\ writes = <<>> /\ nEvents = 0
      /\ cacheVars = Empty /\ envVars = Empty /\ outcome = "running"
      /\ frames = <<Frame("root", 1, RootFile)>>
      /\ cache = [x \in Names |-> NoRow] /\ env = [x \in Names |-> NoRow]
      /\ cleared = {} /\ left = {} /\ truth = NoTruth /\ project \in Projects /\ RInit
  BY DEF Init, RInit
<1>2. TypeOK
  <2>1. stack \in Seq(Scope) /\ scopes \in Seq(ScopeRow) /\ writes \in Seq(WriteRow)
    BY <1>1, EmptySeq
  <2>2. lastRead \in [name : Names \cup {None}, var : Nat, env : Nat]
    BY <1>1 DEF RInit, NoRead, NoRow
  <2>3. nEvents \in 0..MaxEvents
    BY <1>1, ReplayAssumption DEF ReplayAssumption
  <2> QED BY <1>1, EmptyType, <2>1, <2>2, <2>3 DEF RInit, TypeOK
<1>3. Len(stack) = 0 /\ Len(writes) = 0 /\ Len(scopes) = 0
  BY <1>1
<1>4. DisciplineInv
  BY <1>1, <1>2, <1>3 DEF DisciplineInv, Started, StackMirrorsCalls, NoReturnedScopeOpen
<1>5. ContainInv
  <2>1. TreeInv
    BY <1>1, <1>3 DEF TreeInv, Tree, Paced
  <2>2. Match(stack, writes, cacheVars, envVars)
    <3>1. \A x : Row(writes, NoRow, x, NoRow)
      BY DEF Row
    <3>2. 1..Len(stack) = {} /\ \A x \in Names : cacheVars[x] = NoRow /\ envVars[x] = NoRow
      BY <1>1, <1>3 DEF Empty
    <3> QED BY <3>1, <3>2 DEF Match
  <2> QED BY <1>2, <1>3, <2>1, <2>2 DEF ContainInv, Dated, OpaqueTries, Sealed
<1>6. PICK f : f = Frame("root", 1, RootFile)
  OBVIOUS
<1>7. /\ f \in FrameSet /\ f.kind = "root" /\ f.depth = 1 /\ f.par = NoTab /\ f.tab = NoTab
      /\ f.copied = {} /\ f.raised = {}
  <2>1. "root" \in Kinds /\ 1 \in Nat \ {0} /\ RootFile \in Files
    BY RecordingAssumption DEF Kinds, RecordingAssumption
  <2> QED BY <1>6, <2>1, FrameIs
<1>8. /\ frames = <<f>> /\ Len(frames) = 1 /\ frames[1] = f /\ frames \in Seq(FrameSet)
  BY <1>1, <1>6, <1>7
<1>9. Framed(frames)
  BY <1>7, <1>8 DEF Framed
<1>10. PICK s : s = NewScope(1, 1, "root")
  OBVIOUS
<1>11. /\ s.kind = "root" /\ s.depth = 1 /\ ~s.transparent /\ s.params = Empty
       /\ s.vars = Empty /\ s \in Scope
  <2>1. "root" \in Kinds /\ 1 \in Nat
    BY DEF Kinds
  <2>2. s \in Scope
    BY <1>10, <2>1, NewScopeType
  <2>3. s = [id |-> 1, depth |-> 1, kind |-> "root", transparent |-> Transparent("root"),
             vars |-> Empty, params |-> Empty, range |-> None]
    BY <1>10 DEF NewScope
  <2>4. s.transparent = Transparent("root") /\ ~Transparent("root")
    BY <2>3 DEF Transparent
  <2> QED BY <2>2, <2>3, <2>4
<1>12. Base = <<s>> /\ Len(Base) = 1 /\ Base \in Seq(Scope)
  BY <1>1, <1>10, <1>11 DEF Base
<1>13. Due = SubSeq(Base, 1, 1)
  BY <1>8, <1>12 DEF Due
<1>14. Due[1] = s
  BY <1>12, <1>13, KeptType
<1>15. Structure
  <2>1. Empty = NoTab
    BY DEF Empty, NoTab, NoRow, Inherit
  <2>2. Pairs(Due, frames)
    BY <1>7, <1>8, <1>11, <1>14, <2>1 DEF Pairs, Pair, Opaque
  <2>3. Nest(frames) /\ Stale(Base, frames, left)
    BY <1>8, <1>12 DEF Nest, Stale
  <2> QED BY <1>8, <1>9, <1>12, <2>2, <2>3 DEF Structure
<1>16. Data(Due, frames)
  <2>0. \A i \in 1..Len(frames) : i = 1
    BY <1>8
  <2> SUFFICES ASSUME NEW x \in Names PROVE DataAt(Due, frames, 1, x)
    BY <2>0 DEF Data
  <2>1. frames[1].tab[x] = Due[1].vars[x] /\ Due[1].vars[x] \in Nat
    BY <1>7, <1>8, <1>11, <1>14 DEF NoTab, Empty, Inherit, NoRow
  <2> QED BY <1>7, <1>8, <2>1, FreshTable
<1>17. Typed /\ CacheAgrees /\ envVars = env /\ Fresh
  BY <1>1 DEF Typed, CacheAgrees, Entry, Fresh, Empty, NoRow
<1>18. ReadsResolve
  BY <1>1 DEF ReadsResolve, NoTruth
<1>19. project \in Project
  BY <1>1, RecordingAssumption DEF RecordingAssumption
<1> QED BY <1>4, <1>5, <1>15, <1>16, <1>17, <1>18, <1>19 DEF RecordingInv, Mirrors

LEMMA TracedRuns == \A e : Traced(e) => outcome = "running"
BY DEF Traced, Replay

LEMMA RunKeeps ==
    ASSUME Irregular = {}, RecordingInv, Run, UNCHANGED project
    PROVE  RecordingInv' /\ NoAlarm
<1>1. DisciplineInv /\ ContainInv /\ ReadsResolve /\ project \in Project
      /\ (outcome = "running" => Mirrors)
  BY DEF RecordingInv
<1>2. /\ \A u \in project.uses : u[1] \in Names /\ u[2] \in Names \cup {None}
      /\ Used \in SUBSET Names
      /\ project.procs \in SUBSET Procs /\ project.nodes \in SUBSET Nodes
      /\ project.files \in SUBSET Files
  BY <1>1 DEF Project, Used
<1>k. Kept => RecordingInv'
  BY <1>1 DEF Kept, RecordingInv
<1>3. ASSUME NEW cmd \in WriteCmds \cap project.cmds, NEW u \in project.uses,
             Write(cmd, u[1], u[2])
      PROVE  Kept /\ NoAlarm
  <2>1. PICK x \in Names, ref \in Names \cup {None} : x = u[1] /\ ref = u[2]
    BY <1>2
  <2>2. Write(cmd, x, ref) /\ outcome = "running"
    BY <1>3, <2>1, TracedRuns DEF Write
  <2> QED BY <1>1, <2>2, WriteKept
<1>4. ASSUME NEW x \in Used, Read(x)
      PROVE  Kept /\ NoAlarm
  <2>1. outcome = "running" /\ x \in Names \cup {None}
    BY <1>2, <1>4, TracedRuns DEF Read
  <2> QED BY <1>1, <1>4, <2>1, ReadKept
<1>5. ASSUME NEW p \in project.procs, NEW d \in ProcDefs[p], Define(p, d)
      PROVE  Kept /\ NoAlarm
  <2>1. outcome = "running" /\ p \in Procs /\ d \in Def
    BY <1>2, <1>5, TracedRuns, RecordingAssumption DEF Define, RecordingAssumption
  <2> QED BY <1>1, <1>5, <2>1, DefineKept
<1>6. ASSUME NEW p \in project.procs, NEW ref \in Used \cup {None}, Call(p, ref)
      PROVE  Kept /\ NoAlarm
  <2>1. outcome = "running" /\ p \in Procs /\ ref \in Names \cup {None}
    BY <1>2, <1>6, TracedRuns DEF Call
  <2> QED BY <1>1, <1>6, <2>1, CallKept
<1>7. ASSUME NEW cmd \in {"add_subdirectory", "include", "try_compile"} \cap project.cmds,
             NEW f \in project.files, Enter(cmd, f)
      PROVE  Kept /\ NoAlarm
  <2>1. outcome = "running" /\ f \in Files
    BY <1>2, <1>7, TracedRuns DEF Enter
  <2> QED BY <1>1, <1>7, <2>1, EnterKept
<1>8. ASSUME NEW n \in project.nodes, Block(n)
      PROVE  Kept /\ NoAlarm
  <2>1. outcome = "running" /\ n \in Nodes
    BY <1>2, <1>8, TracedRuns DEF Block
  <2> QED BY <1>1, <1>8, <2>1, BlockKept
<1>9. CASE Dump
  <2>1. outcome = "running"
    BY <1>9, TracedRuns DEF Dump
  <2> QED BY <1>1, <1>9, <1>k, <2>1, DumpKept
<1>10. CASE Return
  <2>1. outcome = "running"
    BY <1>10 DEF Return
  <2> QED BY <1>1, <1>10, <1>k, <2>1, ReturnKept
<1>11. CASE EndBlock
  <2>1. outcome = "running"
    BY <1>11 DEF EndBlock
  <2> QED BY <1>1, <1>11, <1>k, <2>1, EndBlockKept
<1>12. CASE NextFile
  <2>1. outcome = "running"
    BY <1>12 DEF NextFile
  <2> QED BY <1>1, <1>12, <1>k, <2>1, NextFileKept
<1>13. CASE End
  BY <1>1, <1>13, EndKept DEF RecordingInv
<1> QED BY <1>k, <1>3, <1>4, <1>5, <1>6, <1>7, <1>8, <1>9, <1>10, <1>11, <1>12, <1>13 DEF Run

LEMMA RecordingSteps ==
    ASSUME Irregular = {}, RecordingInv, [Next]_vars
    PROVE  RecordingInv' /\ [NoAlarm]_vars
<1>1. CASE Next
  BY <1>1, RunKeeps DEF Next
<1>2. CASE UNCHANGED vars
  <2>1. UNCHANGED <<rvars, frames, cache, env, cleared, left, project, truth>>
    BY <1>2 DEF vars, cvars
  <2>2. DisciplineInv' /\ ContainInv' /\ ReadsResolve'
    BY <2>1, SilentKeeps DEF RecordingInv
  <2>3. Mirrors => Mirrors'
    BY <2>1 DEF rvars, Mirrors, Structure, Data, Due, Base, Top, Typed, CacheAgrees, Fresh
  <2>4. outcome' = outcome
    BY <2>1 DEF rvars
  <2> QED BY <1>2, <2>1, <2>2, <2>3, <2>4 DEF RecordingInv
<1> QED BY <1>1, <1>2

\* What the replay records for a ${x} is what CMake itself took the value from,
\* whatever a project without irregularities does: the write in effect, or the
\* unset() that left the variable without a value (dataflow.rs:516-538,
\* design.md:309).
THEOREM ReadsAreCMakes == ASSUME Irregular = {} PROVE Spec => []ReadsResolve
<1>1. RecordingInv /\ [Next]_vars => RecordingInv'
  BY RecordingSteps
<1>2. RecordingInv => ReadsResolve
  BY DEF RecordingInv
<1> QED BY <1>1, <1>2, InitMirrors, PTL DEF Spec

\* A correct recording is never refused: where CMake dumps its variables the
\* replay holds the same, but for what a PARENT_SCOPE write left approximate
\* (dataflow.rs:628-638).
THEOREM NoAlarmIsFalse == ASSUME Irregular = {} PROVE Spec => NoFalseAlarm
<1>1. RecordingInv /\ [Next]_vars => RecordingInv'
  BY RecordingSteps
<1>2. RecordingInv /\ [Next]_vars => [NoAlarm]_vars
  BY RecordingSteps
<1>3. NoFalseAlarm <=> [][NoAlarm]_vars
  BY DEF NoFalseAlarm, NoAlarm
<1> QED BY <1>1, <1>2, <1>3, InitMirrors, PTL DEF Spec

\* Nothing the project of a try_compile writes is seen outside of it, nor while
\* it runs in the cache and the environment: CMake raises a variable at most to
\* the top of that project, unless the project does so from there (which Irregular
\* names), so what TryCompileIsContained assumes of a trace holds (dataflow.rs:62-64).
THEOREM RecordingContains == ASSUME Irregular = {} PROVE Spec => []TryCompileContained
<1>1. RecordingInv /\ [Next]_vars => RecordingInv'
  BY RecordingSteps
<1>2. RecordingInv => TryCompileContained
  BY DEF RecordingInv, ContainInv, Sealed, Old, TryCompileContained
<1> QED BY <1>1, <1>2, InitMirrors, PTL DEF Spec

\* The scope stack, the tables and the tree of scopes are sound in every such
\* recording (dataflow.rs:418-482, 559-626).
THEOREM RecordingIsSound ==
    ASSUME Irregular = {}
    PROVE  Spec => [](StackDisciplined /\ TablesMatchRows /\ ScopeTreeNests)
<1>1. RecordingInv /\ [Next]_vars => RecordingInv'
  BY RecordingSteps
<1>2. RecordingInv => StackDisciplined
  BY DEF RecordingInv, DisciplineInv, StackDisciplined
<1>3. RecordingInv => TablesMatchRows
  BY DEF RecordingInv, ContainInv, Match, Row, TablesMatchRows, RowFor
<1>4. RecordingInv => ScopeTreeNests
  <2> SUFFICES ASSUME TypeOK, TreeInv PROVE ScopeTreeNests
    BY DEF RecordingInv, ContainInv
  <2>1. Tree(stack, scopes, nEvents)
    BY DEF TreeInv
  <2> QED BY <2>1 DEF Tree, Nested, ScopeTreeNests
<1> QED BY <1>1, <1>2, <1>3, <1>4, InitMirrors, PTL DEF Spec

=============================================================================
