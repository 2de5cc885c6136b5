----------------------------- MODULE CMakeExec -----------------------------
(***************************************************************************)
(* The environment of the replay: how CMake itself executes a project, as  *)
(* far as variables go.  CMake is not part of this repository; the rules   *)
(* are those design.md, dataflow.rs and their tests take as ground truth.  *)
(*                                                                         *)
(* A frame is one activation of a listfile, function, macro, included      *)
(* file, try_compile project or block().  `tab` is the frame's own table:  *)
(* Inherit (0) where the name is looked up further out, Hidden where the   *)
(* name was unset here, otherwise the write that gave the value, named by  *)
(* its row in var_writes.  `par` are a macro's textual arguments.          *)
(* `copied` are the names whose entry in `tab` CMake copied from further   *)
(* out, which no write of this frame made: all names when a directory is   *)
(* entered, and a name a PARENT_SCOPE write fixed at its old value.  The   *)
(* latter are `raised` too: there the replay shows the new value, the      *)
(* approximation docs/user-guide.md:93 documents.                          *)
(***************************************************************************)
EXTENDS Integers, Sequences, ProjectText

Inherit == 0
Hidden  == -1

VARIABLES
    frames,   \* the call stack, outermost first
    cache,    \* the cache: name -> write, 0 for no entry
    env,      \* set(ENV{}) writes in effect, 0 for the ambient value
    cleared,  \* names unset(X CACHE) removed and no write has put back
    left      \* blocks left since the last traced command

cvars == <<frames, cache, env, cleared, left>>

NoTab == [x \in Names |-> Inherit]

Frame(kind, depth, unit) ==
    [kind |-> kind, depth |-> depth, unit |-> unit, node |-> "none",
     tab |-> NoTab, par |-> NoTab, copied |-> {}, raised |-> {}]

Top == frames[Len(frames)]

MaxOf(S) == CHOOSE n \in S : \A m \in S : m <= n

\* Has the frame a variable table of its own?
Opaque(f) == \/ f.kind \in {"root", "directory", "function", "try_compile"}
             \/ f.kind = "block" /\ NodeVars[f.node]

OpaqueAt(fs) == {i \in DOMAIN fs : Opaque(fs[i])}

Own(fs) == MaxOf(OpaqueAt(fs))

\* A try_compile project is a world of its own.
InTry(fs) == \E i \in DOMAIN fs : fs[i].kind = "try_compile"

WorldStart(fs) ==
    MaxOf({1} \cup {i \in DOMAIN fs : fs[i].kind = "try_compile"})

\* The activation whose text is executing: the topmost frame but for blocks.
Executing(fs) == MaxOf({i \in DOMAIN fs : fs[i].kind # "block"})

Enclosing(fs) == {fs[i].node : i \in (Executing(fs) + 1)..Len(fs)}

\* The innermost table of fs[..k] with an entry for x, 0 when there is none.
Holder(fs, k, x) ==
    MaxOf({0} \cup {i \in WorldStart(fs)..k : Opaque(fs[i]) /\ fs[i].tab[x] # Inherit})

\* The write that gives the normal variable x its value, seen from fs[k];
\* 0 when x is not set.
Normal(fs, k, x) ==
    LET h == Holder(fs, k, x)
    IN  IF h = 0 \/ fs[h].tab[x] = Hidden THEN 0 ELSE fs[h].tab[x]

\* What ${x} stands for in the text being executed: the argument of the macro
\* whose body it is, else the variable, else the cache entry.
Reads(fs, c, x) ==
    LET here == fs[Executing(fs)].par[x]
        var  == Normal(fs, Len(fs), x)
    IN  IF here # 0 THEN here ELSE IF var # 0 THEN var ELSE c[x]

\* A subdirectory starts from a copy of what is visible where it is added.
Closure(fs) ==
    [x \in Names |-> LET v == Normal(fs, Len(fs), x)
                     IN IF v = 0 THEN Hidden ELSE v]

-----------------------------------------------------------------------------
(* The effect of one command on the tables.                                *)

\* PARENT_SCOPE at the top of a project or of a try_compile project only
\* warns.  Elsewhere the current value is first fixed in the current scope.
AtTop(fs) == Own(fs) = WorldStart(fs)

Raise(fs, x, w) ==
    LET c == Own(fs)
        above == MaxOf(OpaqueAt(SubSeq(fs, 1, c - 1)))
        v == Normal(fs, Len(fs), x)
        own == fs[c].tab[x] > 0 /\ x \notin fs[c].copied
        localized == [fs EXCEPT
            ![c].tab[x] = IF v = 0 THEN Hidden ELSE v,
            ![c].copied = IF own THEN @ ELSE @ \cup {x},
            ![c].raised = IF own THEN @ ELSE @ \cup {x}]
    IN  IF AtTop(fs) THEN fs ELSE [localized EXCEPT ![above].tab[x] = w]

FramesAfter(fs, cmd, x, w) ==
    CASE cmd = "set" ->
            [fs EXCEPT ![Own(fs)].tab[x] = w, ![Own(fs)].copied = @ \ {x},
                       ![Own(fs)].raised = @ \ {x}]
      [] cmd = "unset"        -> [fs EXCEPT ![Own(fs)].tab[x] = Hidden]
      [] cmd = "parent_scope" -> Raise(fs, x, w)
      [] OTHER                -> fs

CacheAfter(fs, c, cmd, x, w) ==
    IF InTry(fs) THEN c
    ELSE CASE cmd = "cache"       -> [c EXCEPT ![x] = w]
           [] cmd = "cache_soft"  -> [c EXCEPT ![x] = IF @ = 0 THEN w ELSE @]
           [] cmd = "unset_cache" -> [c EXCEPT ![x] = 0]
           [] OTHER               -> c

EnvAfter(fs, v, cmd, x, w) ==
    IF InTry(fs) THEN v
    ELSE CASE cmd = "set_env"   -> [v EXCEPT ![x] = w]
           [] cmd = "unset_env" -> [v EXCEPT ![x] = 0]
           [] OTHER             -> v

ClearedAfter(fs, cl, cmd, x) ==
    IF InTry(fs) THEN cl
    ELSE CASE cmd = "unset_cache" -> cl \cup {x}
           [] cmd = "cache"       -> cl \ {x}
           [] OTHER               -> cl

-----------------------------------------------------------------------------
(* Where the replay is known to part from CMake.                           *)

\* Frame i has a value of x that a write of its own gave it.
Wrote(fs, i, x) == Opaque(fs[i]) /\ fs[i].tab[x] > 0 /\ x \notin fs[i].copied

\* No frame above i has: a lookup through the frames' own writes reaches i.
Reaches(fs, i, x) == \A j \in (i + 1)..Len(fs) : ~Wrote(fs, j, x)

\* A PARENT_SCOPE write left the old value of x in a frame still in the way.
Approximated(fs, x) ==
    \E i \in DOMAIN fs : x \in fs[i].raised /\ Reaches(fs, i, x)

\* x names an argument of a macro, and the text executing is not the macro's
\* own or a block() in the macro has a variable of that name.
MacroArgMisread(fs, x) ==
    \E i \in DOMAIN fs :
        /\ fs[i].par[x] # 0
        /\ IF i = Executing(fs) THEN ~Reaches(fs, i, x)
           ELSE i < Executing(fs) /\ Reaches(fs, i, x)

\* Unsetting x here hides a value set further out.
HidesOuter(fs, x) ==
    \E i \in WorldStart(fs)..(Own(fs) - 1) : Opaque(fs[i]) /\ fs[i].tab[x] > 0

=============================================================================
