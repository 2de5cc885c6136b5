------------------------------- MODULE FileApi -------------------------------
(***************************************************************************)
(* The File API reply of a configure (external), and what ingestion makes  *)
(* of it (crates/cmakedb-db/src/ingest/fileapi.rs): the rows of targets    *)
(* and of usage_reqs with source 'fileapi', joined to the events of the    *)
(* trace by file and line.                                                 *)
(***************************************************************************)
EXTENDS Configure

-----------------------------------------------------------------------------
(* The codemodel.  One compile group stands for those of all languages.    *)

Replied == {t \in Real : ~targets[t].imported /\ targets[t].type # "INTERFACE"}

LinkFragments(t) ==
    {[kind |-> "link", value |-> <<0, l.dst>>, sys |-> FALSE, ev |-> l.ev] :
        l \in world.links[t] \cup UNION {world.ilinks[d] : d \in Closure(t)}}

\* The frames of a backtrace, the call first.  The file that holds the
\* outermost call has a frame without a line.
Backtrace(ev) == <<[file |-> events[ev].c.file, line |-> events[ev].c.line],
                   [file |-> events[ev].c.file, line |-> None]>>

\* Options are the one kind without a backtrace.
Reply(t) ==
    {[kind |-> i.kind, value |-> i.value,
      frames |-> IF i.kind = "option" THEN <<>> ELSE Backtrace(i.ev)] :
        i \in Values(t) \cup LinkFragments(t)}

-----------------------------------------------------------------------------
(* Ingestion.                                                              *)

\* The nearest frame with a line.
ResolveBacktrace(frames) ==
    LET lined == SelectSeq(frames, LAMBDA f : f.line # None)
    IN  IF lined = <<>> THEN None ELSE <<lined[1].file, lined[1].line>>

\* The first event at a place: one call of a line that is executed often.
LookupEvent(site) ==
    LET at == {ev \in DOMAIN events : Site(ev) = site}
    IN  IF at = {} THEN None ELSE CHOOSE ev \in at : \A e \in at : ev <= e

InFileApi(t) == t \in Replied

ApiRows(t) ==
    IF ~InFileApi(t) THEN {}
    ELSE {[kind |-> i.kind, value |-> i.value, ev |-> LookupEvent(ResolveBacktrace(i.frames))] :
            i \in Reply(t)}

=============================================================================
