------------------------------ MODULE PatchText ------------------------------
(***************************************************************************)
(* The texts `modernize --fix` writes: the deletion of a command and the   *)
(* insertions next to target definitions (delete_node_patch and            *)
(* insertion_edit of crates/cmakedb-passes/src/modernize.rs), merged       *)
(* (cmakedb-record/src/verify.rs) and applied to a text                    *)
(* (crates/cmakedb-patch/src/lib.rs).                                      *)
(*                                                                         *)
(* A text is a sequence of symbols: commands, blanks, newlines and the     *)
(* symbols of comments.  An offset counts the symbols before it, so the    *)
(* command at position i is the range i-1 .. i.                            *)
(***************************************************************************)
EXTENDS Naturals, Sequences, FiniteSets, SequencesExt

CONSTANTS Blank, Newline

Edit(start, end, replacement) == [start |-> start, end |-> end, replacement |-> replacement]

-----------------------------------------------------------------------------
(* Planning.                                                               *)

AllBlank(text, from, to) == \A i \in (from + 1)..to : text[i] = Blank

\* After the last newline before an offset.
LineStart(text, at) ==
    LET before == {i \in 1..at : text[i] = Newline}
    IN  IF before = {} THEN 0 ELSE CHOOSE i \in before : \A j \in before : j <= i

\* Before the first newline after an offset.
LineEnd(text, at) ==
    LET after == {i \in (at + 1)..Len(text) : text[i] = Newline}
    IN  IF after = {} THEN Len(text) ELSE (CHOOSE i \in after : \A j \in after : i <= j) - 1

\* Slip: what follows the command on its line is not looked at.
SlipDeleteNode(text, i) ==
    LET end == LineEnd(text, i) IN
    IF AllBlank(text, LineStart(text, i - 1), i - 1)
    THEN Edit(LineStart(text, i - 1), IF end < Len(text) THEN end + 1 ELSE end, <<>>)
    ELSE Edit(i - 1, i, <<>>)

\* The whole line of a command that is alone on it.  The last symbol of a text
\* without a final newline is taken for the newline.
DeleteNode(text, i) ==
    LET start == LineStart(text, i - 1)
        end   == LineEnd(text, i)
        next  == IF end < Len(text) THEN end + 1 ELSE end
    IN  IF /\ AllBlank(text, start, i - 1)
           /\ AllBlank(text, i, IF next - 1 > i THEN next - 1 ELSE i)
        THEN Edit(start, next, <<>>)
        ELSE Edit(i - 1, i, <<>>)

\* A line of its own after the command at i, with the indentation of its line.
Insertion(text, i, call) ==
    LET start  == LineStart(text, i - 1)
        indent == CHOOSE n \in 0..(i - 1 - start) :
                    /\ AllBlank(text, start, start + n)
                    /\ start + n < i - 1 => text[start + n + 1] # Blank
        at     == LineEnd(text, i)
    IN  Edit(at, at, <<Newline>> \o [k \in 1..indent |-> Blank] \o <<call>>)

-----------------------------------------------------------------------------
(* Application.                                                            *)

\* The edits of all patches, by where they begin; those that begin at the same
\* place in the order they were planned.
Merged(patches) ==
    LET all   == FlattenSeq(patches)
        order == SetToSortSeq(DOMAIN all, LAMBDA i, j :
                    all[i].start < all[j].start \/ (all[i].start = all[j].start /\ i < j))
    IN  [k \in DOMAIN all |-> all[order[k]]]

Overlapping(edits) == \E i \in 1..(Len(edits) - 1) : edits[i].end > edits[i + 1].start

OutOfBounds(text, edits) == \E i \in DOMAIN edits : edits[i].end > Len(text)

\* The text as edited; edits that overlap or exceed it are an error.
Applies(text, edits) == ~Overlapping(edits) /\ ~OutOfBounds(text, edits)

ApplyTo(text, edits) ==
    LET done == FoldLeft(LAMBDA acc, e :
                    [out    |-> acc.out \o SubSeq(text, acc.cursor + 1, e.start) \o e.replacement,
                     cursor |-> e.end],
                    [out |-> <<>>, cursor |-> 0], edits)
    IN  done.out \o SubSeq(text, done.cursor + 1, Len(text))

=============================================================================
