------------------------------ MODULE VtyLine ------------------------------
(***************************************************************************)
(* A user edits lines on a VTY: one step per key (the dispatch of vty_read *)
(* for a VTY that is neither in a telnet option nor in an escape).         *)
(***************************************************************************)
EXTENDS VtyEdit

CONSTANTS
  Nodes,    \* nodes the VTY may be in
  Letters,  \* characters that are typed
  Keys,     \* editing keys that are used
  MaxLen    \* bound: text is added only to lines shorter than this

VARIABLES
  v,        \* the VTY
  last      \* the line that was executed last

vars == <<v, last>>

Edit(key) ==
  CASE key = "^A" -> vty_beginning_of_line(v)
    [] key = "^B" -> vty_backward_char(v)
    [] key = "^C" -> vty_stop_input(v)
    [] key = "^D" -> vty_delete_char(v)
    [] key = "^E" -> vty_end_of_line(v)
    [] key = "^F" -> vty_forward_char(v)
    [] key = "^H" -> vty_delete_backward_char(v)
    [] key = "^K" -> vty_kill_line(v)
    [] key = "^N" -> vty_next_line(v)
    [] key = "^P" -> vty_previous_line(v)
    [] key = "^T" -> vty_transpose_chars(v)
    [] key = "^U" -> vty_kill_line_from_beginning(v)
    [] key = "^W" -> vty_backward_kill_word(v)
    [] key = "^Z" -> vty_end_config(v)
    [] key = "ESC b" -> vty_backward_word(v)
    [] key = "ESC f" -> vty_forward_word(v)
    [] key = "ESC d" -> vty_forward_kill_word(v)
    [] key = "?" -> IF v.node \in AuthNodes THEN vty_self_insert(v, "?") ELSE vty_describe_command(v)

Adds == {"?"}

Type(c) ==
  /\ v.length < MaxLen
  /\ v' = vty_self_insert(v, c) /\ UNCHANGED last

Press(key) ==
  /\ key \in Adds => v.length < MaxLen
  /\ v' = Edit(key) /\ UNCHANGED last

Tab ==
  /\ v.length < MaxLen
  /\ v' = vty_complete_command(v) /\ UNCHANGED last

Enter ==
  /\ v' = vty_execute(v)
  /\ last' = IF v.length = 0 \/ v.node \in AuthNodes THEN last ELSE Line(v)

\* What follows a write behind the buffer, an endless loop, or a line without an
\* end is not defined.
Defined == ~v.over /\ ~v.hung /\ v.max = VTY_BUFSIZ

Init == \E n \in Nodes : v = vty_new(n) /\ last = <<>>

Next ==
  /\ Defined
  /\ \/ \E c \in Letters : Type(c)
     \/ \E key \in Keys : Press(key)
     \/ Tab
     \/ Enter

Spec == Init /\ [][Next]_vars

-----------------------------------------------------------------------------
(* Properties.                                                             *)

\* Type correctness: the cursor is in the line and the line, with its end, in
\* the buffer; the history pointers are in the ring.
TypeOK ==
  /\ 0 <= v.cp /\ v.cp <= v.length /\ v.length < v.max /\ Len(v.buf) = v.max
  /\ v.hp \in DOMAIN v.hist /\ v.hindex \in DOMAIN v.hist
  /\ v.text # <<>> => v.node \notin AuthNodes

RECURSIVE Trim(_)
Trim(s) == IF s # <<>> /\ Last(s) = " " THEN Trim(Front(s)) ELSE s

\* What the user sees is what will be executed, with the cursor where the next
\* character goes.
Screen == v.node \notin AuthNodes =>
            Trim(v.text) = Trim(SubSeq(v.buf, 1, v.length)) /\ v.col = v.cp

\* The C string in the buffer ends where the line ends: commands, completion
\* and the history read it up to its end.  The half that vty_ensure adds is not
\* cleared: a line that makes the buffer grow has no end.
Terminated == v.max = VTY_BUFSIZ => Len(Line(v)) = v.length

\* From the newest position, the previous line is the one executed last.
Recall == v.hp = v.hindex /\ last # <<>> => Line(vty_previous_line(v)) = last

\* Going back a line and forward again shows the same line.
Retrace ==
  v.hp # v.hindex /\ vty_previous_line(v) # v
    => vty_next_line(vty_previous_line(v)).hp = v.hp

\* "show history" shows every line that can be recalled.
ShowsAll == \A i \in DOMAIN v.hist : v.hist[i] # <<>> => v.hist[i] \in Range(show_history(v))

\* A completed word fits the buffer.
Fits == ~v.over

\* Every key is done with at some time.
NeverHangs == ~v.hung
=============================================================================
