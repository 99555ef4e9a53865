------------------------------ MODULE VtyEdit ------------------------------
(***************************************************************************)
(* The line editor of a VTY (vty.c): what each key does to the input       *)
(* buffer, the cursor, the history, and to the line that the user sees.    *)
(* Operators on the record of a VTY; VtyLine and VtyStream give it keys.   *)
(***************************************************************************)
EXTENDS Integers, Sequences, SequencesExt, FiniteSets, FiniteSetsExt

CONSTANTS
  VTY_BUFSIZ,   \* first size of the input buffer
  VTY_MAXHIST,  \* lines of history
  Words         \* words that completion knows, sequences of characters

VtyEditAssumption == VTY_BUFSIZ \in Nat \ {0} /\ VTY_MAXHIST \in Nat \ {0}

NUL == "0"        \* end of a C string
Junk == "?"       \* memory that nobody wrote
AuthNodes == {"AUTH", "AUTH_ENABLE"}

Fill(c, n) == [i \in 1..n |-> c]

\* A new VTY in a node.  text and col are the line on the user's screen after
\* the prompt; over and hung note a write behind the buffer and an endless loop.
vty_new(node) ==
  [node |-> node, buf |-> Fill(NUL, VTY_BUFSIZ), cp |-> 0, length |-> 0, max |-> VTY_BUFSIZ,
   hist |-> [i \in 0..(VTY_MAXHIST - 1) |-> <<>>], hp |-> 0, hindex |-> 0,
   text |-> <<>>, col |-> 0, over |-> FALSE, hung |-> FALSE]

\* The C string in the buffer.
Line(v) ==
  LET ends == {i \in 1..v.max : v.buf[i] = NUL}
  IN SubSeq(v.buf, 1, IF ends = {} THEN v.max ELSE Min(ends) - 1)

-----------------------------------------------------------------------------
(* The screen.                                                             *)

Show(v, chars) ==
  LET low == SubSeq(v.text, 1, v.col)
      end == v.col + Len(chars)
  IN [v EXCEPT !.text = low \o chars \o SubSeq(v.text, end + 1, Len(v.text)), !.col = end]

\* Nothing is echoed while a password is typed.
vty_write(v, chars) == IF v.node \in AuthNodes THEN v ELSE Show(v, chars)
Backspaces(v, n) == IF v.node \in AuthNodes THEN v ELSE [v EXCEPT !.col = @ - n]

\* A new line with a prompt.
vty_prompt(v) == [v EXCEPT !.text = <<>>, !.col = 0]

-----------------------------------------------------------------------------
(* Moving and changing.                                                    *)

vty_ensure(v, n) ==
  IF v.max <= n THEN [v EXCEPT !.max = 2 * v.max, !.buf = @ \o Fill(Junk, v.max)] ELSE v

\* The buffer with chars written at offset p.
Put(buf, p, chars) ==
  [i \in DOMAIN buf |-> IF i \in (p + 1)..(p + Len(chars)) THEN chars[i - p] ELSE buf[i]]

\* Faulty variant of vty_self_insert: the cursor stays where the echo left it.
vty_self_insertFar(v0, c) ==
  LET v    == vty_ensure(v0, v0.length + 1)
      tail == SubSeq(v.buf, v.cp + 1, v.length)
      w    == [v EXCEPT !.buf = Put(@, v.cp, <<c>> \o tail), !.cp = @ + 1, !.length = @ + 1]
  IN vty_write(w, <<c>> \o tail)

vty_self_insert(v0, c) ==
  LET v    == vty_ensure(v0, v0.length + 1)
      tail == SubSeq(v.buf, v.cp + 1, v.length)
      w    == [v EXCEPT !.buf = Put(@, v.cp, <<c>> \o tail), !.cp = @ + 1, !.length = @ + 1]
  IN Backspaces(vty_write(w, <<c>> \o tail), Len(tail))

vty_self_insert_overwrite(v0, c) ==
  LET v == vty_ensure(v0, v0.length + 1)
  IN vty_write([v EXCEPT !.buf = Put(@, v.cp, <<c>>), !.cp = @ + 1,
                         !.length = IF v.cp + 1 > v.length THEN @ + 1 ELSE @], <<c>>)

\* strcpy of a word and its end, whether it fits or not.
vty_insert_word_overwrite(v, str) ==
  LET w == vty_write(v, str)
  IN [w EXCEPT !.buf = Put(@, v.cp, str \o <<NUL>>), !.over = @ \/ v.cp + Len(str) + 1 > v.max,
               !.cp = @ + Len(str), !.length = v.cp + Len(str)]

\* vty_forward_char and vty_backward_char, repeated until the cursor is at p.
MoveTo(v, p) ==
  IF p >= v.cp THEN [vty_write(v, SubSeq(v.buf, v.cp + 1, p)) EXCEPT !.cp = p]
  ELSE [Backspaces(v, v.cp - p) EXCEPT !.cp = p]

vty_forward_char(v)      == IF v.cp < v.length THEN MoveTo(v, v.cp + 1) ELSE v
vty_backward_char(v)     == IF v.cp > 0 THEN MoveTo(v, v.cp - 1) ELSE v
vty_beginning_of_line(v) == MoveTo(v, 0)
vty_end_of_line(v)       == MoveTo(v, v.length)

\* Where a run of blanks, or of other characters, that starts at p ends.
SkipOn(v, p, blank) ==
  Min({q \in p..v.length : q = v.length \/ (v.buf[q + 1] = " ") # blank})
SkipBack(v, p, blank) ==
  Max({q \in 0..p : q = 0 \/ (v.buf[q] = " ") # blank})

vty_forward_word(v)  == MoveTo(v, SkipOn(v, SkipOn(v, v.cp, FALSE), TRUE))
vty_backward_word(v) == MoveTo(v, SkipBack(v, SkipBack(v, v.cp, TRUE), FALSE))
vty_backward_pure_word(v) == MoveTo(v, SkipBack(v, v.cp, FALSE))

\* ^D on an empty line leaves the node.
vty_down_level(v) == [vty_prompt(v) EXCEPT !.cp = 0]

vty_delete_char(v) ==
  LET rest == SubSeq(v.buf, v.cp + 2, v.length)
      w    == [v EXCEPT !.length = @ - 1, !.buf = Put(@, v.cp, rest \o <<NUL>>)]
  IN IF v.node \in AuthNodes THEN v
     ELSE IF v.length = 0 THEN vty_down_level(v)
     ELSE IF v.cp = v.length THEN v
     ELSE Backspaces(vty_write(w, rest \o <<" ">>), Len(rest) + 1)

vty_delete_backward_char(v) ==
  IF v.cp = 0 THEN v ELSE vty_delete_char(vty_backward_char(v))

vty_kill_line(v) ==
  LET size == v.length - v.cp
  IN IF size = 0 THEN v
     ELSE [Backspaces(vty_write(v, Fill(" ", size)), size) EXCEPT
             !.buf = Put(@, v.cp, Fill(NUL, size)), !.length = v.cp]

vty_kill_line_from_beginning(v) == vty_kill_line(vty_beginning_of_line(v))

\* The loops of the word killers; deleting does nothing while a password is
\* typed, so that the forward one never ends.
Times(Op(_), v, n) == FoldLeft(LAMBDA w, i : Op(w), v, Fill(0, n))
vty_forward_kill_word(v) ==
  LET n == SkipOn(v, SkipOn(v, v.cp, TRUE), FALSE) - v.cp
  IN IF v.node \in AuthNodes /\ n > 0 THEN [v EXCEPT !.hung = TRUE]
     ELSE Times(vty_delete_char, v, n)
vty_backward_kill_word(v) ==
  Times(vty_delete_backward_char, v, v.cp - SkipBack(v, SkipBack(v, v.cp, TRUE), FALSE))

vty_transpose_chars(v) ==
  LET p  == IF v.cp = v.length THEN v.cp - 2 ELSE v.cp - 1
      c1 == v.buf[p + 2]
      c2 == v.buf[p + 1]
  IN IF v.length < 2 \/ v.cp < 1 THEN v
     ELSE vty_self_insert_overwrite(vty_self_insert_overwrite(MoveTo(v, p), c1), c2)

-----------------------------------------------------------------------------
(* History: a ring, written at hindex and looked up at hp.                 *)

vty_redraw_line(v) == [vty_write(v, SubSeq(v.buf, 1, v.length)) EXCEPT !.cp = v.length]

vty_hist_add(v) ==
  LET last == (v.hindex + VTY_MAXHIST - 1) % VTY_MAXHIST
      next == (v.hindex + 1) % VTY_MAXHIST
  IN IF v.length = 0 THEN v
     ELSE IF v.hist[last] # <<>> /\ Line(v) = v.hist[last] THEN [v EXCEPT !.hp = v.hindex]
     ELSE [v EXCEPT !.hist[v.hindex] = Line(v), !.hindex = next, !.hp = next]

vty_history_print(v) ==
  LET w == vty_kill_line_from_beginning(v)
      n == Len(v.hist[v.hp])
  IN vty_redraw_line([w EXCEPT !.buf = Put(@, 0, v.hist[v.hp]), !.cp = n, !.length = n])

vty_next_line(v) ==
  LET try == IF v.hp = VTY_MAXHIST - 1 THEN 0 ELSE v.hp + 1
  IN IF v.hp = v.hindex \/ v.hist[try] = <<>> THEN v ELSE vty_history_print([v EXCEPT !.hp = try])

vty_previous_line(v) ==
  LET try == IF v.hp = 0 THEN VTY_MAXHIST - 1 ELSE v.hp - 1
  IN IF v.hist[try] = <<>> THEN v ELSE vty_history_print([v EXCEPT !.hp = try])

\* The lines that "show history" prints.
show_history(v) ==
  SelectSeq([i \in 1..(VTY_MAXHIST - 1) |-> v.hist[(v.hindex + i) % VTY_MAXHIST]],
            LAMBDA line : line # <<>>)

-----------------------------------------------------------------------------
(* Completion, help, and the ends of a line.                               *)

LastWord(v) == SubSeq(v.buf, SkipBack(v, v.length, FALSE) + 1, v.length)
Common(S) == CHOOSE p \in UNION {{SubSeq(w, 1, n) : n \in 0..Len(w)} : w \in S} :
               /\ \A w \in S : IsPrefix(p, w)
               /\ \A n \in (Len(p) + 1)..Len(CHOOSE w \in S : TRUE) :
                    \E w, x \in S : SubSeq(w, 1, n) # SubSeq(x, 1, n)

\* Tab: the word before the end of the line is replaced by its only
\* continuation or by what all continuations share.
vty_complete_command(v) ==
  LET typed == LastWord(v)
      match == {w \in Words : IsPrefix(typed, w)}
      shown == vty_redraw_line(vty_prompt(v))
      at    == vty_backward_pure_word(shown)
  IN IF v.node \in AuthNodes \/ \A i \in DOMAIN Line(v) : Line(v)[i] = " " THEN v
     ELSE IF Cardinality(match) = 1
          THEN vty_self_insert(vty_insert_word_overwrite(at, CHOOSE w \in match : TRUE), " ")
     ELSE IF match # {} /\ typed # <<>> /\ Len(typed) < Len(Common(match))
          THEN vty_insert_word_overwrite(at, Common(match))
     ELSE shown

vty_describe_command(v) == vty_redraw_line(vty_prompt(v))

Cleared(v) == [v EXCEPT !.cp = 0, !.length = 0, !.buf = Fill(NUL, v.max)]
vty_stop_input(v) == [vty_prompt(Cleared(v)) EXCEPT !.hp = v.hindex]

\* ^Z leaves the configuration; the text stays in the buffer.
vty_end_config(v) == [vty_prompt(v) EXCEPT !.cp = 0]

vty_execute(v) == vty_prompt(Cleared(IF v.node \in AuthNodes THEN v ELSE vty_hist_add(v)))
=============================================================================
