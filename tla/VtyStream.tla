----------------------------- MODULE VtyStream -----------------------------
(***************************************************************************)
(* The bytes of a telnet client as vty_read takes them: telnet options,    *)
(* escape sequences and characters, in reads that may end anywhere.        *)
(***************************************************************************)
EXTENDS VtyEdit

CONSTANTS
  Tokens,      \* what the client sends: characters, escape sequences, options
  NawsLen,     \* TELNET_NAWS_SB_LEN
  MaxBytes     \* bound: bytes of a connection

VARIABLES
  s,        \* the VTY with the state of its telnet decoder
  stream,   \* all bytes that were sent
  unread    \* how many of them wait in the socket

vars == <<s, stream, unread>>

\* cut is kept for the properties: some read ended between a command of telnet and
\* its option.
NoSession == [v |-> vty_new("VIEW"), iac |-> FALSE, sb |-> FALSE, sb_len |-> 0, sb_buf |-> <<>>,
              size |-> <<>>, escape |-> "normal", skip |-> FALSE, cut |-> FALSE]

\* The byte after IAC.  Everything but SB and SE is taken for a command with an
\* option, which is skipped if it is in the same read.
vty_telnet_option(x, b) ==
  CASE b = "SB" -> [x EXCEPT !.sb_len = 0, !.sb_buf = <<>>, !.sb = TRUE]
    [] b = "SE" -> [x EXCEPT !.sb = FALSE,
                             !.size = IF /\ x.sb /\ x.sb_len = NawsLen /\ x.sb_buf[1] = "NAWS"
                                      THEN Tail(x.sb_buf) ELSE @]
    [] OTHER    -> [x EXCEPT !.skip = TRUE]

vty_escape_map(x, b) ==
  [x EXCEPT !.escape = "normal",
            !.v = CASE b = "A" -> vty_previous_line(@)
                    [] b = "B" -> vty_next_line(@)
                    [] b = "C" -> vty_forward_char(@)
                    [] b = "D" -> vty_backward_char(@)
                    [] OTHER   -> @]

PreEscape(x, b) ==
  [x EXCEPT !.escape = IF b = "[" THEN "escape" ELSE "normal",
            !.v = CASE b = "b" -> vty_backward_word(@)
                    [] b = "f" -> vty_forward_word(@)
                    [] b = "d" -> vty_forward_kill_word(@)
                    [] OTHER   -> @]

Unprintable == {"NAWS", "SB", "SE", "WONT", "IAC"}
Plain(x, b) ==
  [x EXCEPT !.v = CASE b = "^A" -> vty_beginning_of_line(@)
                    [] b = "^C" -> vty_stop_input(@)
                    [] b = "CR" -> vty_execute(@)
                    [] b \in Unprintable -> @
                    [] OTHER    -> vty_self_insert(@, b)]

\* One byte, with its successor in the same read.
Byte(x0, b, next) ==
  LET x  == IF b = "IAC" THEN [x0 EXCEPT !.iac = ~@] ELSE x0
  IN IF x0.skip THEN [x0 EXCEPT !.skip = FALSE]
     ELSE IF b = "IAC" /\ x.iac THEN x
     ELSE IF x.sb /\ ~x.iac
          THEN [x EXCEPT !.sb_len = @ + 1,
                         !.sb_buf = IF x.sb_len < NawsLen THEN Append(@, b) ELSE @]
     ELSE IF x.iac THEN [vty_telnet_option(x, b) EXCEPT !.iac = FALSE]
     ELSE IF x.escape = "escape" THEN vty_escape_map(x, b)
     ELSE IF x.escape = "pre" THEN PreEscape(x, b)
     ELSE IF b = "ESC"
          THEN IF next = "[" THEN [x EXCEPT !.escape = "escape", !.skip = TRUE]
               ELSE [x EXCEPT !.escape = "pre"]
     ELSE Plain(x, b)

Bytes(x, buf) ==
  FoldLeft(LAMBDA y, i : Byte(y, buf[i], IF i < Len(buf) THEN buf[i + 1] ELSE "none"), x, [i \in DOMAIN buf |-> i])

\* An option that is not in the read is not skipped in the next one.
ReadDone(x) == [x EXCEPT !.skip = FALSE, !.cut = @ \/ x.skip]

\* Faulty variant of vty_read: an escape sequence is dropped at the end of a
\* read.
vty_readReset(x, buf) == [ReadDone(Bytes(x, buf)) EXCEPT !.escape = "normal"]

vty_read(x, buf) == ReadDone(Bytes(x, buf))

\* A read takes what waits, or as much of it as arrived.
Read ==
  \E n \in 1..unread :
     /\ s' = vty_read(s, SubSeq(stream, Len(stream) - unread + 1, Len(stream) - unread + n))
     /\ unread' = unread - n /\ UNCHANGED stream

Send ==
  \E t \in Tokens :
     /\ Len(stream) + Len(t) <= MaxBytes
     /\ stream' = stream \o t /\ unread' = unread + Len(t) /\ UNCHANGED s

Init == s = NoSession /\ stream = <<>> /\ unread = 0

Next == Read \/ Send

Spec == Init /\ [][Next]_vars

-----------------------------------------------------------------------------
(* Properties.                                                             *)

\* The number and size of the reads do not matter: the VTY is in the state of
\* one read of everything, unless a read ended between a command of telnet and
\* its option, which the next read takes for a key.
Split == ~s.cut => s = vty_read(NoSession, SubSeq(stream, 1, Len(stream) - unread))

\* Nothing of an option reaches the line, with the same exception.
NoOptionText == ~s.cut => \A i \in 1..s.v.length : s.v.buf[i] \notin Unprintable \union {"9", "LINEMODE"}
=============================================================================
