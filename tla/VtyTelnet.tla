----------------------------- MODULE VtyTelnet -----------------------------
(***************************************************************************)
(* The output of one VTY: the chunks of its buffer (buffer.c), the flags   *)
(* with which its connection waits for the socket (telnet_interface.c) and *)
(* a client that reads when it likes.                                      *)
(***************************************************************************)
EXTENDS Integers, Sequences, SequencesExt

CONSTANTS
  Size,         \* bytes of a chunk
  SockMax,      \* bytes that the socket holds
  Puts,         \* sizes of what is put out
  MaxOut        \* bound: bytes put out

VARIABLES
  b,       \* chunks, each [cp, sp, data]
  when,    \* what the connection waits for
  sock,    \* bytes in the socket
  got,     \* bytes that the client has
  out,     \* number of bytes put out so far; byte n is the number n
  up       \* the connection is there

vars == <<b, when, sock, got, out, up>>

Rest(d) == SubSeq(d.data, d.sp + 1, d.cp)
Bytes(buf) == FoldLeft(LAMBDA x, d : x \o Rest(d), <<>>, buf)

\* Bytes go to the last chunk; a full one is followed by a new one.
buffer_put(buf, p) ==
  LET step(x, y) == IF x = <<>> \/ Last(x).cp = Size
                    THEN Append(x, [cp |-> 1, sp |-> 0, data |-> <<y>>])
                    ELSE [x EXCEPT ![Len(x)].cp = @ + 1, ![Len(x)].data = Append(@, y)]
  IN FoldLeft(step, buf, p)

\* Chunks that are written are given back; a chunk written in part remembers
\* where the rest begins.
Written(buf, n) ==
  LET step(x, i) ==
        IF x.left = 0 THEN x
        ELSE IF x.left < Len(Rest(x.buf[1])) THEN [buf |-> [x.buf EXCEPT ![1].sp = @ + x.left], left |-> 0]
        ELSE [buf |-> Tail(x.buf), left |-> x.left - Len(Rest(x.buf[1]))]
  IN FoldLeft(step, [buf |-> buf, left |-> n], [i \in DOMAIN buf |-> i]).buf

\* buffer_flush_all: buffer_flush_available is called until the buffer is empty
\* or the socket full, however many chunks one writev takes.
Flush(buf, s) ==
  LET p == Bytes(buf)
      n == IF Len(p) < SockMax - Len(s) THEN Len(p) ELSE SockMax - Len(s)
  IN [buf |-> Written(buf, n), sock |-> s \o SubSeq(p, 1, n)]

-----------------------------------------------------------------------------

Numbers(n) == [i \in 1..n |-> out + i]

\* vty_out with its event.
vty_out(n) == b' = buffer_put(b, Numbers(n)) /\ out' = out + n /\ when' = when \union {"write"}

\* Something outside of a command is put out, for example a log line.
Put(n) == out + n <= MaxOut /\ up /\ vty_out(n) /\ UNCHANGED <<sock, got, up>>

\* Faulty variant of FlushTo: the flag is taken down although bytes wait.
FlushToOnce(buf, flags) ==
  LET f == Flush(buf, sock)
  IN b' = f.buf /\ sock' = f.sock /\ when' = flags \ {"write"}

FlushTo(buf, flags) ==
  LET f == Flush(buf, sock)
  IN b' = f.buf /\ sock' = f.sock /\ when' = IF f.buf = <<>> THEN flags \ {"write"} ELSE flags

\* client_data with bytes to read: the command answers, vty_read asks for both
\* events again, and if the socket can be written too, it is flushed.
ReadReady(n) ==
  /\ up /\ "read" \in when /\ out + n <= MaxOut
  /\ LET flags == when \union {"read", "write"}
         buf   == buffer_put(b, Numbers(n))
     IN \/ b' = buf /\ when' = flags /\ UNCHANGED sock
        \/ "write" \in when /\ Len(sock) < SockMax /\ FlushTo(buf, flags)
  /\ out' = out + n /\ UNCHANGED <<got, up>>

\* client_data with a socket that can be written only.
WriteReady ==
  /\ up /\ "write" \in when /\ Len(sock) < SockMax
  /\ FlushTo(b, when)
  /\ UNCHANGED <<got, out, up>>

\* The client reads.
ClientReads ==
  /\ sock # <<>>
  /\ got' = got \o sock /\ sock' = <<>>
  /\ UNCHANGED <<b, when, out, up>>

\* vty_close flushes what the socket takes.  A VTY that ends because the client
\* is gone forgets its output before (buffer_reset).
vty_close ==
  /\ up /\ up' = FALSE
  /\ \/ sock' = Flush(b, sock).sock
     \/ sock' = sock
  /\ b' = <<>> /\ when' = {} /\ UNCHANGED <<got, out>>

Init == b = <<>> /\ when = {"read"} /\ sock = <<>> /\ got = <<>> /\ out = 0 /\ up = TRUE

Next ==
  \/ \E n \in Puts : Put(n) \/ ReadReady(n)
  \/ WriteReady \/ ClientReads \/ vty_close

\* The select loop calls a connection whose event has come; the client reads.
Fairness == WF_vars(WriteReady) /\ WF_vars(ClientReads)

Spec == Init /\ [][Next]_vars /\ Fairness

-----------------------------------------------------------------------------
(* Properties.                                                             *)

\* Type correctness: in a chunk 0 <= sp <= cp <= size, and no chunk is empty.
TypeOK ==
  /\ when \subseteq {"read", "write"} /\ Len(sock) <= SockMax
  /\ \A i \in DOMAIN b : 0 <= b[i].sp /\ b[i].sp < b[i].cp /\ b[i].cp <= Size

\* The bytes come out as they were put in: none lost, repeated or overtaken.
InOrder ==
  LET all == got \o sock \o Bytes(b)
  IN IF up THEN all = [i \in 1..out |-> i] ELSE IsPrefix(all, [i \in 1..out |-> i])

\* What is put out reaches the client of a connection that stays: again and
\* again the client has everything.
Delivered == []<>(~up \/ Len(got) = out)
=============================================================================
