------------------------------- MODULE Lapdm -------------------------------
(***************************************************************************)
(* Reassembly of layer 3 messages from LAPDm frames, on one GSM channel    *)
(* (handle_lapdm of l3_handler.c).  The phone and the network each send a  *)
(* stream of frames per SAPI.  The recording holds the frames of a stream  *)
(* in order, but some are missing and some are there twice, since LAPDm    *)
(* repeats a frame that is not acknowledged.                               *)
(*                                                                         *)
(* A message that is put together is kept as what can be right or wrong    *)
(* about it: its last frame, whether each frame is the one that follows    *)
(* the frame before it, and whether it starts at the start of a message.   *)
(***************************************************************************)
EXTENDS Integers

CONSTANTS
  Links,       \* the streams recorded: records [ul : BOOLEAN, sapi : {0, 3}]
  Unnumbered,  \* the streams among them that carry only UI frames
  Span,        \* bound: a frame is known by its place in the stream modulo Span
  MaxFrag,     \* bound: frames of one message
  MaxLost,     \* bound: frames missing in the recording
  MaxAgain     \* bound: repeated frames and re-established links

ASSUME LapdmAssumption ==
  /\ Links \subseteq [ul : BOOLEAN, sapi : {0, 3}]
  /\ Unnumbered \subseteq Links
  /\ Span \in Nat /\ Span > 8 /\ Span % 8 = 0
  /\ MaxFrag \in Nat \ {0}
  /\ MaxLost \in Nat /\ MaxAgain \in Nat

\* The streams of a slow associated channel.  Downlink: system information and a
\* short message, with a buffer each.  In a call: measurement reports uplink and
\* a short message downlink.
DL0 == [ul |-> FALSE, sapi |-> 0]
UL0 == [ul |-> TRUE, sapi |-> 0]
DL3 == [ul |-> FALSE, sapi |-> 3]
Downlink == {DL0, DL3}
SysInfo  == {DL0}
Call     == {UL0, DL3}
Reports  == {UL0}

VARIABLES
  tx,     \* the frame each sender is at, and whether the recording has it
  mb,     \* the channel's buffers: chan_sdcch, chan_sacch or chan_facch of a session
  out,    \* the last message given to handle_dtap
  lost,
  again

vars == <<tx, mb, out, lost, again>>

-----------------------------------------------------------------------------
(* Frames and buffers.                                                     *)

\* A frame is a record with its link, its kind ("I", "UI" or "SABM"), its
\* place n in the stream, first if a message starts with it, and the bit more
\* that announces further fragments.

\* The sequence number N(S) has three bits.
Ns(f) == f.n % 8

\* f is the frame after g.
Follows(f, g) == f.link = g.link /\ f.n = (g.n + 1) % Span

\* What is in a buffer: intact and follow8 say that each frame follows the
\* one before it, exactly or by its number, whole that the start is there.
NoData == [some |-> FALSE]
Data   == [some : {TRUE}, last : [link : Links, n : 0..(Span - 1)],
           intact : BOOLEAN, follow8 : BOOLEAN, whole : BOOLEAN]
Report == [some : {TRUE}, intact : BOOLEAN, follow8 : BOOLEAN, whole : BOOLEAN]

\* struct lapdm_buf.  oos is no_out_of_seq_sender_msgs, which is only ever
\* compared with 3 and stops there; last_oos is last_out_of_seq_msg_number.
lapdm_buf == [data : Data \cup {NoData}, ns : 0..7, oos : 0..3, last_oos : 0..7 \cup {100}]

\* A buffer after the memset of session_init.
Zeroed == [data |-> NoData, ns |-> 0, oos |-> 0, last_oos |-> 0]

\* handle_radio_msg passes &chan[ul], handle_lapdm takes element !!sapi of it.
Buffers == 0..3

\* Faulty variant of BufferOf: the SAPI is not used.
BufferOfWay(l) == IF l.ul THEN 1 ELSE 0

BufferOf(l) == (IF l.ul THEN 1 ELSE 0) + (IF l.sapi = 3 THEN 1 ELSE 0)

-----------------------------------------------------------------------------
(* handle_lapdm on a buffer b.                                             *)

\* Faulty variant: a frame after the first one out of sequence is accepted.
OutOfSequenceOnce(b, f) ==
  f.kind = "I" /\ b.data.some /\ Ns(f) # (b.ns + 1) % 8 /\ b.oos = 0

\* With a fragment in the buffer an I frame must carry the next number.
OutOfSequence(b, f) ==
  /\ f.kind = "I" /\ b.data.some
  /\ Ns(f) # (b.ns + 1) % 8 \/ b.oos >= 3

\* A frame out of sequence is dropped.  The third one that counts gives up
\* the fragments, at the next end of a message.  The difference of the two
\* numbers is an int: its remainder modulo 8 is the difference itself.
Refuse(b, f) ==
  LET counts == b.last_oos # Ns(f) /\ b.ns - Ns(f) < 2
      oos    == IF counts /\ b.oos < 3 THEN b.oos + 1 ELSE b.oos
  IN IF ~f.more /\ oos >= 3
     THEN [data |-> NoData, ns |-> Ns(f), oos |-> 0, last_oos |-> Ns(f)]
     ELSE [b EXCEPT !.oos = oos, !.last_oos = Ns(f)]

\* Faulty variant of Pass: the number of an I frame is not noted.
PassUnnoted(b, f) ==
  CASE f.kind = "I"    -> [b EXCEPT !.oos = 0, !.last_oos = 100]
    [] f.kind = "SABM" -> [b EXCEPT !.oos = 0, !.data = NoData, !.ns = 0]
    [] f.kind = "UI"   -> b

\* A frame that passes: an I frame sets the number, SABM starts afresh.
Pass(b, f) ==
  CASE f.kind = "I"    -> [b EXCEPT !.oos = 0, !.last_oos = 100, !.ns = Ns(f)]
    [] f.kind = "SABM" -> [b EXCEPT !.oos = 0, !.data = NoData, !.ns = 0]
    [] f.kind = "UI"   -> b

\* Append the payload of f.
Add(b, f) ==
  LET d == b.data
  IN [b EXCEPT !.data =
        [some    |-> TRUE,
         last    |-> [link |-> f.link, n |-> f.n],
         intact  |-> d.some => d.intact /\ Follows(f, d.last),
         follow8 |-> d.some => /\ d.follow8
                               /\ f.link = d.last.link /\ Ns(f) = (Ns(d.last) + 1) % 8,
         whole   |-> IF d.some THEN d.whole ELSE f.first]]

\* The message as handle_dtap gets it.
Given(d) == [some |-> TRUE, intact |-> d.intact, follow8 |-> d.follow8, whole |-> d.whole]

\* A frame that is heard: dropped, kept as a fragment, or the end of a
\* message, which goes to handle_dtap.  S frames, null frames and frames that
\* fail the checks of the header change nothing.
Heard(f) ==
  LET i == BufferOf(f.link)
      b == mb[i]
      a == Add(Pass(b, f), f)
  IN IF OutOfSequence(b, f)
     THEN mb' = [mb EXCEPT ![i] = Refuse(b, f)] /\ UNCHANGED out
     ELSE IF f.more
          THEN mb' = [mb EXCEPT ![i] = a] /\ UNCHANGED out
          ELSE mb' = [mb EXCEPT ![i] = [a EXCEPT !.data = NoData]] /\ out' = Given(a.data)

\* SABM without a payload.
HeardSabm(f) ==
  LET i == BufferOf(f.link)
  IN mb' = [mb EXCEPT ![i] = Pass(mb[i], f)] /\ UNCHANGED out

-----------------------------------------------------------------------------
(* The senders and the recording.                                          *)

\* tx[l].pos is the place of the frame in its message.
Current(l) ==
  [link |-> l, kind |-> IF l \in Unnumbered THEN "UI" ELSE "I", n |-> tx[l].n,
   first |-> tx[l].pos = 1, more |-> tx[l].more]

Sabm(l) == [link |-> l, kind |-> "SABM", n |-> 0, first |-> TRUE, more |-> FALSE]

\* The bit more of the frame at place pos: UI frames are whole messages.
MoreAt(l, pos) == IF l \in Unnumbered \/ pos = MaxFrag THEN {FALSE} ELSE BOOLEAN

Hear(l) ==
  /\ ~tx[l].heard
  /\ Heard(Current(l))
  /\ tx' = [tx EXCEPT ![l].heard = TRUE]
  /\ UNCHANGED <<lost, again>>

HearAgain(l) ==
  /\ tx[l].heard /\ l \notin Unnumbered
  /\ again < MaxAgain
  /\ Heard(Current(l))
  /\ again' = again + 1
  /\ UNCHANGED <<tx, lost>>

\* The sender goes on to the next frame; one that was not heard is lost.
Advance(l, more) ==
  LET pos == IF tx[l].more THEN tx[l].pos + 1 ELSE 1
  IN /\ more \in MoreAt(l, pos)
     /\ tx' = [tx EXCEPT ![l] = [n |-> (tx[l].n + 1) % Span, pos |-> pos,
                                 more |-> more, heard |-> FALSE]]
     /\ UNCHANGED <<mb, out, again>>

NextFrame(l, more) == tx[l].heard /\ Advance(l, more) /\ UNCHANGED lost

Lose(l, more) == ~tx[l].heard /\ lost < MaxLost /\ Advance(l, more) /\ lost' = lost + 1

\* The link is established again; the first message may come in the SABM.
Establish(l, payload, more) ==
  /\ l \notin Unnumbered
  /\ again < MaxAgain
  /\ more \in MoreAt(l, 1)
  /\ tx' = [tx EXCEPT ![l] = [n |-> 0, pos |-> 1, more |-> more, heard |-> FALSE]]
  /\ IF payload THEN Heard(Sabm(l)) ELSE HeardSabm(Sabm(l))
  /\ again' = again + 1
  /\ UNCHANGED lost

Init ==
  /\ \E more \in [Links -> BOOLEAN] :
       /\ \A l \in Links : more[l] \in MoreAt(l, 1)
       /\ tx = [l \in Links |-> [n |-> 0, pos |-> 1, more |-> more[l], heard |-> FALSE]]
  /\ mb = [i \in Buffers |-> Zeroed]
  /\ out = NoData
  /\ lost = 0
  /\ again = 0

Next ==
  \E l \in Links :
    \/ Hear(l)
    \/ HearAgain(l)
    \/ \E more \in BOOLEAN : NextFrame(l, more) \/ Lose(l, more)
    \/ \E payload, more \in BOOLEAN : Establish(l, payload, more)

Spec == Init /\ [][Next]_vars

\* The senders go on, and what is not lost gets into the recording.
Fairness ==
  \A l \in Links : WF_vars(Hear(l)) /\ WF_vars(\E more \in BOOLEAN : NextFrame(l, more))

FairSpec == Spec /\ Fairness

-----------------------------------------------------------------------------
(* Properties.                                                             *)

TypeOK ==
  /\ tx \in [Links -> [n : 0..(Span - 1), pos : 1..MaxFrag, more : BOOLEAN, heard : BOOLEAN]]
  /\ mb \in [Buffers -> lapdm_buf]
  /\ out \in Report \cup {NoData}
  /\ lost \in 0..MaxLost /\ again \in 0..MaxAgain

\* As long as no frame is missing, a message given to handle_dtap consists of
\* frames of one stream, each the one after the other, however the streams
\* interleave and whatever is repeated or re-established.
Intact == out.some /\ lost = 0 => out.intact

\* Whatever is lost, repeated or re-established, the frames of a message given
\* to handle_dtap are of one stream and each carries the number after the one
\* before it, through the wrap from 7 to 0: this is all that three bits can
\* give.  A stale fragment can be joined to a frame eight places further on.
NoGap == out.some => out.follow8

\* The last message given to handle_dtap was whole.
InStep == out.some /\ out.intact /\ out.whole

\* When frames stop being lost, repeated and re-established, reassembly gets
\* back into step: from some point on every message is whole, although a
\* stale fragment can stay in the buffer for a whole round of numbers.
Resync == <>[]InStep
=============================================================================
