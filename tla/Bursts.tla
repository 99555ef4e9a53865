------------------------------- MODULE Bursts -------------------------------
(***************************************************************************)
(* Collection of the bursts of a block (process.c, ccch.c).                *)
(*                                                                         *)
(* The recorder reports the bursts of one dedicated channel, in both       *)
(* directions, in the order of their frames; it may miss any of them.  The *)
(* bits of a burst are its identity: four bursts decode when they are the  *)
(* four of one block, in order (see Coding for the code itself).  FACCH    *)
(* messages are not modelled: process_handle_burst does not call           *)
(* process_tch, and process_tch gives hard bits to a decoder of soft ones. *)
(***************************************************************************)
EXTENDS Integers, Sequences

CONSTANTS
  MaxFN,     \* frames of a hyperframe: 2048 * 26 * 51
  Airs,      \* the channels: what is sent in a frame, a sequence that repeats,
             \* <<>> or [block, i, type, sacch, ul], burst i of a block
  MaxMiss    \* bound: bursts missed

Bm   == "Bm_ACCHs"                  \* traffic channel
Dcch == {"SDCCH4_ACCH", "SDCCH8_ACCH", "BCCH"}
Buffers == {"sdcch", "sacch", "saccht_dl", "saccht_ul"}

\* The buffer a burst belongs to; none for bursts of a traffic channel that
\* are not SACCH/T.
BufferOf(b) ==
  CASE b.type = Bm /\ b.sacch  -> {IF b.ul THEN "saccht_ul" ELSE "saccht_dl"}
    [] b.type \in Dcch         -> {IF b.sacch THEN "sacch" ELSE "sdcch"}
    [] OTHER                   -> {}

-----------------------------------------------------------------------------
(* The channels.                                                           *)

\* Burst i of a block, as it is sent.
OnAir == [block : STRING, i : 0..3, type : Dcch \cup {Bm}, sacch : BOOLEAN, ul : BOOLEAN]

\* Position k of a, d frames later.
Seat(a, k, d) == IF k + d <= Len(a) THEN k + d ELSE k + d - Len(a)

\* A burst for buffer x, and the first one from position k on, d frames later.
For(a, k, x) == a[k] # <<>> /\ x \in BufferOf(a[k])
FirstFor(a, k, x, d) == For(a, Seat(a, k, d), x) /\ \A e \in 0..(d - 1) : ~For(a, Seat(a, k, e), x)

\* After a burst comes the next one of its block, at once on a dedicated channel,
\* and after the last of a block the first of another one.  The directions do not
\* follow each other without a frame between them.
Channel(a) ==
  /\ Len(a) > 0
  /\ \A k \in 1..Len(a) : a[k] # <<>> => a[k] \in OnAir /\ (BufferOf(a[k]) = {} => a[k].i = 0)
  /\ \A k \in 1..Len(a), x \in Buffers : For(a, k, x) =>
       LET next == Seat(a, k, 1)
       IN /\ \A d \in 0..(Len(a) - 1) : FirstFor(a, next, x, d) =>
               LET b == a[Seat(a, next, d)]
               IN /\ b.i = (a[k].i + 1) % 4
                  /\ b.i # 0 => b.block = a[k].block
          /\ a[k].type \in Dcch /\ a[k].i # 3 => For(a, next, x)
          /\ a[k].type \in Dcch /\ For(a, next, x) => a[next].ul = a[k].ul

ASSUME BurstsAssumption ==
  /\ MaxFN \in Nat \ {0} /\ MaxMiss \in Nat
  /\ \A a \in Airs :
       /\ a \in Seq({<<>>} \cup OnAir)
       /\ Channel(a)
       \* a hyperframe is a whole number of the channel's multiframes
       /\ Len(a) <= MaxFN
       /\ \A f \in 0..(MaxFN - 1) : ((f + 1) % MaxFN) % Len(a) = ((f % Len(a)) + 1) % Len(a)

-----------------------------------------------------------------------------
(* Signalling blocks.                                                      *)

VARIABLES
  air,     \* the channel, one of Airs
  fn,      \* the frame on the air
  bb,      \* per buffer the bursts it holds
  msg,     \* bursts given to try_decode in the last step, <<>> when none
  run,     \* bursts of the current block heard without a miss, per block
  whole,   \* whether the last step was the last burst of a block heard without a miss
  missed   \* bursts missed so far

ccch_vars == <<air, fn, bb, msg, run, whole, missed>>

At(f) == (f % Len(air)) + 1
Sent == air[At(fn)]
Burst == [fn |-> fn, block |-> Sent.block, i |-> Sent.i, ul |-> Sent.ul]

Latest(s) == s[Len(s)]
\* Faulty variant: a frame is left out.
FollowsLate(q, b) == b.type = Bm \/ q = <<>> \/ fn = (Latest(q).fn + 2) % MaxFN
\* Bursts of a traffic channel are not checked for their order.
Follows(q, b) == b.type = Bm \/ q = <<>> \/ fn = (Latest(q).fn + 1) % MaxFN

\* A burst that does not follow the last one empties the buffer and is dropped.
process_ccch(q, b) ==
  IF ~Follows(q, b) THEN [q |-> <<>>, m |-> <<>>]
  ELSE IF Len(q) = 3 THEN [q |-> <<>>, m |-> Append(q, Burst)]
  ELSE [q |-> Append(q, Burst), m |-> <<>>]

try_decode(m) == /\ Len(m) = 4
                 /\ \A k \in 1..4 : m[k].i = k - 1 /\ m[k].block = m[1].block
                 /\ \A k \in 2..4 : (m[k].fn - m[1].fn) % MaxFN < Len(air)

Blocks == {air[k].block : k \in {j \in DOMAIN air : air[j] # <<>>}}

\* The next burst of every buffer is the first one of its block.
Between == \A x \in Buffers, d \in 0..(Len(air) - 1) :
              FirstFor(air, At(fn), x, d) => air[Seat(air, At(fn), d)].i = 0

CcchInit == /\ air \in Airs /\ fn \in 0..(MaxFN - 1)      \* the recording begins at any frame
            /\ bb = [x \in Buffers |-> <<>>]
            /\ msg = <<>> /\ run = [b \in Blocks |-> -4] /\ whole = FALSE
            /\ missed = IF Between THEN 0 ELSE 1

process_handle_burst ==
  /\ Sent # <<>>
  /\ run' = [run EXCEPT ![Sent.block] = IF Sent.i = 0 THEN 1 ELSE @ + 1]
  /\ whole' = (Sent.i = 3 /\ run[Sent.block] = 3)
  /\ \/ /\ BufferOf(Sent) = {}
        /\ msg' = <<>> /\ UNCHANGED bb
     \/ \E x \in BufferOf(Sent) :
          /\ msg' = process_ccch(bb[x], Sent).m
          /\ bb'  = [bb EXCEPT ![x] = process_ccch(@, Sent).q]
  /\ fn' = (fn + 1) % MaxFN /\ UNCHANGED <<air, missed>>

Miss == /\ Sent # <<>> /\ missed < MaxMiss
        /\ missed' = missed + 1 /\ msg' = <<>> /\ whole' = FALSE
        /\ run' = [run EXCEPT ![Sent.block] = -4]
        /\ fn' = (fn + 1) % MaxFN /\ UNCHANGED <<air, bb>>

Idle == /\ Sent = <<>>
        /\ msg' = <<>> /\ whole' = FALSE /\ fn' = (fn + 1) % MaxFN
        /\ UNCHANGED <<air, bb, run, missed>>

CcchNext == process_handle_burst \/ Miss \/ Idle
CcchSpec == CcchInit /\ [][CcchNext]_ccch_vars

-----------------------------------------------------------------------------
\* The buffers never hold more than three bursts when one comes in, which
\* process_ccch asserts.
CcchTypeOK == /\ fn \in 0..(MaxFN - 1) /\ missed \in 0..(MaxMiss + 1)
              /\ \A x \in Buffers : Len(bb[x]) <= 3
              /\ Len(msg) \in {0, 4}

\* The bursts given to the decoder as a block of a checked channel are those of
\* four frames in a row, all of one direction: the buffer is shared by the
\* directions and the blocks.
InOrder ==
  msg # <<>> /\ air[At(msg[1].fn)].type # Bm =>
     \A k \in 2..4 : /\ msg[k].fn = (msg[k - 1].fn + 1) % MaxFN
                     /\ msg[k].ul = msg[1].ul

\* Blocks of a dedicated channel: no buffer overflows (process_ccch), what is
\* given to the decoder is four frames in a row of one direction although the
\* directions share a buffer, and a recording that begins between two blocks and
\* misses no burst gives every block to the decoder in one piece.
Lossless == CcchTypeOK /\ InOrder /\ (missed = 0 /\ whole => try_decode(msg))
=============================================================================
