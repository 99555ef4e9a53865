-------------------------------- MODULE Pdch --------------------------------
(***************************************************************************)
(* Collection of the four bursts of a radio block on a packet channel      *)
(* (process_pdch in gprs.c).  A multiframe of 13 frames has three blocks   *)
(* of four frames and a frame without a block, in which other bursts may   *)
(* be heard.  The place of a burst in its block follows from its frame     *)
(* number; the recorder may miss any burst.  The coding scheme is read     *)
(* from the eight stealing flags of the block.  In this commit the call of *)
(* process_pdch (process.c) is a comment.                                  *)
(***************************************************************************)
EXTENDS Integers, Sequences, FiniteSets

CONSTANTS
  Frames,           \* frames of the recording's clock, a multiple of 13
  PdchMaxMiss,      \* bound: bursts missed
  IdleHeard,        \* whether bursts of the thirteenth frame are heard
  SchemeFlags,      \* the stealing flags of each coding scheme, and
  SchemeOf(_)       \* the scheme read from flags (see Coding)

ASSUME PdchAssumption ==
  /\ Frames \in Nat \ {0} /\ Frames % 13 = 0
  /\ PdchMaxMiss \in Nat /\ IdleHeard \in BOOLEAN
  /\ \A c \in 1..4 : /\ SchemeFlags[c] \in Seq({0, 1}) /\ Len(SchemeFlags[c]) = 8
                     /\ SchemeOf(SchemeFlags[c]) = c

VARIABLES
  pfn,      \* the frame on the air
  cs,       \* coding scheme of the block on the air
  pbb,      \* bursts in the buffer of this timeslot and direction
  dec,      \* what the last step gave: [msg, scheme, len], msg <<>> when nothing
  heard,    \* bursts of this block heard, negative after a miss or a burst of the idle frame
  before,   \* whether the block before it was heard whole
  skipped   \* bursts missed so far

pdch_vars == <<pfn, cs, pbb, dec, heard, before, skipped>>

-----------------------------------------------------------------------------
\* Octets of a block with each scheme.
LenOf == <<23, 33, 39, 53>>

Place == (pfn % 13) % 4
Idle13 == pfn % 13 = 12
PdchBurst == [fn |-> pfn, i |-> Place, idle |-> Idle13, cs |-> cs,
              flags |-> SubSeq(SchemeFlags[cs], 2 * Place + 1, 2 * Place + 2)]

\* The decoder accepts the bursts of one block under its own scheme.  A block
\* of CS1 is never decoded: its bits go to decode_signalling as they are, not
\* as the soft bits it takes.
Decodes(q, scheme) == scheme # 1 /\ \A k \in 1..4 : ~q[k].idle /\ q[k].cs = scheme /\ q[k].fn - q[1].fn = k - 1

NoBlock == [msg |-> <<>>, scheme |-> 0, len |-> 0]

\* A burst that is not at the place of the next one is dropped.
Aligned(q, b) == IF b.i # Len(q) THEN q ELSE Append(q, b)

Scheme(q) == SchemeOf(q[1].flags \o q[2].flags \o q[3].flags \o q[4].flags)
Decoded(q, scheme) == [msg |-> q, scheme |-> scheme,
                       len |-> IF Decodes(q, scheme) THEN LenOf[scheme] ELSE 0]

\* Faulty variant: the buffer is emptied only after a block that decodes.
BlockKept(q) == IF Decoded(q, Scheme(q)).len > 0 THEN <<>> ELSE q
Block(q) == <<>>

\* Four bursts make a block, decoded or not.
process_pdch(q) ==
  IF Len(q) < 4 THEN pbb' = q /\ dec' = NoBlock
  ELSE pbb' = Block(q) /\ dec' = Decoded(q, Scheme(q))

-----------------------------------------------------------------------------
PdchInit == /\ pfn \in 0..(Frames - 1) /\ cs \in 1..4
            /\ pbb = <<>> /\ dec = NoBlock /\ heard = -4 /\ before = FALSE /\ skipped = 0

\* The next frame; a block begins with its scheme.
Tick == /\ pfn' = (pfn + 1) % Frames
        /\ IF (pfn + 1) % 13 \in {0, 4, 8}
           THEN cs' \in 1..4 ELSE UNCHANGED cs

\* Between blocks: how much of the last one was heard.
Count(n) == /\ heard' = IF Place = 0 THEN (IF n > 0 THEN n ELSE -4) ELSE heard + n
            /\ before' = IF Place = 0 THEN heard = 4 ELSE before

PdchHear == /\ ~Idle13
            /\ process_pdch(Aligned(pbb, PdchBurst)) /\ Count(1) /\ Tick /\ UNCHANGED skipped
PdchHearIdle == /\ Idle13 /\ IdleHeard
                /\ process_pdch(Aligned(pbb, PdchBurst)) /\ heard' = -4 /\ Tick
                /\ UNCHANGED <<before, skipped>>
PdchMiss == /\ ~Idle13 /\ skipped < PdchMaxMiss
            /\ skipped' = skipped + 1 /\ Count(-4) /\ dec' = NoBlock /\ Tick /\ UNCHANGED pbb
PdchSilent == /\ Idle13 /\ dec' = NoBlock /\ Tick /\ UNCHANGED <<pbb, heard, before, skipped>>

PdchNext == PdchHear \/ PdchHearIdle \/ PdchMiss \/ PdchSilent
PdchSpec == PdchInit /\ [][PdchNext]_pdch_vars

-----------------------------------------------------------------------------
PdchTypeOK == /\ pfn \in 0..(Frames - 1) /\ cs \in 1..4 /\ skipped \in 0..PdchMaxMiss
              /\ Len(pbb) <= 3 /\ \A k \in DOMAIN pbb : pbb[k].i = k - 1
              /\ dec.len \in {0} \cup {LenOf[k] : k \in 1..4}

\* All four bursts of a block were heard, the last of them in this step.
HeardWhole == heard = 4 /\ pfn % 13 \in {4, 8, 12}
\* The four bursts are those of the block that has just been heard.
WholeBlock(q) == \A k \in 1..4 : q[k].fn = pfn - 5 + k /\ ~q[k].idle

\* The collector cannot lose its place for good: a block heard whole after
\* another that was heard whole is given to the decoder of the scheme it was
\* sent with, whatever was missed, or heard between blocks, earlier.
Resync == HeardWhole /\ before =>
             /\ dec # NoBlock /\ dec.scheme = dec.msg[1].cs /\ WholeBlock(dec.msg)
             /\ dec.len = IF dec.scheme = 1 THEN 0 ELSE LenOf[dec.scheme]

\* Packet blocks (process_pdch): the buffer never overflows, and a block heard
\* whole after another that was heard whole is given in one piece to the decoder
\* of the scheme it was sent with, whatever was missed before.  It is decoded
\* when that is CS2, CS3 or CS4; no block of CS1 is, whose bits gprs.c:171 does
\* not make soft.
PdchResync == PdchTypeOK /\ Resync
=============================================================================
