-------------------------------- MODULE Rlc --------------------------------
(***************************************************************************)
(* Reassembly of LLC PDUs from the RLC data blocks of a cell (rlcmac.c).   *)
(* A network sends TBFs: the octets of its PDUs are cut into blocks, with  *)
(* a length indicator for every PDU that ends in a block.  The receiver    *)
(* hears each block, misses it, or hears it again.                         *)
(***************************************************************************)
EXTENDS Integers, Sequences, SequencesExt, FiniteSets

CONSTANTS
  BsnMod,     \* block sequence numbers: 128
  Tfis,       \* number of TFIs: 32
  OLD_TIME,   \* frames after which a block is old
  Size,       \* octets of a block
  Tbfs,       \* per TBF the lengths of its PDUs; TBF k has TFI k - 1
  MaxLost, MaxAgain   \* bounds: blocks missed, blocks heard again

RlcAssumption ==
  /\ BsnMod \in Nat \ {0} /\ Tfis \in Nat \ {0} /\ OLD_TIME \in Nat /\ Size \in Nat \ {0}
  /\ Len(Tbfs) <= Tfis /\ MaxLost \in Nat /\ MaxAgain \in Nat

-----------------------------------------------------------------------------
(* The network.  An octet is its PDU and its place in it.                  *)

Octets(k) == FlattenSeq([p \in DOMAIN Tbfs[k] |->
                           [i \in 1..Tbfs[k][p] |-> [tbf |-> k, pdu |-> p, at |-> i]]])
Blocks(k) == (Len(Octets(k)) + Size - 1) \div Size
Ends(o, k) == o.at = Tbfs[k][o.pdu]

\* Block b of TBF k: its octets, the length indicators of the PDUs that end in
\* it, and whether it is the last (CV = 0 or FBI).
Block(k, b) ==
  LET all  == Octets(k)
      high == IF b * Size + Size < Len(all) THEN b * Size + Size ELSE Len(all)
      data == SubSeq(all, b * Size + 1, high)
      ends == SetToSortSeq({i \in DOMAIN data : Ends(data[i], k)}, <)
      lime(j) == [li |-> IF j = 1 THEN ends[1] ELSE ends[j] - ends[j - 1],
                  m |-> ends[j] < Len(data), e |-> j = Len(ends), used |-> FALSE]
  IN [bsn |-> b % BsnMod, data |-> data, last |-> b + 1 = Blocks(k),
      blocks |-> [j \in DOMAIN ends |-> lime(j)]]

-----------------------------------------------------------------------------
(* The receiver: a TBF descriptor per TFI.                                 *)

NoFrag == [fn |-> 0, last |-> FALSE, data |-> <<>>, blocks |-> <<>>]
NoTbf  == [start |-> 0, last |-> 0, frags |-> [b \in 0..(BsnMod - 1) |-> NoFrag]]

Delta(a, b) == IF a >= b THEN a - b ELSE OLD_TIME + 1   \* unsigned difference
too_old(a, b) == Delta(a, b) > OLD_TIME /\ Delta(b, a) > OLD_TIME
bsn_is_next(a, b) == (a + 1) % BsnMod = b

\* One part of block bsn: it ends the message in the buffer.
Part(bsn, w, i) ==
  LET l   == w.t.frags[bsn].blocks[i]
      seg == SubSeq(w.t.frags[bsn].data, w.off + 1, w.off + l.li)
      msg == w.llc \o seg
  IN IF l.used THEN [w EXCEPT !.llc = <<>>, !.off = @ + l.li]
     ELSE [w EXCEPT !.llc = <<>>, !.prev = bsn, !.out = Append(@, msg), !.off = @ + l.li,
                    !.t.frags[bsn].blocks[i].used = TRUE,
                    !.t.start = IF w.skip THEN @ ELSE bsn]

\* Octets after the last part begin a message.
Spare(bsn, w) ==
  LET f == w.t.frags[bsn]
  IN IF f.blocks[Len(f.blocks)].m /\ Len(f.data) > w.off
     THEN [w EXCEPT !.llc = SubSeq(f.data, w.off + 1, Len(f.data)), !.prev = bsn, !.t.start = bsn]
     ELSE w

\* A block without parts; at the end of the TBF it ends the message too.
Whole(bsn, w) ==
  LET f   == w.t.frags[bsn]
      msg == w.llc \o f.data
  IN IF f.last
     THEN [w EXCEPT !.llc = <<>>, !.prev = bsn, !.out = Append(@, msg), !.t.start = 0,
                    !.t.frags = [b \in DOMAIN @ |-> [@[b] EXCEPT !.data = <<>>, !.blocks = <<>>]]]
     ELSE [w EXCEPT !.llc = msg, !.prev = bsn]

\* Faulty variant: a missing block does not empty the buffer.
WalkOn(w, bsn) ==
  LET f == w.t.frags[bsn]
  IN IF f.data = <<>> THEN w
     ELSE IF f.blocks = <<>> THEN Whole(bsn, [w EXCEPT !.cur = f.fn])
     ELSE Spare(bsn, FoldLeft(LAMBDA x, i : Part(bsn, x, i), [w EXCEPT !.cur = f.fn, !.off = 0],
                              [i \in DOMAIN f.blocks |-> i]))

\* A gap or an old block empties the buffer.
Walk(w, bsn) ==
  LET f   == w.t.frags[bsn]
      gap == [w EXCEPT !.llc = <<>>, !.skip = TRUE]
      x   == [w EXCEPT !.cur = f.fn]
  IN IF f.data = <<>> \/ too_old(w.cur, f.fn) THEN gap
     ELSE IF w.llc # <<>> /\ ~bsn_is_next(w.prev, bsn) THEN [gap EXCEPT !.cur = f.fn]
     ELSE IF f.blocks = <<>> THEN Whole(bsn, x)
     ELSE Spare(bsn, FoldLeft(LAMBDA y, i : Part(bsn, y, i), [x EXCEPT !.off = 0],
                              [i \in DOMAIN f.blocks |-> i]))

\* A window of more than half the numbers is shortened.
Shifted(t) ==
  IF t.last - t.start > BsnMod \div 2 THEN [t EXCEPT !.start = t.last - BsnMod \div 2] ELSE t

\* The descriptor and the messages after a walk from the oldest block to the
\* last one.
process_blocks(t) ==
  LET full  == {d \in 0..(BsnMod - 1) : t.frags[(t.start + d) % BsnMod].data # <<>>}
      first == (t.start + CHOOSE d \in full : \A e \in full : d <= e) % BsnMod
      way   == [d \in 1..((t.last + 1 - first) % BsnMod) |-> (first + d - 1) % BsnMod]
      w     == FoldLeft(Walk, [t |-> [t EXCEPT !.start = first], llc |-> <<>>, prev |-> 0,
                               skip |-> FALSE, cur |-> t.frags[first].fn, off |-> 0, out |-> <<>>],
                        way)
  IN IF full = {} THEN [t |-> t, out |-> <<>>]
     ELSE [t |-> Shifted(w.t), out |-> w.out]

-----------------------------------------------------------------------------

VARIABLES
  table,        \* tbf_table of one direction, by TFI
  fn,           \* frame number
  next,         \* per TBF the block that is sent next
  out,          \* messages given to net_send_llc
  lost, again

vars == <<table, fn, next, out, lost, again>>

\* What a block with number bsn is for a descriptor.
Decision(t, bsn, now) ==
  LET same == Delta(now, t.frags[bsn].fn)
      last == Delta(now, t.frags[t.last].fn)
      d    == bsn - t.last
      half == BsnMod \div 2
  IN IF same > OLD_TIME
     THEN IF last > OLD_TIME THEN "new tbf" ELSE IF d >= 0 \/ d < -half THEN "new" ELSE "duplicate"
     ELSE IF last > OLD_TIME \/ d > 0 THEN "error" ELSE IF d < -half THEN "new" ELSE "duplicate"

\* Faulty variant of Decision: every number is new.
DecisionNew(t, bsn, now) ==
  IF Delta(now, t.frags[t.last].fn) > OLD_TIME THEN "new tbf" ELSE "new"

Store(t, x, now) ==
  process_blocks([t EXCEPT !.last = x.bsn,
                           !.frags[x.bsn] = [fn |-> now, last |-> x.last, data |-> x.data,
                                             blocks |-> x.blocks]])

\* A new TBF closes that of the next TFI.
rlc_data_handler(tfi, x) ==
  LET t     == table[tfi]
      other == (tfi + 1) % Tfis
      o     == table[other]
      close == IF o.frags[o.last].data = <<>> THEN [t |-> o, out |-> <<>>]
               ELSE process_blocks([o EXCEPT !.frags[o.last].last = TRUE])
      r     == Store(NoTbf, x, fn)
      s     == Store(t, x, fn)
      what  == Decision(t, x.bsn, fn)
  IN CASE what = "new tbf" ->
            /\ table' = [[table EXCEPT ![other] = close.t] EXCEPT ![tfi] = r.t]
            /\ out' = out \o close.out \o r.out
       [] what = "new" ->
            table' = [table EXCEPT ![tfi] = s.t] /\ out' = out \o s.out
       [] what = "duplicate" ->
            table' = [table EXCEPT ![tfi].frags[x.bsn].fn = fn] /\ out' = out
       [] what = "error" -> UNCHANGED <<table, out>>

Heard(k) ==
  /\ next[k] < Blocks(k)
  /\ rlc_data_handler(k - 1, Block(k, next[k]))
  /\ next' = [next EXCEPT ![k] = @ + 1] /\ fn' = fn + 1
  /\ UNCHANGED <<lost, again>>

Missed(k) ==
  /\ next[k] < Blocks(k) /\ lost < MaxLost
  /\ next' = [next EXCEPT ![k] = @ + 1] /\ fn' = fn + 1 /\ lost' = lost + 1
  /\ UNCHANGED <<table, out, again>>

\* The network repeats a block of its window.
Repeated(k) ==
  /\ again < MaxAgain
  /\ \E b \in 0..(next[k] - 1) :
       /\ next[k] - b <= BsnMod \div 2
       /\ rlc_data_handler(k - 1, Block(k, b))
  /\ fn' = fn + 1 /\ again' = again + 1
  /\ UNCHANGED <<next, lost>>

Init ==
  /\ table = [i \in 0..(Tfis - 1) |-> NoTbf] /\ fn = OLD_TIME + 1
  /\ next = [k \in DOMAIN Tbfs |-> 0] /\ out = <<>> /\ lost = 0 /\ again = 0

Next == \E k \in DOMAIN Tbfs : Heard(k) \/ Missed(k) \/ Repeated(k)

Spec == Init /\ [][Next]_vars

-----------------------------------------------------------------------------
(* Properties.                                                             *)

Pdu(k, p) == SelectSeq(Octets(k), LAMBDA o : o.pdu = p)

\* Type correctness: the window stays within the numbers, and no message is
\* empty.
TypeOK ==
  /\ \A i \in DOMAIN table : table[i].start \in 0..(BsnMod - 1) /\ table[i].last \in 0..(BsnMod - 1)
  /\ \A i \in DOMAIN out : out[i] # <<>>

\* Whatever is missed and repeated, a message has octets of one PDU, up to its
\* end and without a hole.
OnePdu ==
  \A i \in DOMAIN out :
     \E k \in DOMAIN Tbfs : \E p \in DOMAIN Tbfs[k] : IsSuffix(out[i], Pdu(k, p))

\* No PDU comes out twice.
AtMostOnce == \A i, j \in DOMAIN out : Last(out[i]) = Last(out[j]) => i = j

\* When nothing was missed, every PDU is there, whole, at the end of its TBF.
Complete ==
  \A k \in DOMAIN Tbfs : next[k] = Blocks(k) /\ lost = 0 =>
     \A p \in DOMAIN Tbfs[k] : Pdu(k, p) \in Range(out)

\* A message is a whole PDU.
WholePdu ==
  \A i \in DOMAIN out : \E k \in DOMAIN Tbfs : \E p \in DOMAIN Tbfs[k] : out[i] = Pdu(k, p)
=============================================================================
