------------------------------- MODULE Viterbi -------------------------------
(***************************************************************************)
(* The convolutional code of the control channels and its soft-decision    *)
(* decoder (viterbi.c, and sch.c for the synchronisation burst).  A word   *)
(* is encoded bit by bit, followed by four tail bits, some coded bits are  *)
(* received wrong or not at all, and the decoder walks over the trellis.   *)
(***************************************************************************)
EXTENDS Integers, Sequences, FiniteSets, FiniteSetsExt

CONSTANTS Bits,       \* bits of a word
          MaxFlips,   \* bound: coded bits received wrong
          MaxLost     \* bound: coded bits not received (punctured)

ViterbiAssumption == Bits \in Nat \ {0} /\ MaxFlips \in Nat /\ MaxLost \in Nat

VARIABLES word,    \* the input bits, tail included
          state,   \* state of the encoder
          soft,    \* the soft bits received
          flips, lost,   \* places received wrong, and not at all
          i,       \* symbols decoded
          ae       \* per state the accumulated error and the path to it

vars == <<word, state, soft, flips, lost, i, ae>>

-----------------------------------------------------------------------------
NextOutput == << <<0, 3>>, <<3, 0>>, <<3, 0>>, <<0, 3>>, <<0, 3>>, <<3, 0>>, <<3, 0>>, <<0, 3>>,
                 <<1, 2>>, <<2, 1>>, <<2, 1>>, <<1, 2>>, <<1, 2>>, <<2, 1>>, <<2, 1>>, <<1, 2>> >>
next_state(s, b) == s \div 2 + 8 * b
Output(s, b) == <<NextOutput[s + 1][b + 1] \div 2, NextOutput[s + 1][b + 1] % 2>>

\* 0 is 127, 1 is -127; a bit that was not received is 0.
Soft(bit) == IF bit = 1 THEN -127 ELSE 127
\* Faulty variant: the difference keeps its sign.
DiffSigned(x, y) == (x - y) \div 2
DIFF(x, y) == ((x - y) * (x - y)) \div 512
MAX_AE == 16777215

\* The predecessor with the least error, the first one when equal.
Survivor(cost) == CHOOSE s \in DOMAIN cost : \A t \in DOMAIN cost :
                     cost[s] < cost[t] \/ (cost[s] = cost[t] /\ s <= t)

Cost(s, b) == ae[s].err + DIFF(Soft(Output(s, b)[1]), soft[2 * i + 1])
                        + DIFF(Soft(Output(s, b)[2]), soft[2 * i + 2])
Reached(s, b, cost) == IF cost >= MAX_AE THEN [err |-> MAX_AE, path |-> <<>>]
                       ELSE [err |-> cost, path |-> Append(ae[s].path, b)]
Advanced(t, pre, b) == LET s == Survivor([p \in pre |-> Cost(p, b)]) IN Reached(s, b, Cost(s, b))

\* The path with the least error, whatever state it ends in.
Found == ae[Min({s \in 0..15 : \A t \in 0..15 : ae[s].err <= ae[t].err})].path

-----------------------------------------------------------------------------
Init == /\ word = <<>> /\ state = 0 /\ soft = <<>> /\ flips = {} /\ lost = {} /\ i = 0
        /\ ae = [s \in 0..15 |-> [err |-> IF s = 0 THEN 0 ELSE MAX_AE, path |-> <<>>]]

\* The next input bit; the last four are 0.
conv_cch_encode == \E b \in {0, 1} :
   /\ Len(word) < Bits + 4 /\ (Len(word) >= Bits => b = 0)
   /\ word' = Append(word, b) /\ state' = next_state(state, b)
   /\ soft' = soft \o [k \in 1..2 |-> Soft(Output(state, b)[k])]
   /\ UNCHANGED <<flips, lost, i, ae>>

Sent == Len(word) = Bits + 4 /\ i = 0
Flip == \E p \in DOMAIN soft :
   /\ Sent /\ lost = {} /\ Cardinality(flips) < MaxFlips /\ \A q \in flips : q < p
   /\ flips' = flips \cup {p} /\ soft' = [soft EXCEPT ![p] = -@]
   /\ UNCHANGED <<word, state, lost, i, ae>>
Lose == \E p \in DOMAIN soft \ flips :
   /\ Sent /\ Cardinality(lost) < MaxLost /\ \A q \in lost : q < p
   /\ lost' = lost \cup {p} /\ soft' = [soft EXCEPT ![p] = 0]
   /\ UNCHANGED <<word, state, flips, i, ae>>

\* One symbol: every state takes the better of its two predecessors.
conv_cch_decode ==
   /\ Len(word) = Bits + 4 /\ i < Len(word) /\ i' = i + 1
   /\ ae' = [t \in 0..15 |-> Advanced(t, {2 * (t % 8), 2 * (t % 8) + 1}, t \div 8)]
   /\ UNCHANGED <<word, state, soft, flips, lost>>

Next == conv_cch_encode \/ Flip \/ Lose \/ conv_cch_decode
Spec == Init /\ [][Next]_vars

-----------------------------------------------------------------------------
\* The least error stays far below MAX_AE, which marks states not reached, and
\* every path has one bit per symbol.
TypeOK == /\ i \in 0..(Bits + 4)
          /\ \A s \in 0..15 : ae[s].err < MAX_AE <=> Len(ae[s].path) = i /\ (i > 0 \/ s = 0)

\* The decoder finds the word although MaxFlips coded bits were wrong and MaxLost
\* were missing.
Corrects == i = Bits + 4 => SubSeq(Found, 1, Bits) = SubSeq(word, 1, Bits)
=============================================================================
