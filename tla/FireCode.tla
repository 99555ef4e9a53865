------------------------------ MODULE FireCode ------------------------------
(***************************************************************************)
(* Correction of a control block: 184 data bits with 40 parity bits of the *)
(* FIRE code (decode_signalling in cch.c, FC_check_crc in crc.c).  The     *)
(* block that is sent is the code word of a block of zeros (the code is    *)
(* linear); a burst of its bits is received wrong, anywhere in the block.  *)
(* The syndrome register is the set of its places that are 1, counted from *)
(* syn_start.                                                              *)
(***************************************************************************)
EXTENDS Integers, FiniteSets, FiniteSetsExt

CONSTANTS BurstLen,   \* bound: length of the burst of wrong bits
          MaxWrong    \* bound: wrong bits

FireAssumption == BurstLen \in Nat \ {0} /\ MaxWrong \in Nat

DATA_BLOCK_SIZE == 184
PARITY_SIZE     == 40
Size            == DATA_BLOCK_SIZE + PARITY_SIZE

VARIABLES
  wrong,   \* bits received wrong
  reg,     \* the syndrome register
  n,       \* bits shifted in, then zeros shifted in
  pc,      \* "shift", "search", "fix", "done"
  index,   \* error_index
  fixed,   \* bits inverted by the correction
  ok       \* whether the block is given on

vars == <<wrong, reg, n, pc, index, fixed, ok>>

-----------------------------------------------------------------------------
Taps    == {3, 17, 23, 26}
Premult == {0, 4, 6, 10, 16, 27, 29, 33, 39}

Fed(r, moved) == IF 39 \in r THEN SymDiff(moved, Taps) ELSE moved
FC_syndrome_shift(r, bit) ==
  IF bit THEN SymDiff(Fed(r, {(k + 1) % 40 : k \in r}), Premult)
  ELSE Fed(r, {(k + 1) % 40 : k \in r})
ErrorCount(r) == Cardinality({k \in r : k < 28})

SynIndex(i) == IF i = 0 THEN 0 ELSE i - 1

\* The bits of the burst that lie in the data; a burst may begin at the end of
\* the word and go on at its start.
Inverted(r, i, syn) ==
  IF i < 184 THEN {j \in i..(i + 11) : j < 184 /\ (39 - j + syn) % 40 \in r}
  ELSE IF i > 212 THEN {j \in 0..(i - 213) : (39 - j - 224 + syn) % 40 \in r}
  ELSE {}

-----------------------------------------------------------------------------
Init == /\ wrong = {} /\ reg = {} /\ n = 0 /\ pc = "shift" /\ index = 0
        /\ fixed = {} /\ ok = FALSE

\* A received bit is shifted in, parity bits inverted.
Shift == /\ pc = "shift" /\ n < Size
         /\ \E bad \in BOOLEAN :
              /\ bad => /\ Cardinality(wrong) < MaxWrong
                        /\ \A w \in wrong : n - w < BurstLen
              /\ wrong' = IF bad THEN wrong \cup {n} ELSE wrong
              /\ reg' = FC_syndrome_shift(reg, bad)
         /\ n' = n + 1 /\ UNCHANGED <<pc, index, fixed, ok>>

\* parity_check: without an error the block is taken as it is.  Otherwise the
\* burst lies at the start of the block, or has to be looked for.
Check == /\ pc = "shift" /\ n = Size
         /\ IF wrong = {} THEN pc' = "done" /\ ok' = TRUE /\ UNCHANGED <<reg, n, index>>
            ELSE /\ UNCHANGED ok
                 /\ IF ErrorCount(reg) = 0 THEN pc' = "fix" /\ UNCHANGED <<reg, n, index>>
                    ELSE pc' = "search" /\ n' = 1 /\ index' = 2 /\ reg' = FC_syndrome_shift(reg, FALSE)
         /\ UNCHANGED <<wrong, fixed>>

\* Zeros are shifted in until the low 28 places are 0.
Search == /\ pc = "search"
          /\ IF index < Size
             THEN /\ reg' = FC_syndrome_shift(reg, FALSE) /\ index' = index + 1 /\ n' = n + 1
                  /\ pc' = IF ErrorCount(reg') = 0 THEN "fix" ELSE pc
             ELSE pc' = "fix" /\ UNCHANGED <<reg, index, n>>
          /\ UNCHANGED <<wrong, fixed, ok>>

FC_check_crc == /\ pc = "fix" /\ pc' = "done"
                /\ ok' = (index # 224)
                /\ fixed' = IF index = 224 THEN {} ELSE Inverted(reg, index, SynIndex(index))
                /\ UNCHANGED <<wrong, reg, n, index>>

Next == Shift \/ Check \/ Search \/ FC_check_crc
Spec == Init /\ [][Next]_vars

-----------------------------------------------------------------------------
TypeOK == /\ reg \subseteq 0..39 /\ fixed \subseteq 0..183 /\ index \in 0..224
          /\ pc \in {"shift", "search", "fix", "done"}

\* A burst of eleven bits that begins at bit 2: it is where it can be corrected
\* after the first zero that is shifted in, when nobody looks.
Overlooked == {2, 12} \subseteq wrong /\ wrong \subseteq 2..12

\* A block with a burst of up to eleven wrong bits is given on, and with exactly
\* its data bits corrected wherever the burst lies, but for one place: there the
\* block is given on with wrong data.
Corrects == pc = "done" => ok /\ (fixed = {w \in wrong : w < 184} <=> ~Overlooked)
=============================================================================
