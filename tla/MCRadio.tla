------------------------------ MODULE MCRadio -------------------------------
(***************************************************************************)
(* The radio side of the recorder's bursts, part by part: the collection   *)
(* of the bursts of a dedicated channel (Bursts) and of packet blocks      *)
(* (Pdch), the check of the padding of frames (Padding),                   *)
(* the codes (Coding, Viterbi, FireCode), and the RLC blocks put together  *)
(* to PDUs (Rlc).  One part runs; the others rest as they begin.           *)
(***************************************************************************)
EXTENDS Bursts, Pdch, Padding

VARIABLES
  part,                                                \* the part that runs
  word, flips, place, j2, j3, csent,                   \* the codes
  vword, state, soft, vflips, vlost, i, ae,            \* the Viterbi decoder
  wrong, reg, n, pc, index, fixed, ok,                 \* the FIRE code
  table, rfn, next, out, lost, again                   \* RLC

coding_vars  == <<word, flips, place, j2, j3, csent>>
viterbi_vars == <<vword, state, soft, vflips, vlost, i, ae>>
fire_vars    == <<wrong, reg, n, pc, index, fixed, ok>>
rlc_vars     == <<table, rfn, next, out, lost, again>>
vars == <<part, ccch_vars, pdch_vars, pad_vars, coding_vars, viterbi_vars, fire_vars, rlc_vars>>

\* An SDCCH/8 with both directions and its SACCH.
Quad(b, sacch, ul) == [k \in 1..4 |-> [block |-> b, i |-> k - 1, type |-> "SDCCH8_ACCH",
                                       sacch |-> sacch, ul |-> ul]]
Gap(len) == [k \in 1..len |-> <<>>]
Sdcch8 == Quad("sd", FALSE, FALSE) \o Gap(2) \o Quad("sa", TRUE, FALSE) \o Gap(1)
          \o Quad("su", FALSE, TRUE) \o Gap(1)

\* The SACCH/T of a traffic channel with a burst in one frame of three.
Traffic(at, sacch) == [block |-> IF sacch THEN "st" ELSE "tch", i |-> at, type |-> "Bm_ACCHs",
                       sacch |-> sacch, ul |-> FALSE]
SacchT == [k \in 1..12 |-> IF k % 3 = 0 THEN Traffic(k \div 3 - 1, TRUE)
                           ELSE IF k % 3 = 1 THEN Traffic(0, FALSE) ELSE <<>>]
Channels == {Sdcch8, SacchT}

-----------------------------------------------------------------------------
(* The parts.                                                              *)

Codes == INSTANCE Coding WITH
  Words <- {{}, {0, 5, 9, 18, 24}}, MaxFlips <- 2, BurstLen <- 3, MaxPlace <- 700, sent <- csent
Noisy == INSTANCE Viterbi WITH
  Bits <- 5, MaxFlips <- 2, MaxLost <- 0, word <- vword, flips <- vflips, lost <- vlost
Punctured == INSTANCE Viterbi WITH
  Bits <- 3, MaxFlips <- 1, MaxLost <- 2, word <- vword, flips <- vflips, lost <- vlost
Fire == INSTANCE FireCode WITH
  BurstLen <- 11, MaxWrong <- 2
Tbf == INSTANCE Rlc WITH
  BsnMod <- 16, Tfis <- 3, OLD_TIME <- 20, Size <- 2, Tbfs <- << <<3, 1, 1, 5, 2, 4>> >>,
  MaxLost <- 3, MaxAgain <- 2, fn <- rfn

\* The schemes of packet blocks and how they are read, for Pdch.
StealingFlags == Codes!Pattern
Estimate(flags) == Codes!cs_estimate(flags)

ASSUME PartsAssumption ==
  Noisy!ViterbiAssumption /\ Punctured!ViterbiAssumption /\ Fire!FireAssumption /\ Tbf!RlcAssumption

Parts == {"ccch", "pdch", "padding", "codes", "wrong bits", "missing bits", "fire", "rlc"}

Init ==
  /\ part \in Parts
  /\ CcchInit /\ (part # "ccch" => air = Sdcch8 /\ fn = 0)
  /\ PdchInit /\ (part # "pdch" => pfn = 0 /\ cs = 1)
  /\ PadInit /\ (part # "padding" => r["null"] = Unset)
  /\ Codes!Init /\ (part # "codes" => word = {})
  /\ Noisy!Init
  /\ Fire!Init
  /\ Tbf!Init

OnlyCcch    == UNCHANGED <<part, pdch_vars, pad_vars, coding_vars, viterbi_vars, fire_vars, rlc_vars>>
OnlyPdch    == UNCHANGED <<part, ccch_vars, pad_vars, coding_vars, viterbi_vars, fire_vars, rlc_vars>>
OnlyPadding == UNCHANGED <<part, ccch_vars, pdch_vars, coding_vars, viterbi_vars, fire_vars, rlc_vars>>
OnlyCoding  == UNCHANGED <<part, ccch_vars, pdch_vars, pad_vars, viterbi_vars, fire_vars, rlc_vars>>
OnlyViterbi == UNCHANGED <<part, ccch_vars, pdch_vars, pad_vars, coding_vars, fire_vars, rlc_vars>>
OnlyFire    == UNCHANGED <<part, ccch_vars, pdch_vars, pad_vars, coding_vars, viterbi_vars, rlc_vars>>
OnlyRlc     == UNCHANGED <<part, ccch_vars, pdch_vars, pad_vars, coding_vars, viterbi_vars, fire_vars>>

BurstsNext ==
  \/ part = "ccch" /\ process_handle_burst /\ OnlyCcch
  \/ part = "ccch" /\ Miss /\ OnlyCcch
  \/ part = "ccch" /\ Idle /\ OnlyCcch
  \/ part = "pdch" /\ PdchHear /\ OnlyPdch
  \/ part = "pdch" /\ PdchHearIdle /\ OnlyPdch
  \/ part = "pdch" /\ PdchMiss /\ OnlyPdch
  \/ part = "pdch" /\ PdchSilent /\ OnlyPdch
PaddingNext ==
  \/ part = "padding" /\ update_counters /\ OnlyPadding
  \/ part = "padding" /\ SystemInformation /\ OnlyPadding
  \/ part = "padding" /\ SecurityModeCommand /\ OnlyPadding
  \/ part = "padding" /\ CipherModeCommand /\ OnlyPadding
  \/ part = "padding" /\ session_reset /\ OnlyPadding
CodesNext ==
  \/ part = "codes" /\ Codes!Step /\ OnlyCoding
  \/ part = "codes" /\ Codes!Wrong1 /\ OnlyCoding
  \/ part = "wrong bits" /\ Noisy!conv_cch_encode /\ OnlyViterbi
  \/ part = "wrong bits" /\ Noisy!Flip /\ OnlyViterbi
  \/ part = "wrong bits" /\ Noisy!conv_cch_decode /\ OnlyViterbi
  \/ part = "missing bits" /\ Punctured!conv_cch_encode /\ OnlyViterbi
  \/ part = "missing bits" /\ Punctured!Flip /\ OnlyViterbi
  \/ part = "missing bits" /\ Punctured!Lose /\ OnlyViterbi
  \/ part = "missing bits" /\ Punctured!conv_cch_decode /\ OnlyViterbi
  \/ part = "fire" /\ Fire!Shift /\ OnlyFire
  \/ part = "fire" /\ Fire!Check /\ OnlyFire
  \/ part = "fire" /\ Fire!Search /\ OnlyFire
  \/ part = "fire" /\ Fire!FC_check_crc /\ OnlyFire
RlcNext ==
  \/ part = "rlc" /\ Tbf!Heard(1) /\ OnlyRlc
  \/ part = "rlc" /\ Tbf!Missed(1) /\ OnlyRlc
  \/ part = "rlc" /\ Tbf!Repeated(1) /\ OnlyRlc

Next == BurstsNext \/ PaddingNext \/ CodesNext \/ RlcNext

Spec == Init /\ [][Next]_vars

-----------------------------------------------------------------------------
(* Properties; those of Bursts, Pdch and Padding are stated there.         *)

\* The codes correct what they are made for: the Viterbi decoder (viterbi.c) the
\* coded bits received wrong or not at all, the FIRE code (FC_check_crc) a burst
\* of up to eleven bits of which two are wrong, anywhere in the block but for one
\* place: a burst of just eleven bits that begins at bit 2, which the search finds
\* one shift late (crc.c:48), is given on with wrong bits.  (Bursts of twelve bits,
\* for which the code is made, are not corrected.)  Their tables and walks agree with what they compute: parities find bursts of errors, estimates
\* the nearest pattern; interleaving is one to one and puncturing fills the
\* bursts; the blocks of a multiframe do not overlap; the synchronisation burst
\* and the bit order are read back as written.
CodesCorrect ==
  /\ part = "wrong bits"   => Noisy!TypeOK /\ Noisy!Corrects
  /\ part = "missing bits" => Punctured!TypeOK /\ Punctured!Corrects
  /\ part = "fire"         => Fire!TypeOK /\ Fire!Corrects
  /\ part = "codes" => /\ Codes!ParityDetects /\ Codes!Estimates /\ Codes!Interleaves /\ Codes!Punctures
                       /\ Codes!Multiframe /\ Codes!SchRead /\ Codes!BitOrder

\* RLC (process_blocks): a message is the end of one PDU without a hole, none
\* comes out twice, and when no block was missed every PDU is there, whole, at
\* the end of its TBF.
PdusReassembled ==
  part = "rlc" => Tbf!TypeOK /\ Tbf!OnePdu /\ Tbf!AtMostOnce /\ Tbf!Complete
=============================================================================
