------------------------------ MODULE MCCodecs ------------------------------
(***************************************************************************)
(* The codecs of libasn1c, part by part: BER decoders that are given their *)
(* input in pieces (Ber), the bit streams of PER and a PER encoding        *)
(* between two sides (PerBits, Uper), XER decoders that are given a        *)
(* document in pieces (Xer).  A type is decoded by its own decoder, which  *)
(* calls that of its elements: the constants Decode and Encode of each     *)
(* module are bound to the dispatchers of that module.                     *)
(***************************************************************************)
EXTENDS Integers, Sequences, TLC

CONSTANTS Null,
          BerDecode(_, _, _, _), BerEncode(_, _, _, _), UperDecode(_, _), UperEncode(_, _),
          XerDecode(_, _, _, _), XerEncode(_, _, _, _), NumDecode(_, _, _, _), NumEncode(_, _, _, _)

VARIABLES
  part,   \* the part that runs; the variables it does not have are 0
  case, fed, used, st, code, po, failed, pd, put, got, puts, gets, open, in, stage, res

vars == <<part, case, fed, used, st, code, po, failed, pd, put, got, puts, gets, open, in, stage,
          res>>

\* NUL and SUB, of the control characters that are written as elements.
Controls == 0 :> <<60, 110, 117, 108, 47, 62>> @@ 26 :> <<60, 115, 117, 98, 47, 62>>

-----------------------------------------------------------------------------
(* The parts.                                                              *)

Whole == INSTANCE Ber WITH
  Decode <- BerDecode, Encode <- BerEncode, Inputs <- "good"
Spoilt == INSTANCE Ber WITH
  Decode <- BerDecode, Encode <- BerEncode, Inputs <- "spoilt"
Runs == INSTANCE PerBits WITH
  TmpSize <- 8, Room <- 9, Few <- {1, 6, 31}, Many <- {13, 45}, MaxPuts <- 3, MaxGets <-
  2, Junk <- {170}
Per == INSTANCE Uper WITH
  Decode <- UperDecode, Encode <- UperEncode, Unit <- 4, MaxFrag <- 2, Long <- 3, MaxNoise
  <- 8, Inputs <- "good"
Noisy == INSTANCE Uper WITH
  Decode <- UperDecode, Encode <- UperEncode, Unit <- 4, MaxFrag <- 2, Long <- 3, MaxNoise
  <- 8, Inputs <- "noise"
Document == INSTANCE Xer WITH
  Decode <- XerDecode, Encode <- XerEncode, LongSize <- 1, Row <- 2, Checked <- FALSE,
  Escapes <- Controls, Inputs <- "good"
Torn == INSTANCE Xer WITH
  Decode <- XerDecode, Encode <- XerEncode, LongSize <- 1, Row <- 2, Checked <- FALSE,
  Escapes <- Controls, Inputs <- "spoilt"
Number == INSTANCE Xer WITH
  Decode <- NumDecode, Encode <- NumEncode, LongSize <- 1, Row <- 2, Checked <- TRUE,
  Escapes <- Controls, Inputs <- "number"

\* The decoder and the encoder of a type, as a td has them.
ber_decoder(td, b, c, d) == LET x == Whole!ber_decoder(td, b, c, d) IN x
der_encoder(td, b, c, d) == LET x == Whole!der_encoder(td, b, c, d) IN x
uper_decoder(td, b) == LET x == Per!uper_decoder(td, b) IN x
uper_encoder(td, b) == LET x == Per!uper_encoder(td, b) IN x
xer_decoder(td, b, c, d) == LET x == Document!xer_decoder(td, b, c, d) IN x
xer_encoder(td, b, c, d) == LET x == Document!xer_encoder(td, b, c, d) IN x
num_decoder(td, b, c, d) == LET x == Number!xer_decoder(td, b, c, d) IN x
num_encoder(td, b, c, d) == LET x == Number!xer_encoder(td, b, c, d) IN x

ASSUME PartsAssumption ==
  /\ Whole!BerStreamAssumption /\ Spoilt!BerStreamAssumption
  /\ Runs!PerBitsAssumption /\ Per!UperNumAssumption /\ Noisy!UperNumAssumption
  /\ Document!XerTextAssumption /\ Document!XerOutAssumption
  /\ Document!XerStreamAssumption /\ Torn!XerTextAssumption /\ Torn!XerOutAssumption
  /\ Torn!XerStreamAssumption /\ Number!XerTextAssumption /\ Number!XerOutAssumption
  /\ Number!XerStreamAssumption

OnlyBer ==
  /\ po = 0 /\ failed = 0 /\ pd = 0 /\ put = 0 /\ got = 0 /\ puts = 0 /\ gets = 0
  /\ open = 0 /\ in = 0 /\ stage = 0 /\ res = 0
OnlyPerBits ==
  /\ case = 0 /\ fed = 0 /\ used = 0 /\ st = 0 /\ code = 0 /\ in = 0 /\ stage = 0
  /\ res = 0
OnlyUper ==
  /\ fed = 0 /\ used = 0 /\ st = 0 /\ code = 0 /\ po = 0 /\ failed = 0 /\ pd = 0
  /\ put = 0 /\ got = 0 /\ puts = 0 /\ gets = 0 /\ open = 0
OnlyXer ==
  /\ po = 0 /\ failed = 0 /\ pd = 0 /\ put = 0 /\ got = 0 /\ puts = 0 /\ gets = 0
  /\ open = 0 /\ in = 0 /\ stage = 0 /\ res = 0

Init ==
  \/ part = "ber" /\ Whole!Init /\ OnlyBer
  \/ part = "spoilt ber" /\ Spoilt!Init /\ OnlyBer
  \/ part = "per bits" /\ Runs!Init /\ OnlyPerBits
  \/ part = "per" /\ Per!Init /\ OnlyUper
  \/ part = "per noise" /\ Noisy!Init /\ OnlyUper
  \/ part = "xer" /\ Document!Init /\ OnlyXer
  \/ part = "spoilt xer" /\ Torn!Init /\ OnlyXer
  \/ part = "xer number" /\ Number!Init /\ OnlyXer

KeepBer ==
  UNCHANGED <<part, po, failed, pd, put, got, puts, gets, open, in, stage, res>>
KeepPerBits ==
  UNCHANGED <<part, case, fed, used, st, code, in, stage, res>>
KeepUper ==
  UNCHANGED <<part, fed, used, st, code, po, failed, pd, put, got, puts, gets, open>>
KeepXer ==
  UNCHANGED <<part, po, failed, pd, put, got, puts, gets, open, in, stage, res>>

WholeNext ==
  \/ part = "ber" /\ Whole!Feed /\ KeepBer
SpoiltNext ==
  \/ part = "spoilt ber" /\ Spoilt!Feed /\ KeepBer
RunsNext ==
  \/ part = "per bits" /\ Runs!PutFew /\ KeepPerBits
  \/ part = "per bits" /\ Runs!PutMany /\ KeepPerBits
  \/ part = "per bits" /\ Runs!Turn /\ KeepPerBits
  \/ part = "per bits" /\ Runs!GetFew /\ KeepPerBits
  \/ part = "per bits" /\ Runs!GetMany /\ KeepPerBits
PerNext ==
  \/ part = "per" /\ Per!Send /\ KeepUper
  \/ part = "per" /\ Per!Cut /\ KeepUper
  \/ part = "per" /\ Per!Follow /\ KeepUper
  \/ part = "per" /\ Per!Receive /\ KeepUper
NoisyNext ==
  \/ part = "per noise" /\ Noisy!Noise /\ KeepUper
  \/ part = "per noise" /\ Noisy!Receive /\ KeepUper
DocumentNext ==
  \/ part = "xer" /\ Document!Feed /\ KeepXer
TornNext ==
  \/ part = "spoilt xer" /\ Torn!Feed /\ KeepXer
NumberNext ==
  \/ part = "xer number" /\ Number!Feed /\ KeepXer

Next == WholeNext \/ SpoiltNext \/ RunsNext \/ PerNext \/ NoisyNext \/ DocumentNext \/
        TornNext \/ NumberNext

Spec == Init /\ [][Next]_vars

-----------------------------------------------------------------------------
(* Properties.                                                             *)

\* For types with one tag, decoding does not depend on how the input is cut, takes
\* one TLV, and gives the value that was encoded, or one whose DER encoding is
\* stable; what is decoded from a spoilt input can be encoded (ber_check_tags, the
\* decoders of the types, their phases and steps kept in asn_struct_ctx_t).
\* Not promised: a type with two tags forgets the lengths and the end marks of the
\* outer one when its input is cut (ber_decoder.c:74, TwoTagsCases), the decoder of a
\* choice never returns from half an end mark (constr_CHOICE.c:324, HangCases), and
\* with an explicit tag a spoilt input may fail or wait, depending on the cut.
BerWhole ==
  /\ part = "ber" => Whole!TypeOK /\ Whole!Restartable /\ Whole!WholeTlv /\ Whole!Decides /\ Whole!RoundTrip
  /\ part = "spoilt ber" => Spoilt!Restartable /\ Spoilt!WholeTlv /\ Spoilt!Encodable

\* Bits come out of the stream as they were put, within what is allocated; a value
\* comes to a side with a newer type as what it is there, a message that lost its
\* end is never taken for a whole or a wrong one, and noise that decodes is a value
\* (per_put_few_bits, per_get_few_bits, uper_decode, uper_open_type_get_simple).
\* A side with an older type gets the value only if there is one addition that it
\* does not know, encoded in a multiple of three octets: uper_sot_suck takes 24 bits
\* at a time and fails on any other (per_opentype.c:280, SkipCases), and the loop
\* over such additions ends at the first (constr_SEQUENCE.c:1208).
PerWhole ==
  /\ part = "per bits" => /\ Runs!TypeOK /\ Runs!SameBits /\ Runs!AllThere /\ Runs!ConsumedIsMoved
                         /\ Runs!WithinAllocated /\ Runs!FailsOnlyWhenFull
  /\ part = "per" => Per!RoundTrip /\ Per!WholeOctets /\ Per!Starves
  /\ part = "per noise" => Noisy!NoFault /\ Noisy!Stable

\* Decoding does not depend on how the document is cut, takes one element, and
\* gives the value that was encoded, by its canonical form too; decimal integers
\* are taken just when they fit, in a build that keeps the check of the product
\* (pxml_parse, xer_decode_general, the decoders of the types, xer_encode).
\* Not promised: an INTEGER that does not fit into a long and whose first octet is
\* written with a letter is read through a null pointer, although the encoder wrote
\* it (INTEGER.c:462, LetterCases); the escape of a control character in an
\* element of that name is taken for its tag (xer_decoder.c:271, SubCases); the
\* encoder of a list of NULL counts too few octets (constr_SET_OF.c:710,
\* CountCases); and a build that drops
\* "new_value / 10 != value" takes integers that do not fit (INTEGER.c:401).
XerWhole ==
  /\ part = "xer" => /\ Document!TypeOK /\ Document!Restartable /\ Document!WholeElement /\ Document!RoundTrip
                    /\ Document!Counted /\ Document!Canonical /\ Document!NoFault
  /\ part = "spoilt xer" => Torn!Restartable /\ Torn!Encodable
  /\ part = "xer number" => Number!Numeral
=============================================================================
