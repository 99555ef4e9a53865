------------------------------- MODULE Padding -------------------------------
(***************************************************************************)
(* How random the padding of a session's frames is (rand_check.c,          *)
(* update_counters in l3_handler.c): per kind of frame the last padding is *)
(* kept and compared with the next one, from the end.  Composed with what  *)
(* changes the cipher of a session (handle_rr, handle_dcch_dl) and with    *)
(* its reset.                                                              *)
(***************************************************************************)
EXTENDS Integers, Sequences, FiniteSets

CONSTANTS
  Octet,       \* octets of padding; Fill is one of them
  Fill,        \* 0x2b
  SdcchLen,    \* octets of an SDCCH frame after its header: 20
  SacchLen,    \* of an SACCH frame: 18
  SiLen,       \* octets of a system information that are compared: 18
  MaxFrames    \* bound: frames

ASSUME PaddingAssumption ==
  /\ Fill \in Octet /\ "none" \notin Octet /\ MaxFrames \in Nat
  /\ SdcchLen \in Nat \ {0} /\ SacchLen \in 1..SdcchLen /\ SiLen \in 1..SdcchLen

VARIABLES
  cipher,   \* s->cipher: 0 or the algorithm
  r,        \* per kind of frame its rand_state
  fc,       \* frame_count
  asked,    \* predict counted for messages other than frames' padding
  changed,  \* per kind the octets in cipher that were not the last seen at their place
  seen,     \* per kind the last octet seen at each place from the end
  frames, aborted

pad_vars == <<cipher, r, fc, asked, changed, seen, frames, aborted>>

Kinds == {"null", "other_sdcch", "other_sacch", "si"}

-----------------------------------------------------------------------------
Unset == [valid |-> FALSE, ciphered |-> FALSE, data |-> <<>>, byte_count |-> 0, rand_count |-> 0]
rand_init_2b == [Unset EXCEPT !.valid = TRUE, !.data = [i \in 1..SdcchLen |-> Fill]]

End(q, n) == SubSeq(q, Len(q) - n + 1, Len(q))
hamming_distance(a, b) == Cardinality({i \in DOMAIN a : a[i] # b[i]})
Common(s, data) == IF Len(s.data) < Len(data) THEN Len(s.data) ELSE Len(data)

\* Faulty variant: the octets are compared from the start.
DiffHead(s, data, n) == hamming_distance(SubSeq(s.data, 1, n), SubSeq(data, 1, n))

Diff(s, data, n) == hamming_distance(End(s.data, n), End(data, n))
\* The padding replaces the end of what is kept.
Kept(s, data) == IF Len(s.data) >= Len(data) THEN SubSeq(s.data, 1, Len(s.data) - Len(data)) \o data
                  ELSE data

\* The state after a padding, and whether it counts as random; a frame in clear
\* after one in cipher ends the program.
rand_check(s, data, ciphered) ==
  LET n == Common(s, data)
      d == Diff(s, data, n)
      kept == [s EXCEPT !.data = Kept(s, data)]
  IN IF data = <<>> \/ Len(data) > SdcchLen THEN [s |-> s, random |-> FALSE, abort |-> FALSE]
     ELSE IF ~s.valid THEN [s |-> [s EXCEPT !.valid = TRUE, !.ciphered = ciphered, !.data = data],
                            random |-> FALSE, abort |-> FALSE]
     ELSE IF ciphered THEN [s |-> [kept EXCEPT !.ciphered = TRUE, !.rand_count = @ + d, !.byte_count = @ + n],
                            random |-> d > 0, abort |-> FALSE]
     ELSE [s |-> kept, random |-> FALSE, abort |-> s.ciphered]

-----------------------------------------------------------------------------
NoFrames == [enc |-> 0, enc_rand |-> 0, enc_null |-> 0, enc_null_rand |-> 0, enc_si |-> 0,
             enc_si_rand |-> 0, predict |-> 0, unenc |-> 0, unenc_rand |-> 0]
One(b) == IF b THEN 1 ELSE 0

\* The counters after a downlink frame in cipher.
Counted(f, len, dlen, random) ==
  [f EXCEPT !.enc = @ + 1, !.enc_rand = @ + One(random), !.enc_null = @ + One(dlen = 0),
            !.enc_null_rand = @ + One(dlen = 0 /\ random),
            !.enc_si = @ + One(dlen # 0 /\ len = SacchLen),
            !.enc_si_rand = @ + One(dlen # 0 /\ len = SacchLen /\ random),
            !.predict = @ + One(~random /\ (dlen = 0 \/ len = SacchLen))]
InClear(f, random) == [f EXCEPT !.unenc = @ + 1, !.unenc_rand = @ + One(random)]

\* The state a frame's padding is compared with; none without padding.
StateOf(len, dlen) == IF dlen = len THEN {}
                      ELSE IF len = SacchLen THEN {"other_sacch"}
                      ELSE IF dlen = 0 THEN {"null"} ELSE {"other_sdcch"}

Note(old, data) == [k \in 1..SdcchLen |-> IF k <= Len(data) THEN data[Len(data) - k + 1] ELSE old[k]]

Differs(old, data) == Cardinality({i \in 1..Len(data) : old[i] \notin {"none", data[Len(data) - i + 1]}})
Compared(k, data) ==
  /\ changed' = [changed EXCEPT ![k] = IF cipher # 0 /\ Len(data) <= SdcchLen THEN @ + Differs(seen[k], data) ELSE @]
  /\ r' = [r EXCEPT ![k] = rand_check(@, data, cipher # 0).s]
  /\ aborted' = rand_check(r[k], data, cipher # 0).abort
  /\ seen' = [seen EXCEPT ![k] = IF Len(data) \in 1..SdcchLen THEN Note(@, data) ELSE @]

-----------------------------------------------------------------------------
NoneSeen == [k \in 1..SdcchLen |-> "none"]
\* A session that was created, or one of the two that diag_init sets up.
PadInit == /\ cipher = 0 /\ fc = NoFrames /\ asked = 0 /\ changed = [k \in Kinds |-> 0] /\ frames = 0 /\ aborted = FALSE
           /\ \/ r = [k \in Kinds |-> IF k = "si" THEN Unset ELSE rand_init_2b]
                 /\ seen = [k \in Kinds |-> IF k = "si" THEN NoneSeen ELSE [i \in 1..SdcchLen |-> Fill]]
              \/ r = [k \in Kinds |-> Unset] /\ seen = [k \in Kinds |-> NoneSeen]

NextFrame == frames < MaxFrames /\ ~aborted /\ frames' = frames + 1

\* A downlink frame of len octets, dlen of them data; the first octet of the
\* padding is not compared.
update_counters == \E len \in {SdcchLen, SacchLen} : \E dlen \in 0..len :
  /\ NextFrame /\ UNCHANGED <<cipher, asked>>
  /\ \/ /\ StateOf(len, dlen) = {}
        /\ fc' = IF cipher # 0 THEN Counted(fc, len, dlen, FALSE) ELSE InClear(fc, FALSE)
        /\ UNCHANGED <<r, changed, seen, aborted>>
     \/ \E k \in StateOf(len, dlen) : \E pad \in [1..(len - dlen - 1) -> Octet] :
        /\ Compared(k, pad)
        /\ LET random == rand_check(r[k], pad, cipher # 0).random
           IN fc' = IF cipher # 0 THEN Counted(fc, len, dlen, random) ELSE InClear(fc, random)

\* System information 5 or 6: the message itself is compared.
SystemInformation == \E d \in [1..SiLen -> Octet] :
  /\ NextFrame /\ Compared("si", d) /\ UNCHANGED <<cipher, fc, asked>>

\* handle_dcch_dl: refused when the transaction is ciphered already.
MayStart(a) == cipher = 0
SecurityModeCommand == \E a \in 0..1 :
  /\ NextFrame /\ MayStart(a) /\ cipher' = a /\ UNCHANGED <<r, fc, asked, changed, seen, aborted>>

\* handle_rr: ciphering may start or go on, never end; a command that asks for
\* the IMEISV is predictable.
CipherModeCommand == \E start \in BOOLEAN, imeisv \in BOOLEAN :
  /\ NextFrame /\ cipher' = IF start THEN 2 ELSE cipher
  /\ LET p == One(imeisv /\ cipher' # 0 /\ fc.enc_rand = 0)
     IN fc' = [fc EXCEPT !.predict = @ + p] /\ asked' = asked + p
  /\ UNCHANGED <<r, changed, seen, aborted>>

ResetStates == r' = [k \in Kinds |-> Unset] /\ seen' = [k \in Kinds |-> NoneSeen]
session_reset == /\ NextFrame /\ cipher' = 0 /\ fc' = NoFrames /\ asked' = 0 /\ ResetStates
                 /\ changed' = [k \in Kinds |-> 0]
                 /\ UNCHANGED aborted

PadNext == update_counters \/ SystemInformation \/ SecurityModeCommand \/ CipherModeCommand \/ session_reset
PadSpec == PadInit /\ [][PadNext]_pad_vars

-----------------------------------------------------------------------------
PadTypeOK == /\ cipher \in 0..2 /\ frames \in 0..MaxFrames
             /\ \A k \in Kinds : Len(r[k].data) <= SdcchLen /\ r[k].rand_count <= r[k].byte_count

\* What is kept of a kind of frame is, at every place from the end, the octet
\* seen there last, however the lengths of the paddings change.
Remembers == \A k \in Kinds : \A i \in 1..Len(r[k].data) : r[k].data[Len(r[k].data) - i + 1] = seen[k][i]

\* The octets counted as random are those that changed, in cipher, at their place
\* from the end.
Measured == \A k \in Kinds : r[k].rand_count = changed[k]

\* "should never happen": no frame is compared in clear after one in cipher.
NeverAborts == ~aborted

\* Every null frame and system information in cipher counts either as random or
\* as predictable, and nothing else of the padding counts as predictable.
Predictable == fc.predict - asked = (fc.enc_null - fc.enc_null_rand) + (fc.enc_si - fc.enc_si_rand)

\* The check of the padding (update_counters): the octets compared are those seen
\* last at the same place from the end although lengths change, what counts as
\* random is what changed in cipher, the abort that "should never happen" does
\* not, and every null frame and system information counts once.
PaddingMeasured == PadTypeOK /\ Remembers /\ Measured /\ NeverAborts /\ Predictable
=============================================================================
