------------------------------- MODULE Coding -------------------------------
(***************************************************************************)
(* The codes of a recorded burst: parity (crc.c), the interleaver          *)
(* (gsm_interleave.c), puncturing (punct.c), the estimates of coding       *)
(* scheme and USF (gprs.c), the synchronisation burst (sch.c), the place   *)
(* of a frame in the multiframe (chan_detect.c) and the bit order of a     *)
(* message (bit_func.c).  The convolutional code is in Viterbi, the        *)
(* correction of control blocks in FireCode.                               *)
(***************************************************************************)
EXTENDS Integers, Sequences, FiniteSets, FiniteSetsExt

-----------------------------------------------------------------------------
(* Parity: the remainder of a block after division by a polynomial.  A     *)
(* block is the set of its places that are 1, a polynomial the set of its  *)
(* places, the highest power first.                                        *)

Poly(n, powers) == {n - p : p \in powers}
Ccitt == [size |-> 16, at |-> Poly(16, {16, 12, 5, 0})]
Sch   == [size |-> 10, at |-> Poly(10, {10, 8, 6, 5, 4, 2, 0})]

\* One place of the long division.
Subtract(buf, k, poly) == IF k \in buf THEN SymDiff(buf, {k + i : i \in poly.at}) ELSE buf
Remainder(buf, dsize, poly) ==
  LET R[k \in 0..dsize] == IF k = 0 THEN buf ELSE Subtract(R[k - 1], k - 1, poly)
  IN R[dsize]
Parity(dsize, poly) == dsize..(dsize + poly.size - 1)

\* The parity bits of a block are the inverted remainder.
parity_encode(data, dsize, poly) == Parity(dsize, poly) \ Remainder(data, dsize, poly)
parity_check(word, dsize, poly) == Remainder(word, dsize, poly) = Parity(dsize, poly)

-----------------------------------------------------------------------------
(* Interleaving: bit k of a coded block is bit j of burst B.               *)

Column(k) == 2 * ((49 * k) % 57) + (k % 8) \div 4
sacch_map(k) == (k % 4) * 114 + Column(k)
facch_map(k) == (k % 8) * 114 + Column(k)

\* Puncturing: the coded bits that are not sent.
Punct2 == {4 * j + 3 : j \in (3..146) \ {12 * n - 3 : n \in 1..12}}
Punct3 == {6 * j + 3 : j \in 2..111} \cup {6 * j + 5 : j \in 2..111}

\* The walks over the coded bits: bit i is skipped when it is the punctured bit j
\* stands for, and j goes on to the next one.
Skips2 == {9, 21, 33, 45, 57, 69, 81, 93, 105, 117, 129, 141}
fill_punct_cs2(i, j) ==
  [sent |-> j < 147 /\ i # 4 * j + 3,
   j |-> IF i # 4 * j + 3 THEN j ELSE IF j + 1 \in Skips2 THEN j + 2 ELSE j + 1]
fill_punct_cs3(i, j) ==
  [sent |-> j >= 112 \/ i \notin {6 * j + 3, 6 * j + 5},
   j |-> IF j < 112 /\ i = 6 * j + 5 THEN j + 1 ELSE j]

-----------------------------------------------------------------------------
(* Estimates of what the receiver knows up to a few bits.                  *)

Pattern == << <<1, 1, 1, 1, 1, 1, 1, 1>>, <<1, 1, 0, 0, 1, 0, 0, 0>>,
              <<0, 0, 1, 0, 0, 0, 0, 1>>, <<0, 0, 0, 1, 0, 1, 1, 0>> >>
distance(a, b) == Cardinality({i \in DOMAIN b : a[i] # b[i]})
Nearer(i, j, flags) == IF distance(flags, Pattern[j]) < distance(flags, Pattern[i]) THEN j ELSE i
cs_estimate(flags) ==
  Nearer(Nearer(IF distance(flags, Pattern[1]) < distance(flags, Pattern[2]) THEN 1 ELSE 2, 3, flags), 4, flags)

Usf6 == << <<0, 0, 0, 0, 0, 0>>, <<0, 0, 1, 0, 1, 1>>, <<0, 1, 0, 1, 1, 0>>, <<0, 1, 1, 1, 0, 1>>,
           <<1, 0, 0, 1, 0, 1>>, <<1, 0, 1, 1, 1, 0>>, <<1, 1, 0, 0, 1, 1>>, <<1, 1, 1, 0, 0, 0>> >>
Usf12 == << <<0, 0, 0, 0, 0, 0, 0, 0, 0, 0, 0, 0>>, <<0, 0, 0, 0, 1, 1, 0, 1, 1, 1, 0, 1>>,
            <<0, 0, 1, 1, 0, 1, 1, 1, 0, 1, 1, 0>>, <<0, 0, 1, 1, 1, 0, 1, 0, 1, 0, 1, 1>>,
            <<1, 1, 0, 1, 0, 0, 0, 0, 1, 0, 1, 1>>, <<1, 1, 0, 1, 1, 1, 0, 1, 0, 1, 1, 0>>,
            <<1, 1, 1, 0, 0, 1, 1, 1, 1, 1, 0, 1>>, <<1, 1, 1, 0, 1, 0, 1, 0, 0, 0, 0, 0>> >>
Nearest(bits, codes) == Min({u \in 1..8 : \A v \in 1..8 : distance(bits, codes[u]) <= distance(bits, codes[v])}) - 1
usf6_estimate(bits)  == Nearest(bits, Usf6)
usf12_estimate(bits) == Nearest(bits, Usf12)

-----------------------------------------------------------------------------
(* The synchronisation burst: 25 bits and 10 parity bits, coded like a     *)
(* control block, given on only when no bit was wrong.                     *)

Field(d, places) == SumSet({2^(Len(places) - i) : i \in {j \in DOMAIN places : places[j] \in d}})
SchFields(d) ==
  [ncc |-> Field(d, <<7, 6, 5>>), bcc |-> Field(d, <<4, 3, 2>>),
   t1 |-> Field(d, <<1, 0, 15, 14, 13, 12, 11, 10, 9, 8, 23>>),
   t2 |-> Field(d, <<22, 21, 20, 19, 18>>),
   t3 |-> 10 * Field(d, <<17, 16, 24>>) + 1]
\* The word the decoder found, and the errors it counted on the way.
decode_sch(word, errors) ==
  IF errors > 0 \/ ~parity_check(word, 25, Sch) THEN <<>> ELSE <<SchFields(word)>>

-----------------------------------------------------------------------------
(* The block that starts in a frame of the 51-multiframe; <<>> when none   *)
(* does.                                                                   *)

bcch_detect(fn, combined) ==
  LET f == fn % 51
      sub == IF fn % 102 >= 51 THEN 2 ELSE 0
      t == CASE f \in {2, 6} -> <<"BCCH", 0>>
             [] f \in {12, 16} -> <<"CCCH", 0>>
             [] f = 22 -> <<"SDCCH", 0>> [] f = 26 -> <<"SDCCH", 1>>
             [] f = 32 -> <<"SDCCH", 2>> [] f = 36 -> <<"SDCCH", 3>>
             [] f = 42 -> <<"SACCH", sub>> [] f = 46 -> <<"SACCH", 1 + sub>>
             [] OTHER -> <<>>
  IN IF t # <<>> /\ ~combined /\ t[1] \in {"SDCCH", "SACCH"} THEN <<"CCCH", t[2]>> ELSE t

xcch_detect(fn) ==
  LET f == fn % 51
      sub == IF fn % 102 >= 51 THEN 4 ELSE 0
  IN IF f > 47 \/ f % 4 # 0 THEN <<>>
     ELSE IF f < 32 THEN <<"SDCCH", f \div 4>> ELSE <<"SACCH", (f - 32) \div 4 + sub>>

chan_detect(fn, ts, combined) == IF ts = 0 THEN bcch_detect(fn, combined) ELSE xcch_detect(fn)

-----------------------------------------------------------------------------
(* Bit order: the places that are 1 in the octets of a message.            *)

PlaceIn(i, lsb) == IF lsb THEN i % 8 ELSE 7 - (i % 8)
expand(octets, size, lsb) == {i \in 0..(size - 1) : (octets[i \div 8 + 1] \div 2^PlaceIn(i, lsb)) % 2 = 1}
\* The bits beyond the size of the block are left as they are in the octets.
compress(bits, octets, size, lsb) ==
  [o \in DOMAIN octets |->
     SumSet({2^PlaceIn(i, lsb) : i \in {j \in (8 * (o - 1))..(8 * o - 1) :
        IF j < size THEN j \in bits ELSE (octets[o] \div 2^PlaceIn(j, lsb)) % 2 = 1}})]

-----------------------------------------------------------------------------
(***************************************************************************)
(* The codes over bounded inputs: words that grow bit by bit and errors    *)
(* put into the coded word one after the other; bursts of errors at every  *)
(* place of a full block; every frame and every place of a block.          *)
(***************************************************************************)

CONSTANTS
  Words,      \* data of blocks, sets of places that are 1
  MaxFlips,   \* bound: bits received wrong
  BurstLen,   \* bound: length of a burst of errors
  MaxPlace    \* bound: last place looked at

VARIABLES word,    \* the data that is sent
          flips,   \* places received wrong, counted from the place looked at
          place,   \* place of the block or the frame looked at
          j2, j3, sent   \* the walks of the puncturing: next bits to leave out, bits sent

vars == <<word, flips, place, j2, j3, sent>>

Init == /\ word \in Words /\ flips = {} /\ place = 0
        /\ j2 = 3 /\ j3 = 2 /\ sent = [cs2 |-> 0, cs3 |-> 0]
\* The next place; the walks of the puncturing go along.
Step == /\ place < MaxPlace /\ flips = {} /\ place' = place + 1 /\ UNCHANGED <<word, flips>>
        /\ j2' = fill_punct_cs2(place, j2).j /\ j3' = fill_punct_cs3(place, j3).j
        /\ sent' = [cs2 |-> IF place < 588 /\ fill_punct_cs2(place, j2).sent THEN sent.cs2 + 1 ELSE sent.cs2,
                    cs3 |-> IF place < 676 /\ fill_punct_cs3(place, j3).sent THEN sent.cs3 + 1 ELSE sent.cs3]
\* One more bit of a burst of errors that begins at the place looked at.
Wrong1 == \E p \in 0..(BurstLen - 1) :
           /\ Cardinality(flips) < MaxFlips /\ (flips = {} => p = 0) /\ \A q \in flips : q < p
           /\ flips' = flips \cup {p} /\ UNCHANGED <<word, place, j2, j3, sent>>
Next == Step \/ Wrong1
Spec == Init /\ [][Next]_vars

At == {place + p : p \in flips}           \* the bits that are wrong
Flipped(bits, wrong) == [i \in DOMAIN bits |-> IF i - 1 \in wrong THEN 1 - bits[i] ELSE bits[i]]

-----------------------------------------------------------------------------
\* The parities of packet blocks and synchronisation bursts accept what was
\* encoded with them and find every burst of wrong bits.
ParityDetects ==
  \A poly \in {Ccitt, Sch} :
     LET bits == word \cap (0..24)
         out  == SymDiff(bits \cup parity_encode(bits, 25, poly), At)
     IN place + BurstLen <= 25 + poly.size => (parity_check(out, 25, poly) <=> flips = {})

\* A coding scheme is recognised with up to two of eight flags wrong, a USF with
\* one wrong bit of six or two wrong bits of twelve, when they lie within
\* BurstLen of each other.
Estimates ==
  /\ \A c \in 1..4 : At \subseteq 0..7 => cs_estimate(Flipped(Pattern[c], At)) = c
  /\ \A u \in 0..7 : /\ Cardinality(flips) <= 1 => usf6_estimate(Flipped(Usf6[u + 1], At)) = u
                     /\ usf12_estimate(Flipped(Usf12[u + 1], At)) = u

\* Interleaving spreads a block over all bits of four bursts, a FACCH message
\* over the even half of four bursts and the odd half of the next four.
Interleaves ==
  place < 456 =>
    /\ \E k \in 0..455 : sacch_map(k) = place
    /\ \A k \in 0..455 : k # place => facch_map(k) # facch_map(place)
    /\ (facch_map(place) % 114) % 2 = (IF facch_map(place) \div 114 < 4 THEN 0 ELSE 1)

\* Every coded bit is either sent or one the standard leaves out, and what is
\* sent fills the four bursts.
Punctures ==
  /\ place < 588 => (fill_punct_cs2(place, j2).sent <=> place \notin Punct2)
  /\ place < 676 => (fill_punct_cs3(place, j3).sent <=> place \notin Punct3)
  /\ place = 588 => sent.cs2 = 456
  /\ place = 676 => sent.cs3 = 456

\* The blocks of a multiframe do not overlap, and every subchannel has its turn:
\* in 102 frames an SDCCH twice and an SACCH once.
Multiframe ==
  \A ts \in {0, 1} : \A combined \in BOOLEAN :
    LET at(f) == chan_detect(f, ts, combined)
        subs == IF ts = 1 THEN 0..7 ELSE IF combined THEN 0..3 ELSE {}
    IN /\ at(place) # <<>> => \A d \in 1..3 : at(place + d) = <<>>
       /\ place = 0 => \A s \in subs : /\ Cardinality({f \in 0..101 : at(f) = <<"SDCCH", s>>}) = 2
                                       /\ Cardinality({f \in 0..101 : at(f) = <<"SACCH", s>>}) = 1

-----------------------------------------------------------------------------
(* Synchronisation bursts.  The layout of their 25 bits: the fields with    *)
(* the most significant bit first, cut into octets that are sent with the   *)
(* least significant bit first.                                             *)

Msb(n, w, off) == {off + i : i \in {k \in 0..(w - 1) : (n \div 2^(w - 1 - k)) % 2 = 1}}
SchMessage(f) ==
  {IF i < 24 THEN 8 * (i \div 8) + 7 - (i % 8) ELSE 24 :
     i \in Msb(f.ncc, 3, 0) \cup Msb(f.bcc, 3, 3) \cup Msb(f.t1, 11, 6) \cup Msb(f.t2, 5, 17)
           \cup Msb(f.t3 \div 10, 3, 22)}
Cell == [ncc |-> place % 8, bcc |-> (place * 3) % 8, t1 |-> (place * 409) % 2048, t2 |-> place % 26,
         t3 |-> 10 * (place % 5) + 1]
\* The identity and the frame number of a synchronisation burst are read as they
\* were sent; a burst in which a wrong bit is left gives nothing.
SchRead ==
  LET d == SchMessage(Cell)
  IN decode_sch(SymDiff(d \cup parity_encode(d, 25, Sch), {(place + p) % 35 : p \in flips}), 0)
       = (IF flips = {} THEN <<Cell>> ELSE <<>>)

\* The bits of a message are written back where they were read from; bits beyond
\* the size of the block stay as they were.
Octets == <<place % 256, 255 - (place % 256), (place * 7) % 256>>
BitOrder == \A lsb \in BOOLEAN : \A size \in {5, 8, 19, 24} :
               /\ compress(expand(Octets, size, lsb), Octets, size, lsb) = Octets
               /\ expand(compress(expand(Octets, size, lsb), <<255, 0, 255>>, size, lsb), size, lsb)
                    = expand(Octets, size, lsb)

TwoWords == {{}, {0, 5, 9, 18, 24}}
=============================================================================
