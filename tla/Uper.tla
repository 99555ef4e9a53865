-------------------------------- MODULE Uper --------------------------------
(***************************************************************************)
(* The unaligned packed encoding rules of libasn1c: lengths and numbers,   *)
(* the decoders and encoders of the types, and messages that follow each   *)
(* other, are cut or are noise. They work on streams of bits as PerBits    *)
(* shows them to be: per_get_few_bits takes bits from the front and gives  *)
(* their value, -1 when there are too few. An encoding is a sequence of    *)
(* bits, or Null when it fails.                                            *)
(***************************************************************************)
EXTENDS Integers, Sequences, FiniteSets, TLC

CONSTANTS Null,
          Unit,      \* bits of the first part of a length (8 in the code)
          MaxFrag,   \* fragments that one length may announce (4 in the code)
          Long       \* octets of a long (8 in the code)

UperNumAssumption == Unit \in 4..8 /\ MaxFrag \in 1..4 /\ MaxFrag < 2 ^ (Unit - 2) /\ Long \in 1..3

Drop(b, n) == SubSeq(b, n + 1, Len(b))
Bits(v, n) == [i \in 1..n |-> (v \div (2 ^ (n - i))) % 2]
Number(s) == LET f[i \in 0 .. Len(s)] == IF i = 0 THEN 0 ELSE 2 * f[i - 1] + s[i] IN f[Len(s)]
Cat(a, b) == IF a = Null \/ b = Null THEN Null ELSE a \o b

per_get_few_bits(b, n) == IF n > Len(b) THEN [v |-> -1, b |-> b] ELSE [v |-> Number(SubSeq(b, 1, n)), b |-> Drop(b, n)]
per_put_few_bits(v, n) == IF n < 0 \/ n > 31 THEN Null ELSE Bits(v, n)

-----------------------------------------------------------------------------
Frag == 2 ^ (2 * Unit - 2)
\* Of a length in ebits bits, or in one or two parts, or of k fragments: more follow.
uper_get_length(b, ebits) ==
  LET f == per_get_few_bits(b, IF ebits >= 0 THEN ebits ELSE Unit)
      k == f.v % (2 ^ (Unit - 2))
      g == per_get_few_bits(f.b, Unit)
      is(v, rest, more) == [v |-> v, b |-> rest, repeat |-> more] IN
  IF ebits >= 0 \/ f.v < 2 ^ (Unit - 1) THEN is(f.v, f.b, FALSE)
  ELSE IF f.v < 3 * 2 ^ (Unit - 2) THEN is(IF g.v < 0 THEN -1 ELSE (k * 2 ^ Unit) + g.v, g.b, FALSE)
  ELSE IF k \notin 1..MaxFrag THEN is(-1, f.b, FALSE)
  ELSE is(Frag * k, f.b, TRUE)

\* Faulty variant: a length of one part only where two are needed.
PutLengthEdge(n) ==
  IF n <= 2 ^ (Unit - 1) THEN [n |-> n, b |-> Bits(n, Unit)]
  ELSE IF n < Frag THEN [n |-> n, b |-> <<1, 0>> \o Bits(n, 2 * Unit - 2)]
  ELSE LET k == IF n \div Frag > MaxFrag THEN MaxFrag ELSE n \div Frag IN
       [n |-> k * Frag, b |-> <<1, 1>> \o Bits(k, Unit - 2)]
\* The length, and how much of n it stands for.
uper_put_length(n) ==
  IF n < 2 ^ (Unit - 1) THEN [n |-> n, b |-> Bits(n, Unit)]
  ELSE IF n < Frag THEN [n |-> n, b |-> <<1, 0>> \o Bits(n, 2 * Unit - 2)]
  ELSE LET k == IF n \div Frag > MaxFrag THEN MaxFrag ELSE n \div Frag IN
       [n |-> k * Frag, b |-> <<1, 1>> \o Bits(k, Unit - 2)]

\* The normally small length of a bit map of extensions.
uper_get_nslength(b) ==
  LET first == per_get_few_bits(b, 1)
      few   == per_get_few_bits(first.b, 6)
      many  == uper_get_length(first.b, -1) IN
  IF first.v = 0 THEN [v |-> IF few.v < 0 THEN -1 ELSE few.v + 1, b |-> few.b]
  ELSE [v |-> IF many.repeat THEN -1 ELSE many.v, b |-> many.b]
uper_put_nslength(n) ==
  IF n = 0 THEN Null
  ELSE IF n <= 64 THEN per_put_few_bits(n - 1, 7)
  ELSE IF uper_put_length(n).n # n THEN Null ELSE uper_put_length(n).b

\* The normally small non-negative whole number of an extension.
uper_get_nsnnwn(b) ==
  LET f == per_get_few_bits(b, 7)
      t == per_get_few_bits(f.b, 2)
      n == ((f.v % 64) * 4) + t.v IN
  IF f.v \in 0..63 THEN f
  ELSE IF f.v < 0 \/ t.v < 0 \/ n >= 3 THEN [v |-> -1, b |-> t.b]
  ELSE IF n = 0 THEN [v |-> 0, b |-> t.b]
  ELSE per_get_few_bits(t.b, 8 * n)
uper_put_nsnnwn(n) ==
  LET bytes == IF n < 256 THEN 1 ELSE IF n < 65536 THEN 2 ELSE 3 IN
  IF n <= 63 THEN (IF n < 0 THEN Null ELSE per_put_few_bits(n, 7))
  ELSE IF n >= 256 * 65536 THEN Null
  ELSE Cat(per_put_few_bits(bytes, 8), per_put_few_bits(n, 8 * bytes))

-----------------------------------------------------------------------------
(* INTEGER_t: octets, the first of which has the sign.                     *)

OctetNumber(o) == LET f[i \in 0 .. Len(o)] == IF i = 0 THEN 0 ELSE 256 * f[i - 1] + o[i] IN f[Len(o)]
OctetsOf(v, n) == [i \in 1..n |-> (v \div (256 ^ (n - i))) % 256]
Redundant(o) == Len(o) > 1 /\ ((o[1] = 0 /\ o[2] < 128) \/ (o[1] = 255 /\ o[2] >= 128))
RECURSIVE Stripped(_)
Stripped(o) == IF Redundant(o) THEN Stripped(Tail(o)) ELSE o

\* Null: the number is too large for a long.
asn_INTEGER2long(o) ==
  LET s == IF Len(o) > Long THEN Stripped(o) ELSE o IN
  IF Len(s) > Long THEN Null
  ELSE IF s = <<>> THEN 0
  ELSE OctetNumber(s) - (IF s[1] >= 128 THEN 256 ^ Len(s) ELSE 0)
asn_INTEGER2ulong(o) ==
  LET more == Len(o) - Long IN
  IF \E i \in 1..more : o[i] # 0 THEN Null ELSE OctetNumber(IF more > 0 THEN Drop(o, more) ELSE o)
asn_long2INTEGER(v) == Stripped(OctetsOf(v % (256 ^ Long), Long))
asn_ulong2INTEGER(v) == IF v < 128 * 256 ^ (Long - 1) THEN asn_long2INTEGER(v) ELSE <<0>> \o OctetsOf(v, Long)

RECURSIVE OctetsToBits(_)
OctetsToBits(o) == IF o = <<>> THEN <<>> ELSE Bits(o[1], 8) \o OctetsToBits(Tail(o))
BitsToOctets(b) == [i \in 1 .. Len(b) \div 8 |-> Number(SubSeq(b, 8 * i - 7, 8 * i))]
\* Filled up with 0 to whole octets, at least one.
Padded(b) == IF b = <<>> THEN Bits(0, 8) ELSE b \o [i \in 1 .. (8 - (Len(b) % 8)) % 8 |-> 0]

-----------------------------------------------------------------------------
(***************************************************************************)
(* The unaligned PER codecs of libasn1c, over small types.  A type has a   *)
(* kind; ct constrains its value and size its size:                        *)
(* [flags, range_bits, effective_bits, lb, ub].  A decoder is given the    *)
(* bits that are left and returns a code, a value and the bits it left.    *)
(* FAULT marks an access outside of a table, which C does not check.       *)
(*                                                                         *)
(* Values: numbers; sequences of octets, bits or elements; for a SEQUENCE  *)
(* its members, Null for one that is absent; <<i, x>> for alternative i of *)
(* a CHOICE.                                                               *)
(***************************************************************************)

CONSTANTS Decode(_, _),   \* td->uper_decoder
          Encode(_, _)    \* td->uper_encoder

OK(v, b) == [code |-> "OK", v |-> v, b |-> b]
Starved(b) == [code |-> "WMORE", v |-> Null, b |-> b]
Failed(b) == [code |-> "FAIL", v |-> Null, b |-> b]
Fault(b) == [code |-> "FAULT", v |-> Null, b |-> b]

None == [flags |-> {}, range_bits |-> -1, effective_bits |-> -1, lb |-> 0, ub |-> 0]
EXT == "APC_EXTENSIBLE"
SEMI == "APC_SEMI_CONSTRAINED"
\* The bit that says whether the value is in the root, and the constraint that is left.
Root(ct, b) == LET e == per_get_few_bits(b, 1) IN
  IF EXT \notin ct.flags THEN [v |-> 0, ct |-> ct, b |-> b]
  ELSE [v |-> e.v, ct |-> IF e.v = 1 THEN None ELSE ct, b |-> e.b]

BOOLEAN_decode_uper(td, b) == LET g == per_get_few_bits(b, 1) IN IF g.v < 0 THEN Starved(b) ELSE OK(g.v, g.b)
BOOLEAN_encode_uper(td, v) == per_put_few_bits(IF v # 0 THEN 1 ELSE 0, 1)
NULL_decode_uper(td, b) == OK(0, b)
NULL_encode_uper(td, v) == <<>>

-----------------------------------------------------------------------------
(* Octets in fragments.                                                    *)

RECURSIVE GetOctets(_, _)
GetOctets(b, got) ==
  LET l == uper_get_length(b, -1) IN
  IF l.v < 0 \/ Len(l.b) < 8 * l.v THEN Starved(l.b)
  ELSE LET all == got \o SubSeq(l.b, 1, 8 * l.v)  rest == Drop(l.b, 8 * l.v) IN
       IF l.repeat THEN GetOctets(rest, all) ELSE OK(all, rest)
\* Units of w bits with lengths in front.
RECURSIVE PutUnits(_, _)
PutUnits(s, w) ==
  IF s = <<>> THEN <<>>
  ELSE LET l == uper_put_length(Len(s) \div w) IN l.b \o SubSeq(s, 1, w * l.n) \o PutUnits(Drop(s, w * l.n), w)

INTEGER_decode_uper(td, b) ==
  LET r == Root(td.ct, b)
      ct == r.ct
      g == IF ct.range_bits = 32
           THEN LET h == per_get_few_bits(r.b, 16)  l == per_get_few_bits(h.b, 16) IN
                [v |-> IF h.v < 0 \/ l.v < 0 THEN -1 ELSE (h.v * 65536) + l.v, b |-> l.b]
           ELSE per_get_few_bits(r.b, ct.range_bits)
      o == GetOctets(r.b, <<>>)
      octets == (IF SEMI \in ct.flags THEN <<0>> ELSE <<>>) \o BitsToOctets(o.v)
      n == asn_INTEGER2long(octets) IN
  IF r.v < 0 THEN Starved(b)
  ELSE IF ct.range_bits >= 0
  THEN IF g.v < 0 THEN Starved(b)
       ELSE OK(IF td.unsigned THEN asn_ulong2INTEGER(g.v + ct.lb) ELSE asn_long2INTEGER(g.v + ct.lb), g.b)
  ELSE IF o.code # "OK" THEN o
  ELSE IF ct.lb = 0 THEN OK(octets, o.b)
  ELSE IF n = Null THEN Failed(o.b) ELSE OK(asn_long2INTEGER(n + ct.lb), o.b)

\* Faulty variant: a number below the range passes for one in the root.
OutOfRangeAbove(ct, v) == IF SEMI \in ct.flags THEN FALSE ELSE ct.range_bits >= 0 /\ v > ct.ub
OutOfRange(ct, v) == IF SEMI \in ct.flags THEN v < ct.lb ELSE ct.range_bits >= 0 /\ (v < ct.lb \/ v > ct.ub)
INTEGER_encode_uper(td, o) ==
  LET v == IF td.unsigned THEN asn_INTEGER2ulong(o) ELSE asn_INTEGER2long(o)
      inext == OutOfRange(td.ct, v)
      ct == IF inext THEN None ELSE td.ct
      root == IF EXT \in td.ct.flags THEN Bits(IF inext THEN 1 ELSE 0, 1) ELSE <<>> IN
  IF o = <<>> \/ v = Null \/ (inext /\ EXT \notin td.ct.flags) THEN Null
  ELSE IF ct.range_bits >= 0
  THEN root \o (IF ct.range_bits = 32 THEN Cat(per_put_few_bits((v - ct.lb) \div 2, 31), per_put_few_bits(v - ct.lb, 1))
                ELSE per_put_few_bits(v - ct.lb, ct.range_bits))
  ELSE IF ct.lb # 0 THEN Null
  ELSE root \o PutUnits(OctetsToBits(o), 8)

NativeInteger_decode_uper(td, b) ==
  LET r == INTEGER_decode_uper(td, b)
      n == IF td.unsigned THEN asn_INTEGER2ulong(r.v) ELSE asn_INTEGER2long(r.v) IN
  IF r.code # "OK" THEN r ELSE IF n = Null THEN Failed(r.b) ELSE OK(n, r.b)
NativeInteger_encode_uper(td, v) == INTEGER_encode_uper(td, IF td.unsigned THEN asn_ulong2INTEGER(v) ELSE asn_long2INTEGER(v))

\* The values of the root come first in td.map; td.extension - 1 is their number.
RootCount(td) == IF td.extension > 0 THEN td.extension - 1 ELSE Len(td.map)
NativeEnumerated_decode_uper(td, b) ==
  LET r == Root(td.ct, b)
      g == per_get_few_bits(r.b, r.ct.range_bits)
      s == uper_get_nsnnwn(r.b)
      pick(v, rest) == IF v + 1 \in DOMAIN td.map THEN OK(td.map[v + 1], rest) ELSE Fault(rest) IN
  IF r.v < 0 THEN Starved(b)
  ELSE IF r.ct.range_bits >= 0
  THEN IF g.v < 0 THEN Starved(b) ELSE IF g.v >= RootCount(td) THEN Failed(g.b) ELSE pick(g.v, g.b)
  ELSE IF td.extension = 0 THEN Failed(r.b)
  ELSE IF s.v < 0 THEN Starved(s.b)
  ELSE IF s.v + td.extension - 1 >= Len(td.map) THEN Failed(s.b) ELSE pick(s.v + td.extension - 1, s.b)
NativeEnumerated_encode_uper(td, v) ==
  LET at == {i \in DOMAIN td.map : td.map[i] = v}
      value == (CHOOSE i \in at : TRUE) - 1
      inext == td.ct.range_bits >= 0 /\ value >= RootCount(td)
      ext == EXT \in td.ct.flags IN
  IF at = {} \/ (inext /\ ~ext) THEN Null
  ELSE Cat(IF ext THEN Bits(IF inext THEN 1 ELSE 0, 1) ELSE <<>>,
           IF td.ct.range_bits >= 0 /\ ~inext THEN per_put_few_bits(value, td.ct.range_bits)
           ELSE IF td.extension = 0 THEN Null
           ELSE uper_put_nsnnwn(value - (IF inext THEN td.extension - 1 ELSE 0)))
\* The same number as octets.
ENUMERATED_decode_uper(td, b) ==
  LET r == NativeEnumerated_decode_uper(td, b) IN IF r.code = "OK" THEN OK(asn_long2INTEGER(r.v), r.b) ELSE r
ENUMERATED_encode_uper(td, o) ==
  LET v == asn_INTEGER2long(o) IN IF v = Null THEN Null ELSE NativeEnumerated_encode_uper(td, v)

-----------------------------------------------------------------------------
(* Strings.  td.alphabet, when it is not empty, maps codes to characters   *)
(* (value2code, code2value).                                               *)

OctetValue == [flags |-> {"APC_CONSTRAINED"}, range_bits |-> 8, effective_bits |-> 8, lb |-> 0, ub |-> 255]
UnitBits(td, cval) == IF td.variant = "BIT" THEN 1 ELSE IF "APC_CONSTRAINED" \in cval.flags THEN cval.range_bits ELSE 8
AsIs(cval, w) == cval.ub <= 2 ^ w
Lowest(cval, w) == IF AsIs(cval, w) THEN 0 ELSE cval.lb
Mapped(td, cval, w) == ~AsIs(cval, w) /\ td.alphabet # <<>>

OCTET_STRING_per_get_characters(td, cval, b, units, w) ==
  LET have == IF w = 0 \/ Len(b) >= units * w THEN units ELSE Len(b) \div w
      code(i) == Number(SubSeq(b, (w * (i - 1)) + 1, w * i))
      bad(i) == IF Mapped(td, cval, w) THEN code(i) + 1 \notin DOMAIN td.alphabet
                ELSE code(i) + Lowest(cval, w) > cval.ub
      plain == ~Mapped(td, cval, w) /\ Lowest(cval, w) = 0 /\ w = 8 IN
  IF w > 16 /\ Mapped(td, cval, w) THEN Failed(b)
  ELSE IF ~plain /\ \E i \in 1..have : bad(i) THEN Failed(b)
  ELSE IF have < units THEN Starved(b)
  ELSE OK([i \in 1..units |-> IF Mapped(td, cval, w) THEN td.alphabet[code(i) + 1] ELSE code(i) + Lowest(cval, w)],
          Drop(b, units * w))
RECURSIVE Flat(_)
Flat(s) == IF s = <<>> THEN <<>> ELSE IF Head(s) = Null THEN Null ELSE Cat(Head(s), Flat(Tail(s)))
OCTET_STRING_per_put_characters(td, cval, s, w) ==
  LET code(ch) == IF Mapped(td, cval, w)
                  THEN IF \E c \in DOMAIN td.alphabet : td.alphabet[c] = ch
                       THEN (CHOOSE c \in DOMAIN td.alphabet : td.alphabet[c] = ch) - 1 ELSE -1
                  ELSE ch - Lowest(cval, w)
      bad(ch) == code(ch) < 0 \/ (~Mapped(td, cval, w) /\ code(ch) > cval.ub - Lowest(cval, w))
      plain == ~Mapped(td, cval, w) /\ Lowest(cval, w) = 0 /\ w = 8 IN
  IF ~plain /\ \E i \in DOMAIN s : bad(s[i]) THEN Null ELSE Flat([i \in DOMAIN s |-> per_put_few_bits(code(s[i]), w)])

GetUnits(td, cval, b, units, w) ==
  IF td.variant # "BIT" THEN OCTET_STRING_per_get_characters(td, cval, b, units, w)
  ELSE IF Len(b) < units THEN Starved(b) ELSE OK(SubSeq(b, 1, units), Drop(b, units))

RECURSIVE StringPieces(_, _, _, _, _, _)
StringPieces(td, cval, csiz, w, b, got) ==
  LET l == uper_get_length(b, csiz.effective_bits)
      g == GetUnits(td, cval, l.b, l.v + csiz.lb, w) IN
  IF l.v < 0 THEN Starved(b)
  ELSE IF g.code # "OK" THEN g
  ELSE IF l.repeat THEN StringPieces(td, cval, csiz, w, g.b, got \o g.v)
  ELSE OK(got \o g.v, g.b)
OCTET_STRING_decode_uper(td, b) ==
  LET r == Root(td.size, b)
      cval == IF r.v = 1 THEN OctetValue ELSE td.ct
      w == UnitBits(td, cval) IN
  IF r.v < 0 THEN Starved(b)
  ELSE IF r.ct.effective_bits = 0 THEN GetUnits(td, cval, r.b, r.ct.ub, w)
  ELSE StringPieces(td, cval, r.ct, w, r.b, <<>>)

PutString(td, cval, s, w) == IF td.variant = "BIT" THEN s ELSE OCTET_STRING_per_put_characters(td, cval, s, w)
OCTET_STRING_encode_uper(td, s) ==
  LET out == td.size.effective_bits >= 0 /\ (Len(s) < td.size.lb \/ Len(s) > td.size.ub)
      ext == EXT \in td.size.flags
      csiz == IF out THEN None ELSE td.size
      cval == IF out THEN OctetValue ELSE td.ct
      w == UnitBits(td, cval)
      all == PutString(td, cval, s, w) IN
  IF (out /\ ~ext) \/ all = Null THEN Null
  ELSE Cat(IF ext THEN Bits(IF out THEN 1 ELSE 0, 1) ELSE <<>>,
           IF csiz.effective_bits >= 0 THEN Cat(per_put_few_bits(Len(s) - csiz.lb, csiz.effective_bits), all)
           ELSE IF s = <<>> THEN uper_put_length(0).b
           ELSE PutUnits(all, w))

-----------------------------------------------------------------------------
(* Open types: the encoding of a value as octets with a length.            *)

uper_open_type_put(td, v) == LET e == Encode(td, v) IN IF e = Null THEN Null ELSE PutUnits(Padded(e), 8)
\* Less than an octet of 0 may be left.
Padding(rest) == Len(rest) < 8 /\ \A i \in DOMAIN rest : rest[i] = 0
uper_open_type_get_simple(td, b) ==
  LET o == GetOctets(b, <<>>)
      r == Decode(td, o.v) IN
  IF o.code # "OK" THEN o
  ELSE IF r.code = "FAULT" THEN r
  ELSE IF r.code = "OK" /\ Padding(r.b) THEN OK(r.v, o.b) ELSE Failed(o.b)
\* uper_sot_suck takes 24 bits at a time.
uper_sot_suck(b) == Drop(b, Len(b) - (Len(b) % 24))
uper_open_type_skip(b) ==
  LET o == GetOctets(b, <<>>) IN
  IF o.code # "OK" THEN o ELSE IF Padding(uper_sot_suck(o.v)) THEN OK(0, o.b) ELSE Failed(o.b)

-----------------------------------------------------------------------------
(* SEQUENCE.  Members count from 1, ext_after and ext_before from 0.       *)

IN_EXTENSION_GROUP(td, i) == i - 1 > td.ext_after /\ i - 1 < td.ext_before
Count(td) == Len(td.elements)

RECURSIVE RootMembers(_, _, _, _, _)
\* pres: the bits of the optional members that are to come.
RootMembers(td, i, pres, memb, b) ==
  IF i > Count(td) THEN OK(memb, b)
  ELSE IF IN_EXTENSION_GROUP(td, i) THEN RootMembers(td, i + 1, pres, memb, b)
  ELSE LET e == td.elements[i]
           rest == IF e.optional /\ pres # <<>> THEN Tail(pres) ELSE pres
           absent == e.optional /\ pres # <<>> /\ Head(pres) = 0 IN
       IF absent THEN RootMembers(td, i + 1, rest, [memb EXCEPT ![i] = e.default], b)
       ELSE LET r == Decode(e.type, b) IN
            IF r.code # "OK" THEN r ELSE RootMembers(td, i + 1, rest, [memb EXCEPT ![i] = r.v], r.b)

RECURSIVE SkipOverflow(_, _)
\* Extensions that this version does not have.
SkipOverflow(bm, b) ==
  IF bm = <<>> THEN OK(0, b)
  ELSE IF Head(bm) = 0 THEN SkipOverflow(Tail(bm), b)
  ELSE LET s == uper_open_type_skip(b) IN IF s.code # "OK" THEN Starved(s.b) ELSE OK(0, s.b)

RECURSIVE Additions(_, _, _, _, _)
Additions(td, i, bm, memb, b) ==
  IF i > Count(td) \/ (IN_EXTENSION_GROUP(td, i) /\ bm = <<>>)
  THEN LET s == SkipOverflow(bm, b) IN IF s.code # "OK" THEN s ELSE OK(memb, s.b)
  ELSE IF ~IN_EXTENSION_GROUP(td, i) THEN Additions(td, i + 1, bm, memb, b)
  ELSE IF Head(bm) = 0 THEN Additions(td, i + 1, Tail(bm), memb, b)
  ELSE LET r == uper_open_type_get_simple(td.elements[i].type, b) IN
       IF r.code # "OK" THEN r ELSE Additions(td, i + 1, Tail(bm), [memb EXCEPT ![i] = r.v], r.b)

\* "Fill DEFAULT members in extensions".
FillDefaults(td, memb) ==
  [i \in DOMAIN memb |-> IF /\ i \in td.roms_count + 1 .. td.roms_count + td.aoms_count
                            /\ td.elements[i].default # Null /\ memb[i] = Null
                         THEN td.elements[i].default ELSE memb[i]]

Extensions(td, memb, b) ==
  LET n == uper_get_nslength(b) IN
  IF n.v < 0 \/ Len(n.b) < n.v THEN Starved(b)
  ELSE Additions(td, td.ext_after + 2, SubSeq(n.b, 1, n.v), memb, Drop(n.b, n.v))
SEQUENCE_decode_uper(td, b) ==
  LET x == IF td.ext_before >= 0 THEN per_get_few_bits(b, 1) ELSE [v |-> 0, b |-> b]
      none == [i \in DOMAIN td.elements |-> Null] IN
  IF x.v < 0 \/ Len(x.b) < td.roms_count THEN Starved(b)
  ELSE LET r == RootMembers(td, 1, SubSeq(x.b, 1, td.roms_count), none, Drop(x.b, td.roms_count))
           a == IF r.code = "OK" /\ x.v = 1 THEN Extensions(td, r.v, r.b) ELSE r IN
       IF a.code # "OK" THEN a ELSE OK(FillDefaults(td, a.v), a.b)

\* The bit map of the additions and their open types.
SEQUENCE_handle_extensions(td, v) ==
  LET idx == SelectSeq([i \in 1 .. Count(td) |-> i], LAMBDA i : IN_EXTENSION_GROUP(td, i))
      here == SelectSeq(idx, LAMBDA i : v[i] # Null) IN
  [n |-> IF td.ext_before >= 0 /\ here # <<>> THEN Len(idx) ELSE 0,
   map |-> [k \in DOMAIN idx |-> IF v[idx[k]] = Null THEN 0 ELSE 1],
   open |-> Flat([k \in DOMAIN here |-> uper_open_type_put(td.elements[here[k]].type, v[here[k]])])]

Bit(p) == IF p THEN 1 ELSE 0
SEQUENCE_encode_uper(td, v) ==
  LET h == SEQUENCE_handle_extensions(td, v)
      n == h.n
      last == IF td.ext_after < 0 THEN Count(td) ELSE td.ext_before - 1
      root == SelectSeq([i \in 1..last |-> i], LAMBDA i : ~IN_EXTENSION_GROUP(td, i))
      left(i) == v[i] = Null \/ v[i] = td.elements[i].default IN
  IF \E k \in DOMAIN root : v[root[k]] = Null /\ ~td.elements[root[k]].optional THEN Null
  ELSE Cat((IF td.ext_before >= 0 THEN <<Bit(n > 0)>> ELSE <<>>)
             \o [k \in 1 .. td.roms_count |-> Bit(~left(td.oms[k]))],
           Cat(Flat([k \in DOMAIN root |-> IF left(root[k]) THEN <<>> ELSE Encode(td.elements[root[k]].type, v[root[k]])]),
               IF n = 0 THEN <<>> ELSE Cat(uper_put_nslength(n), Cat(h.map, h.open))))

-----------------------------------------------------------------------------
(* SEQUENCE OF and CHOICE.                                                 *)

RECURSIVE ListOf(_, _, _, _)
ListOf(td, n, got, b) ==
  IF n = 0 THEN OK(got, b)
  ELSE LET r == Decode(td.elements[1].type, b) IN
       IF r.code # "OK" THEN r ELSE ListOf(td, n - 1, Append(got, r.v), r.b)
RECURSIVE ListPieces(_, _, _)
ListPieces(td, got, b) ==
  LET l == uper_get_length(b, -1)
      r == ListOf(td, l.v, got, l.b) IN
  IF l.v < 0 THEN Starved(b) ELSE IF r.code = "OK" /\ l.repeat THEN ListPieces(td, r.v, r.b) ELSE r
SET_OF_decode_uper(td, b) ==
  LET r == Root(td.size, b)
      g == per_get_few_bits(r.b, r.ct.effective_bits) IN
  IF r.v < 0 THEN Starved(b)
  ELSE IF r.ct.effective_bits < 0 THEN ListPieces(td, <<>>, r.b)
  ELSE IF g.v < 0 THEN Starved(b) ELSE ListOf(td, g.v + r.ct.lb, <<>>, g.b)

RECURSIVE PutList(_)
PutList(parts) ==
  LET l == uper_put_length(Len(parts))
      rest == Drop(parts, l.n) IN
  Cat(Cat(l.b, Flat(SubSeq(parts, 1, l.n))), IF rest = <<>> THEN <<>> ELSE PutList(rest))
SEQUENCE_OF_encode_uper(td, v) ==
  LET out == Len(v) < td.size.lb \/ Len(v) > td.size.ub
      ext == EXT \in td.size.flags
      ct == IF ext /\ out THEN None ELSE td.size
      parts == [i \in DOMAIN v |-> Encode(td.elements[1].type, v[i])] IN
  IF ~ext /\ out /\ td.size.effective_bits >= 0 THEN Null
  ELSE Cat(IF ext THEN <<Bit(out)>> ELSE <<>>,
           IF ct.effective_bits >= 0 THEN Cat(per_put_few_bits(Len(v) - ct.lb, ct.effective_bits), Flat(parts))
           ELSE PutList(parts))

\* canonical_order, counted from 0 as in the code.
Canonical(td, k) == IF td.order = <<>> THEN k ELSE td.order[k + 1]
CHOICE_decode_uper(td, b) ==
  LET r == Root(td.ct, b)
      root == r.ct.range_bits >= 0
      g == IF root THEN per_get_few_bits(r.b, r.ct.range_bits) ELSE uper_get_nsnnwn(r.b)
      k == IF root THEN g.v ELSE g.v + td.ext_start IN
  IF r.v < 0 THEN Starved(b)
  ELSE IF ~root /\ td.ext_start = -1 THEN Failed(r.b)
  ELSE IF g.v < 0 THEN Starved(g.b)
  ELSE IF (IF root THEN k > r.ct.ub ELSE k >= Count(td)) THEN Failed(g.b)
  ELSE IF k + 1 \notin DOMAIN td.elements THEN Fault(g.b)
  ELSE LET i == Canonical(td, k) + 1
           d == IF root THEN Decode(td.elements[i].type, g.b) ELSE uper_open_type_get_simple(td.elements[i].type, g.b) IN
       IF d.code = "OK" THEN OK(<<i, d.v>>, d.b) ELSE d
\* The member is looked up after the adjustment.
CHOICE_encode_uper(td, v) ==
  LET k == Canonical(td, v[1] - 1)
      out == td.ct.range_bits >= 0 /\ (k < td.ct.lb \/ k > td.ct.ub)
      ext == EXT \in td.ct.flags
      elm == td.elements[k + 1] IN
  IF out /\ ~ext THEN Null
  ELSE IF td.ct.range_bits >= 0 /\ ~out
  THEN Cat((IF ext THEN <<0>> ELSE <<>>) \o Bits(k, td.ct.range_bits), Encode(elm.type, v[2]))
  ELSE IF td.ext_start = -1 THEN Null
  ELSE Cat(IF out THEN <<1>> ELSE IF ext THEN <<0>> ELSE <<>>,
           Cat(uper_put_nsnnwn(k - td.ext_start), uper_open_type_put(elm.type, v[2])))

-----------------------------------------------------------------------------
uper_decoder(td, b) == LET k == td.kind IN
  CASE k = "bool" -> BOOLEAN_decode_uper(td, b)
    [] k = "null" -> NULL_decode_uper(td, b)
    [] k = "int" -> NativeInteger_decode_uper(td, b)
    [] k = "enum" -> NativeEnumerated_decode_uper(td, b)
    [] k = "enumerated" -> ENUMERATED_decode_uper(td, b)
    [] k = "string" -> OCTET_STRING_decode_uper(td, b)
    [] k = "seq" -> SEQUENCE_decode_uper(td, b)
    [] k = "of" -> SET_OF_decode_uper(td, b)
    [] k = "choice" -> CHOICE_decode_uper(td, b)
uper_encoder(td, v) == LET k == td.kind IN
  CASE k = "bool" -> BOOLEAN_encode_uper(td, v)
    [] k = "null" -> NULL_encode_uper(td, v)
    [] k = "int" -> NativeInteger_encode_uper(td, v)
    [] k = "enum" -> NativeEnumerated_encode_uper(td, v)
    [] k = "enumerated" -> ENUMERATED_encode_uper(td, v)
    [] k = "string" -> OCTET_STRING_encode_uper(td, v)
    [] k = "seq" -> SEQUENCE_encode_uper(td, v)
    [] k = "of" -> SEQUENCE_OF_encode_uper(td, v)
    [] k = "choice" -> CHOICE_encode_uper(td, v)

\* In bits: rval.consumed of uper_decode.
uper_decode(td, b) == LET r == Decode(td, b) IN
  [code |-> r.code, v |-> r.v, consumed |-> IF r.code = "OK" THEN Len(b) - Len(r.b) ELSE 0]
\* In octets; a value of no bits is one octet 0.
uper_decode_complete(td, b) ==
  LET r == uper_decode(td, b) IN
  IF r.consumed > 0 THEN [r EXCEPT !.consumed = (@ + 7) \div 8]
  ELSE IF r.code # "OK" THEN r
  ELSE IF b = <<>> THEN [r EXCEPT !.code = "WMORE"]
  ELSE IF Number(SubSeq(b, 1, 8)) = 0 THEN [r EXCEPT !.consumed = 1]
  ELSE [r EXCEPT !.code = "FAIL"]
uper_encode_to_new_buffer(td, v) == LET e == Encode(td, v) IN IF e = Null THEN Null ELSE Padded(e)

-----------------------------------------------------------------------------
(* Types and values.                                                       *)

Range(bits, lo, hi) == [flags |-> {"APC_CONSTRAINED"}, range_bits |-> bits, effective_bits |-> bits, lb |-> lo, ub |-> hi]
Open(ct) == [ct EXCEPT !.flags = @ \cup {EXT}]
AtLeast(lo) == [flags |-> {SEMI}, range_bits |-> -1, effective_bits |-> -1, lb |-> lo, ub |-> 0]

BOOL == [kind |-> "bool"]
NIL == [kind |-> "null"]
INT(ct) == [kind |-> "int", unsigned |-> FALSE, ct |-> ct]
UINT(ct) == [kind |-> "int", unsigned |-> TRUE, ct |-> ct]
STR(ct, size) == [kind |-> "string", variant |-> "STR", ct |-> ct, size |-> size, alphabet |-> <<>>]
BITS(size) == [kind |-> "string", variant |-> "BIT", ct |-> None, size |-> size, alphabet |-> <<>>]
OF(td, size) == [kind |-> "of", size |-> size, elements |-> <<[type |-> td]>>]
ENUM(ct, map, x) == [kind |-> "enum", ct |-> ct, map |-> map, extension |-> x]
CHOICE(ct, x, order, tds) ==
  [kind |-> "choice", ct |-> ct, ext_start |-> x, order |-> order, elements |-> [i \in DOMAIN tds |-> [type |-> tds[i]]]]
SEQ(after, before, oms, roms, aoms, elms) ==
  [kind |-> "seq", ext_after |-> after, ext_before |-> before, oms |-> oms, roms_count |-> roms, aoms_count |-> aoms, elements |-> elms]
Must(td) == [type |-> td, optional |-> FALSE, default |-> Null]
May(td) == [type |-> td, optional |-> TRUE, default |-> Null]
Def(td, v) == [type |-> td, optional |-> TRUE, default |-> v]

Int4 == INT(Range(2, 5, 8))
IntX == INT(Open(Range(2, 5, 8)))
Enum3 == ENUM(Range(2, 0, 2), <<1, 4, 9>>, 0)
EnumX == ENUM(Open(Range(1, 0, 1)), <<0, 1, 2, 3>>, 3)
Str == STR(OctetValue, None)
Str2 == STR(Range(2, 65, 68), Range(1, 1, 2))          \* two letters of four at most
Mapped4 == [STR(Range(2, 65, 90), Range(0, 2, 2)) EXCEPT !.alphabet = <<65, 70, 90>>]
Cho == CHOICE(Open(Range(1, 0, 1)), 2, <<>>, <<Int4, BOOL, Str>>)
Seq1 == SEQ(-1, -1, <<1, 3>>, 2, 0, <<May(Int4), Must(BOOL), Def(Int4, 6)>>)
\* Two versions of a type: additions are optional.
SeqV1 == SEQ(0, 2, <<>>, 0, 0, <<Must(BOOL)>>)
SeqV2 == SEQ(0, 3, <<2>>, 0, 1, <<Must(BOOL), May(Str)>>)
SeqV3 == SEQ(0, 4, <<2, 3>>, 0, 2, <<Must(BOOL), May(Str), May(Cho)>>)

Simple == {BOOL, NIL, Int4, IntX, INT(None), INT(AtLeast(0)), INT(Range(32, 0, 2147483647)), UINT(AtLeast(0)), UINT(None), Enum3, EnumX,
           [Enum3 EXCEPT !.kind = "enumerated"], Str, Str2, Mapped4, STR(OctetValue, Open(Range(1, 1, 2))), BITS(None), BITS(Range(0, 3, 3)),
           OF(Int4, Range(2, 0, 3)), OF(BOOL, None), OF(BOOL, Open(Range(1, 1, 2)))}
Composed == {Cho, Seq1, SeqV1, SeqV2, SeqV3, OF(Seq1, Range(2, 0, 3)), CHOICE(Range(1, 0, 1), -1, <<>>, <<Seq1, NIL>>)}

Run(n) == [i \in 1..n |-> i % 2]
ValuesOf(td) ==
  CASE td = BOOL -> {0, 1}
    [] td = NIL -> {0}
    [] td = Int4 -> 5..8
    [] td = IntX -> {-70000, -129, -3, 4, 5, 8, 9, 127, 128, 8388607}
    [] td = INT(None) -> {-8388608, -129, -128, -1, 0, 127, 128, 255, 256, 40000}
    [] td = INT(AtLeast(0)) -> {0, 127, 128, 65535, 8388607}
    [] td = INT(Range(32, 0, 2147483647)) -> {0, 1, 65535, 65536, 8388607}
    [] td \in {UINT(AtLeast(0)), UINT(None)} -> {0, 127, 128, 8388608, 16777215}
    [] td = Enum3 -> {1, 4, 9}
    [] td = EnumX -> 0..3
    [] td = [Enum3 EXCEPT !.kind = "enumerated"] -> {<<1>>, <<9>>}
    [] td = Str -> {<<>>, <<7>>, Run(7), Run(8), Run(63)}
    [] td = Str2 -> {<<65>>, <<68, 66>>}
    [] td = Mapped4 -> {<<65, 90>>, <<70, 70>>}
    [] td = STR(OctetValue, Open(Range(1, 1, 2))) -> {<<>>, <<7>>, <<7, 255>>, <<1, 2, 3>>}
    [] td = BITS(None) -> {<<>>, Run(7), Run(8), Run(63), Run(65), Run(130), Run(200)}
    [] td = BITS(Range(0, 3, 3)) -> {<<1, 0, 1>>}
    [] td = OF(Int4, Range(2, 0, 3)) -> {<<>>, <<5, 8, 6>>}
    [] td = OF(BOOL, None) -> {<<>>, Run(8), Run(66)}
    [] td = OF(BOOL, Open(Range(1, 1, 2))) -> {<<>>, <<1>>, <<1, 0>>, Run(9)}
    [] td = Cho -> {<<1, 5>>, <<2, 1>>, <<3, <<9>>>>, <<3, <<>>>>}
    [] td = Seq1 -> {<<Null, 1, 6>>, <<7, 0, 5>>}
    [] td = SeqV1 -> {<<1>>}
    [] td = SeqV2 -> {<<1, Null>>, <<0, <<1, 2>>>>}
    [] td = SeqV3 -> {<<1, Null, Null>>, <<1, <<>>, <<3, <<4>>>>>>, <<0, Null, <<1, 8>>>>}
    [] td = OF(Seq1, Range(2, 0, 3)) -> {<<<<Null, 1, 6>>, <<7, 0, 5>>>>}
    [] td = CHOICE(Range(1, 0, 1), -1, <<>>, <<Seq1, NIL>>) -> {<<1, <<7, 1, 6>>>>, <<2, 0>>}

Same(td) == {[td |-> td, rd |-> td, v |-> v, w |-> v] : v \in ValuesOf(td)}
\* From an older version; from a newer one with one unknown addition of six octets.
Versions == {[td |-> SeqV1, rd |-> SeqV3, v |-> <<1>>, w |-> <<1, Null, Null>>],
             [td |-> SeqV2, rd |-> SeqV3, v |-> <<0, <<1, 2>>>>, w |-> <<0, <<1, 2>>, Null>>],
             [td |-> SeqV3, rd |-> SeqV2, v |-> <<0, <<1>>, Null>>, w |-> <<0, <<1>>>>],
             [td |-> SeqV2, rd |-> SeqV1, v |-> <<0, <<1, 2, 3, 4, 5>>>>, w |-> <<0>>]}
GoodCases == UNION {Same(td) : td \in Simple \cup Composed} \cup Versions
NoiseCases == {[td |-> td, rd |-> td, v |-> Null, w |-> Null] :
                 td \in (Simple \ {INT(Range(32, 0, 2147483647))}) \cup Composed}

\* An unknown addition that is not encoded in a multiple of three octets.
SkipCases == {[td |-> SeqV2, rd |-> SeqV1, v |-> <<0, <<1>>>>, w |-> <<0>>]}
\* A string of exactly one fragment.
FragmentCases == {[td |-> BITS(None), rd |-> BITS(None), v |-> Run(64), w |-> Run(64)]}
\* An extension between root members.
Tail2 == SEQ(0, 2, <<2>>, 0, 1, <<Must(BOOL), May(BOOL), Must(Int4)>>)
TailCases == {[td |-> Tail2, rd |-> Tail2, v |-> <<1, Null, 7>>, w |-> <<1, Null, 7>>]}
\* A default of an addition.
Default2 == SEQ(0, 3, <<2>>, 0, 1, <<Must(BOOL), Def(Int4, 6)>>)
DefaultCases == {[td |-> SeqV1, rd |-> Default2, v |-> <<1>>, w |-> <<1, 6>>]}
\* Alternatives whose canonical order is not that of their declaration.
Swapped == CHOICE(Range(1, 0, 1), -1, <<1, 0>>, <<Int4, INT(Range(4, 0, 15))>>)
OrderCases == {[td |-> Swapped, rd |-> Swapped, v |-> <<1, 6>>, w |-> <<1, 6>>]}
\* A name far behind the first extension.
Names == ENUM(Open(Range(0, 0, 0)), [i \in 1..70 |-> i], 2)
SmallCases == {[td |-> Names, rd |-> Names, v |-> n, w |-> n] : n \in {1, 2, 65, 66, 70}}
\* Letters up to the code 64, in six bits.
Letters == STR(Range(6, 32, 64), Range(1, 1, 2))
LetterCases == {[td |-> Letters, rd |-> Letters, v |-> <<c>>, w |-> <<c>>] : c \in {32, 63, 64}}

CONSTANT Inputs   \* which of them
\* [td, rd, v, w]: types of both sides, the value, what it is to the receiver.
Cases ==
  CASE Inputs = "good" -> GoodCases
    [] Inputs = "noise" -> NoiseCases
    [] Inputs = "skip" -> SkipCases
    [] Inputs = "fragment" -> FragmentCases
    [] Inputs = "tail" -> TailCases
    [] Inputs = "default" -> DefaultCases
    [] Inputs = "order" -> OrderCases
    [] Inputs = "small" -> SmallCases
    [] Inputs = "letter" -> LetterCases

-----------------------------------------------------------------------------
(***************************************************************************)
(* A value encoded by one side and decoded by another one, whose version   *)
(* of the type may be older or newer.  On the way the message may lose its *)
(* end, or be followed by something else; or there is only noise.          *)
(***************************************************************************)

CONSTANT MaxNoise     \* bits of noise

VARIABLES case, in, stage, res

vars == <<case, in, stage, res>>

Nothing == [code |-> "NONE", v |-> Null, consumed |-> 0, octets |-> 0]

Init == case \in Cases /\ in = <<>> /\ stage = "start" /\ res = Nothing

Send == /\ stage = "start" /\ case.v # Null
        /\ in' = uper_encode_to_new_buffer(case.td, case.v) /\ stage' = "sent"
        /\ UNCHANGED <<case, res>>
Whole == Encode(case.td, case.v)
Cut == \E k \in 0 .. Len(in) - 1 :
        /\ stage = "sent" /\ res = Nothing /\ k < Len(Whole)
        /\ in' = SubSeq(in, 1, k) /\ stage' = "cut"
        /\ UNCHANGED <<case, res>>
Follow == /\ stage = "sent" /\ res = Nothing
          /\ in' = Whole \o <<1, 1, 1, 1, 1, 1, 1, 1, 1>> /\ stage' = "followed"
          /\ UNCHANGED <<case, res>>
Noise == \E n \in 0..MaxNoise : \E s \in [1..n -> {0, 1}] :
        /\ stage = "start" /\ case.v = Null
        /\ in' = s /\ stage' = "noise" /\ UNCHANGED <<case, res>>
Receive == /\ stage \in {"sent", "cut", "followed", "noise"} /\ res.code = "NONE"
           /\ \E r \in {uper_decode(case.rd, in)} : \E c \in {IF Len(in) % 8 = 0 THEN uper_decode_complete(case.rd, in) ELSE Nothing} :
                res' = [code |-> r.code, v |-> r.v, consumed |-> r.consumed, octets |-> c.consumed]
           /\ UNCHANGED <<case, in, stage>>

Next == Send \/ Cut \/ Follow \/ Noise \/ Receive
Spec == Init /\ [][Next]_vars

-----------------------------------------------------------------------------
\* What arrives whole is the value that was sent, as far as the receiver knows
\* its type, and takes exactly the bits of the encoding, whatever follows it.
RoundTrip == stage \in {"sent", "followed"} /\ res.code # "NONE" =>
  /\ res.code = "OK" /\ res.v = case.w
  /\ case.td = case.rd => res.consumed = Len(Whole)

\* uper_decode_complete takes all octets of a message, also of one without bits.
WholeOctets == stage = "sent" /\ res.code # "NONE" => 8 * res.octets = Len(in)

\* A message that lost its end is never taken for a whole one nor for a wrong one.
Starves == stage = "cut" /\ res.code # "NONE" => res.code = "WMORE"

\* No input makes a decoder look outside of its tables.
NoFault == res.code # "FAULT"

\* Whatever can be decoded, and encoded again, is then the same value.
Stable == stage = "noise" /\ res.code = "OK" =>
  LET e == Encode(case.rd, res.v) IN
  e # Null => LET r == uper_decode(case.rd, e) IN r.code = "OK" /\ r.v = res.v /\ r.consumed = Len(e)
=============================================================================
