-------------------------------- MODULE Ber ---------------------------------
(***************************************************************************)
(* The basic encoding rules of libasn1c: tags and lengths, the runs of     *)
(* them in front of a value (ber_check_tags, der_write_tags), the decoders *)
(* and encoders of the types, and a stream whose octets arrive in pieces.  *)
(* A buffer is a sequence of octets; a tag is <<class, number>>; the width *)
(* of a length is that of the 32-bit build. A function that fetches        *)
(* returns how many octets it took: 0 for want of more, -1 for failure.    *)
(***************************************************************************)
EXTENDS Integers, Sequences, FiniteSets, TLC

Drop(b, k) == SubSeq(b, k + 1, Len(b))
First(b, k) == SubSeq(b, 1, k)
Constructed(b) == (b[1] \div 32) % 2 = 1

RECURSIVE LongTag(_, _, _, _)
LongTag(b, i, val, class) ==
  IF i > Len(b) THEN [n |-> 0, tag |-> <<>>]
  ELSE IF b[i] < 128 THEN [n |-> i, tag |-> <<class, val * 128 + b[i]>>]
  ELSE IF val * 128 + b[i] - 128 >= 2 ^ 23 THEN [n |-> -1, tag |-> <<>>]
  ELSE LongTag(b, i + 1, val * 128 + b[i] - 128, class)

ber_fetch_tag(b) ==
  CASE b = <<>> -> [n |-> 0, tag |-> <<>>]
    [] b # <<>> /\ b[1] % 32 # 31 -> [n |-> 1, tag |-> <<b[1] \div 64, b[1] % 32>>]
    [] OTHER -> LongTag(b, 2, 0, b[1] \div 64)

RECURSIVE LongLength(_, _, _, _)
LongLength(b, i, len, oct) ==
  IF oct = 0 THEN IF len > 2147483647 - 1024 THEN [n |-> -1, len |-> 0] ELSE [n |-> i - 1, len |-> len]
  ELSE IF i > Len(b) THEN [n |-> 0, len |-> 0]
  ELSE IF len >= 2 ^ 23 \/ (len * 256 + b[i] >= 2 ^ 24 /\ oct > 1) THEN [n |-> -1, len |-> 0]
  ELSE LongLength(b, i + 1, len * 256 + b[i], oct - 1)

\* The length -1 is the indefinite one.
ber_fetch_length(constr, b) ==
  CASE b = <<>> -> [n |-> 0, len |-> 0]
    [] b # <<>> /\ b[1] < 128 -> [n |-> 1, len |-> b[1]]
    [] b # <<>> /\ constr /\ b[1] = 128 -> [n |-> 1, len |-> -1]
    [] b # <<>> /\ b[1] = 255 -> [n |-> -1, len |-> 0]
    [] OTHER -> LongLength(b, 2, 0, b[1] % 128)

\* L and V of a TLV whose T is skipped already.
RECURSIVE ber_skip_length(_, _)
RECURSIVE SkipInner(_, _)
ber_skip_length(constr, b) == LET f == ber_fetch_length(constr, b) IN
  CASE f.n <= 0 -> f.n
    [] f.n > 0 /\ f.len >= 0 -> IF f.n + f.len > Len(b) THEN 0 ELSE f.n + f.len
    [] OTHER -> SkipInner(Drop(b, f.n), f.n)
SkipInner(b, skip) == LET t == ber_fetch_tag(b) IN
  IF t.n <= 0 THEN t.n
  ELSE LET ll == ber_skip_length(Constructed(b), Drop(b, t.n)) IN
       IF ll <= 0 THEN ll
       ELSE IF b[1] = 0 /\ b[2] = 0 THEN skip + t.n + ll
       ELSE SkipInner(Drop(b, t.n + ll), skip + t.n + ll)

-----------------------------------------------------------------------------
(* Serialisation.                                                          *)

RECURSIVE Base(_, _)
Base(v, base) == IF v < base THEN <<v>> ELSE Append(Base(v \div base, base), v % base)

ber_tlv_tag_serialize(tag) ==
  IF tag[2] <= 30 THEN <<tag[1] * 64 + tag[2]>>
  ELSE LET d == Base(tag[2], 128) IN
       <<tag[1] * 64 + 31>> \o [i \in DOMAIN d |-> IF i < Len(d) THEN d[i] + 128 ELSE d[i]]

der_tlv_length_serialize(len) == IF len <= 127 THEN <<len>> ELSE LET d == Base(len, 256) IN <<128 + Len(d)>> \o d

der_write_TL(tag, len, constr) == LET t == ber_tlv_tag_serialize(tag) IN
  [t EXCEPT ![1] = @ + (IF constr THEN 32 ELSE 0)] \o der_tlv_length_serialize(len)

\* The tags of a type in a context of tag mode 1 (EXPLICIT), -1 (IMPLICIT) or 0.
TagsInMode(tags, mode, tag) ==
  CASE mode = 0 -> tags
    [] mode = -1 /\ tags # <<>> -> <<tag>> \o Tail(tags)
    [] OTHER -> <<tag>> \o tags

RECURSIVE WriteTags(_, _, _)
WriteTags(tags, v, form) ==
  IF tags = <<>> THEN v
  ELSE WriteTags(First(tags, Len(tags) - 1), der_write_TL(tags[Len(tags)], Len(v), form) \o v, TRUE)

\* The tags and lengths in front of the value v.
der_write_tags(td, v, mode, form, tag) == WriteTags(TagsInMode(td.tags, mode, tag), v, form)

-----------------------------------------------------------------------------
(* The tags of a TLV, one inside the other.  c: b, n (taken), step, limit  *)
(* and nulls (definite or indefinite lengths seen), constr, len.           *)
(* form: 0 or 1, the form of the last tag, -1 if it may have both.         *)

TagsRet(c, code, saves) ==
  [code |-> code, n |-> IF code = "OK" \/ saves THEN c.n ELSE 0, step |-> c.step, constr |-> c.constr,
   len |-> IF c.nulls > 0 THEN -c.nulls ELSE c.len]

\* The next tag and its length.
TagNext(c, t, f, constr) ==
  [c EXCEPT !.b = LET rest == Drop(c.b, t.n + f.n) IN
                    IF f.len >= 0 /\ Len(rest) > f.len THEN First(rest, f.len) ELSE rest,
            !.n = @ + t.n + f.n, !.step = @ + 1, !.constr = constr, !.len = f.len,
            !.nulls = IF f.len = -1 THEN @ + 1 ELSE @, !.limit = IF f.len = -1 THEN @ ELSE f.len]

RECURSIVE TagsLoop(_, _, _, _, _)
TagsLoop(td, c, mode, form, saves) ==
  LET tagno == c.step - (IF mode = 1 THEN 1 ELSE 0) IN
  IF tagno >= Len(td.tags) THEN TagsRet(c, "OK", saves)
  ELSE LET t == ber_fetch_tag(c.b) IN
       IF t.n <= 0 THEN TagsRet(c, IF t.n = 0 THEN "WMORE" ELSE "FAIL", saves)
       ELSE LET constr == Constructed(c.b)  f == ber_fetch_length(constr, Drop(c.b, t.n)) IN
         IF \/ ~(mode # 0 /\ c.step = 0) /\ t.tag # td.tags[tagno + 1]
            \/ tagno < Len(td.tags) - 1 /\ ~constr
            \/ tagno = Len(td.tags) - 1 /\ form # -1 /\ constr # (form = 1)
            \/ f.n = -1
            \/ f.n > 0 /\ f.len = -1 /\ c.limit # -1
            \/ f.n > 0 /\ f.len # -1 /\ c.nulls > 0
            \/ f.n > 0 /\ f.len # -1 /\ c.limit # -1 /\ c.limit # f.len + t.n + f.n
         THEN TagsRet([c EXCEPT !.constr = constr], "FAIL", saves)
         ELSE IF f.n = 0 THEN TagsRet([c EXCEPT !.constr = constr], "WMORE", saves)
         ELSE TagsLoop(td, TagNext(c, t, f, constr), mode, form, saves)

\* saves: whether the caller has a context, in which the step is kept; only the
\* step is.  A type without tags is the untagged ANY.
ber_check_tags(td, saves, step, b, mode, form) ==
  LET c == [b |-> b, n |-> 0, step |-> step, limit |-> -1, nulls |-> 0, constr |-> FALSE, len |-> 0]
      t == ber_fetch_tag(b) IN
  IF ~(mode = 0 /\ step = Len(td.tags)) THEN TagsLoop(td, c, mode, form, saves)
  ELSE IF t.n <= 0 THEN TagsRet(c, IF t.n = 0 THEN "WMORE" ELSE "FAIL", saves)
  ELSE LET constr == Constructed(b)  f == ber_fetch_length(constr, Drop(b, t.n)) IN
       IF f.n <= 0 THEN TagsRet(c, IF f.n = 0 THEN "WMORE" ELSE "FAIL", saves)
       ELSE TagsRet([c EXCEPT !.n = t.n + f.n, !.constr = constr, !.len = f.len], "OK", saves)

-----------------------------------------------------------------------------
(***************************************************************************)
(* The BER decoders and DER encoders of libasn1c, over small types.  A     *)
(* type td has a kind, its tags and, when it is composed, its elements:    *)
(* [tag, opt, mode, type].  tag is the outmost tag, <<>> for a CHOICE      *)
(* without one; opt is the number of optional elements from here on        *)
(* without a break.  ext_after and ext_before delimit the extensions of a  *)
(* SEQUENCE, ext says whether a SET or CHOICE has any.                     *)
(*                                                                         *)
(* A decoder is called with what it has of the input and returns a code,   *)
(* the octets it took and the structure st, which holds what was decoded   *)
(* and the context from which the next call goes on.                       *)
(***************************************************************************)

CONSTANTS Null,                  \* no structure, or no value
          Decode(_, _, _, _),    \* td->ber_decoder: the decoder of any type
          Encode(_, _, _, _)     \* td->der_encoder

Begun(td) ==
  CASE td.kind \in {"prim", "int"} -> [buf |-> <<>>]
    [] td.kind = "string" -> [phase |-> 0, step |-> 0, left |-> 0, buf |-> <<>>, unused |-> 0, first |-> TRUE, stack |-> <<>>]
    [] td.kind = "of" -> [phase |-> 0, step |-> 0, left |-> 0, list |-> <<>>, ptr |-> Null]
    [] OTHER -> [phase |-> 0, step |-> 0, left |-> 0, present |-> {}, memb |-> [i \in DOMAIN td.elements |-> Null]]

-----------------------------------------------------------------------------
(* A decoder at work: r has the structure, what is left of the buffer, and *)
(* how much was taken of it.                                               *)

Left(r) == IF r.st.left < 0 \/ Len(r.b) < r.st.left THEN Len(r.b) ELSE r.st.left
Window(r) == First(r.b, Left(r))
SizeViolation(r) == r.st.left >= 0 /\ r.st.left <= Len(r.b)
More(r) == IF SizeViolation(r) THEN "FAIL" ELSE "WMORE"
Advance(r, k) == [r EXCEPT !.b = Drop(@, k), !.n = @ + k, !.st.left = IF @ >= 0 THEN @ - k ELSE @]
Ret(r, code) == [code |-> code, n |-> r.n, st |-> r.st]
NextPhase(r) == [r EXCEPT !.st.phase = @ + 1, !.st.step = 0]
PhaseOut(r) == [r EXCEPT !.st.phase = 10]
EndMark(w) == Len(w) >= 2 /\ w[1] = 0 /\ w[2] = 0
HalfMark(w) == Len(w) = 1 /\ w[1] = 0

\* Tags in front: the structure has len octets more, or is closed by marks.
Enter(td, st, b, mode, form) == LET c == ber_check_tags(td, TRUE, st.step, b, mode, form) IN
  [code |-> c.code, n |-> c.n,
   r |-> IF c.code # "OK" THEN [st |-> [st EXCEPT !.step = c.step], b |-> b, n |-> c.n]
         ELSE NextPhase(Advance([st |-> [st EXCEPT !.left = IF c.len >= 0 THEN c.len + c.n ELSE c.len], b |-> b, n |-> 0], c.n))]

\* Phases 3 and 4 of SEQUENCE and SET: what follows the last element is skipped
\* up to the end.
RECURSIVE Finish(_, _)
Finish(r, ext) == LET w == Window(r)  t == ber_fetch_tag(w) IN
  CASE r.st.left = 0 -> Ret(PhaseOut(r), "OK")
    [] r.st.left # 0 /\ t.n <= 0 -> Ret(r, IF t.n = 0 THEN More(r) ELSE "FAIL")
    [] r.st.left < 0 /\ t.n > 0 /\ HalfMark(w) -> Ret(r, More(r))
    [] r.st.left < 0 /\ t.n > 0 /\ EndMark(w) -> Finish([Advance(r, 2) EXCEPT !.st.left = @ + 1, !.st.phase = 4], ext)
    [] OTHER -> LET ll == ber_skip_length(Constructed(w), Drop(w, t.n)) IN
                IF ~ext \/ r.st.phase = 4 \/ ll = -1 THEN Ret(r, "FAIL")
                ELSE IF ll = 0 THEN Ret(r, More(r))
                ELSE Finish(Advance(r, t.n + ll), ext)

-----------------------------------------------------------------------------
(* Primitive types, without a context: all or nothing.                     *)

ber_decode_primitive(td, st, b, mode) == LET c == ber_check_tags(td, FALSE, 0, b, mode, 0) IN
  CASE c.code # "OK" -> [code |-> c.code, n |-> 0, st |-> st]
    [] c.code = "OK" /\ c.len > Len(b) - c.n -> [code |-> "WMORE", n |-> 0, st |-> st]
    [] OTHER -> [code |-> "OK", n |-> c.n + c.len, st |-> [st EXCEPT !.buf = SubSeq(b, c.n + 1, c.n + c.len)]]

-----------------------------------------------------------------------------
(* Strings, in one piece or in pieces of pieces.  The stack holds the      *)
(* pieces that are open: left (-1 indefinite), got, nulls (whether an end  *)
(* mark is due), chopped (whether the count of unused bits was read).      *)
(* variant is STR, BIT or ANY.                                             *)

Put(st, s) == [st EXCEPT !.buf = @ \o s, !.first = FALSE]
Took(r, k) == [r EXCEPT !.b = Drop(@, k), !.n = @ + k]
Top(st) == st.stack[Len(st.stack)]
SetTop(r, e) == [r EXCEPT !.st.stack[Len(r.st.stack)] = e]

\* The tag of a piece: that of the string.
Expected(td, st, tag) == IF td.variant = "ANY" \/ st.stack = <<>> THEN tag
                         ELSE td.tags[IF Len(st.stack) <= Len(td.tags) THEN Len(st.stack) ELSE Len(td.tags)]

\* The piece e opens another one of length len whose tag and length take tlvl.
Piece(st, len, tlvl) ==
  [left |-> IF st.stack # <<>> /\ Top(st).left # -1 /\ len = -1 THEN Top(st).left - tlvl ELSE len,
   got |-> tlvl, nulls |-> len = -1, chopped |-> FALSE]

\* Phase 3: the octets of a string in one piece.
Plain(td, r) ==
  LET bit == td.variant = "BIT" /\ r.st.first /\ r.b # <<>> /\ r.st.left > 0
      q   == IF bit THEN [Took(r, 1) EXCEPT !.st.unused = r.b[1], !.st.left = @ - 1, !.st.first = FALSE] ELSE r
      k   == IF Len(q.b) < q.st.left THEN Len(q.b) ELSE q.st.left
      p   == [Took(q, k) EXCEPT !.st = [Put(@, First(q.b, k)) EXCEPT !.left = @ - k]] IN
  IF r.b = <<>> /\ r.st.left > 0 THEN Ret(r, "WMORE")
  ELSE IF Len(r.b) < r.st.left THEN Ret(p, "WMORE")
  ELSE Ret(PhaseOut(p), "OK")

RECURSIVE Pieces(_, _, _)
\* Phase 2: the octets of the piece on top.
Octets(td, r, mode) ==
  LET e == Top(r.st)
      k == IF Len(r.b) < e.left THEN Len(r.b) ELSE e.left
      s == First(r.b, k)
      f == [e EXCEPT !.left = @ - k, !.got = @ + k, !.chopped = @ \/ k > 0]
      q == SetTop([Took(r, k) EXCEPT !.st = IF k = 0 THEN @
                     ELSE IF td.variant = "BIT" /\ ~e.chopped THEN [Put(@, Tail(s)) EXCEPT !.unused = s[1]]
                     ELSE Put(@, s)], f) IN
  IF f.left > 0 THEN Ret([q EXCEPT !.st.phase = 2], "WMORE") ELSE Pieces(td, [q EXCEPT !.st.phase = 1], mode)

\* A piece is complete: the piece around it has got as much.
Close(st) == LET e == Top(st)  k == Len(st.stack) - 1 IN
  IF k = 0 THEN [st EXCEPT !.stack = <<>>]
  ELSE [st EXCEPT !.stack = [First(st.stack, k) EXCEPT ![k].left = IF @ = -1 THEN @ ELSE @ - e.got, ![k].got = @ + e.got]]

\* Phase 1: tags and lengths of pieces, and end marks.
Pieces(td, r, mode) ==
  LET st == r.st
      open == st.stack # <<>>
      done == open /\ Top(st).left <= 0 /\ ~Top(st).nulls
      w == IF open /\ Top(st).left >= 0 /\ Top(st).left < Len(r.b) THEN First(r.b, Top(st).left) ELSE r.b
      t == ber_fetch_tag(w)
      keep(len) == td.variant = "ANY" /\ (mode # 1 \/ len > 0)
  IN
  IF done
  THEN IF Len(st.stack) > 1 /\ st.stack[Len(st.stack) - 1].left # -1 /\ st.stack[Len(st.stack) - 1].left < Top(st).got
       THEN Ret(r, "FAIL")
       ELSE IF Len(st.stack) = 1 THEN Ret(PhaseOut([r EXCEPT !.st = Close(st)]), "OK")
       ELSE Pieces(td, [r EXCEPT !.st = Close(st)], mode)
  ELSE IF t.n <= 0 THEN Ret(r, IF t.n = 0 THEN "WMORE" ELSE "FAIL")
  ELSE LET f == ber_fetch_length(Constructed(w), Drop(w, t.n))  tlvl == t.n + f.n IN
       IF f.n <= 0 THEN Ret(r, IF f.n = 0 THEN "WMORE" ELSE "FAIL")
       ELSE IF open /\ Top(st).nulls /\ EndMark(w)
       THEN Pieces(td, SetTop([Took(r, 2) EXCEPT !.st = IF keep(Len(st.stack) - 1) THEN Put(@, <<0, 0>>) ELSE @],
                              [Top(st) EXCEPT !.left = 0, !.got = @ + 2, !.nulls = FALSE]), mode)
       ELSE IF \/ t.tag # Expected(td, st, t.tag)
               \/ open /\ Top(st).left # -1 /\ Top(st).left < tlvl + (IF f.len = -1 THEN 0 ELSE f.len)
       THEN Ret(r, "FAIL")
       ELSE LET q == [Took(r, tlvl) EXCEPT
                        !.st = [(IF keep(Len(st.stack)) THEN Put(@, First(w, tlvl)) ELSE @)
                                EXCEPT !.stack = Append(@, Piece(st, f.len, tlvl))]] IN
            IF Constructed(w) THEN Pieces(td, q, mode) ELSE Octets(td, q, mode)

\* The bits behind the last one of a bit string are cleared.
Masked(td, s) ==
  IF td.variant = "BIT" /\ s.code = "OK" /\ s.st.buf # <<>>
  THEN [s EXCEPT !.st.buf[Len(s.st.buf)] = @ - (@ % (2 ^ (IF s.st.unused % 32 > 8 THEN 8 ELSE s.st.unused % 32)))] ELSE s

OctetStart(td, st, b, mode) == LET c == ber_check_tags(td, TRUE, st.step, b, mode, -1) IN
  IF c.code # "OK" THEN [code |-> c.code, n |-> c.n, st |-> [st EXCEPT !.step = c.step]]
  ELSE IF c.constr THEN Pieces(td, [st |-> [st EXCEPT !.phase = 1, !.left = c.len], b |-> b, n |-> 0], mode)
  ELSE Plain(td, [st |-> [(IF td.variant = "ANY" /\ mode # 1 THEN Put(st, First(b, c.n)) ELSE st)
                          EXCEPT !.phase = 3, !.left = c.len], b |-> Drop(b, c.n), n |-> c.n])
OCTET_STRING_decode_ber(td, st, b, mode) ==
  LET r == [st |-> st, b |-> b, n |-> 0] IN
  Masked(td, CASE st.phase = 0 -> OctetStart(td, st, b, mode)
               [] st.phase = 1 -> Pieces(td, r, mode)
               [] st.phase = 2 -> Octets(td, r, mode)
               [] st.phase = 3 -> Plain(td, r)
               [] OTHER -> Ret(r, "OK"))

-----------------------------------------------------------------------------
(* Composed types.                                                         *)

\* The tags with which a value of a type may begin, in a context.
\* An element that is the untagged ANY (ATF_OPEN_TYPE).
OpenType(e) == e.type.kind = "string" /\ e.type.variant = "ANY" /\ e.tag = <<>>
RECURSIVE OutmostTags(_)
OutmostTags(e) == IF OpenType(e) THEN {} ELSE IF e.tag # <<>> THEN {e.tag} ELSE UNION {OutmostTags(e.type.elements[i]) : i \in DOMAIN e.type.elements}

\* The decoder of element i, on its structure, called with the window.
Member(td, r, i) == LET e == td.elements[i] IN
  Decode(e.type, IF r.st.memb[i] = Null THEN Begun(e.type) ELSE r.st.memb[i], Window(r), e.mode)
\* What the decoder of an element said: d; without an OK the caller returns.
Stored(r, i, d) == [r EXCEPT !.st.memb[i] = d.st]
\* Faulty variant: what the element took is not counted.
NotOkStill(r, d) == IF d.code = "WMORE" /\ ~SizeViolation(r) THEN Ret(r, "WMORE") ELSE Ret(r, "FAIL")
NotOk(r, d) == IF d.code = "HANG" THEN Ret(r, "HANG")
               ELSE IF d.code = "WMORE" /\ ~SizeViolation(r) THEN Ret(Advance(r, d.n), "WMORE") ELSE Ret(r, "FAIL")

\* SEQUENCE.  edx counts from 0.
IN_EXTENSION_GROUP(td, i) == i > td.ext_after /\ i < td.ext_before
Opt(td, edx) == td.elements[edx + 1].opt
\* Whether the structure may end before element edx.
MayEnd(td, edx) == \/ edx + Opt(td, edx) = Len(td.elements)
                   \/ IN_EXTENSION_GROUP(td, edx) /\ td.ext_before > Len(td.elements)

\* The element that a tag stands for at element edx, or -1: no more than eight are
\* looked at one by one, an open type takes any tag, and the rest is searched for
\* in the table of tags.
Capped(td, edx) == edx + Opt(td, edx) + 1 <= Len(td.elements) /\ Opt(td, edx) + 1 > 8
LinearEnd(td, edx) == IF Capped(td, edx) THEN edx + 8
                      ELSE IF edx + Opt(td, edx) + 1 > Len(td.elements) THEN Len(td.elements) ELSE edx + Opt(td, edx) + 1
FindElement(td, edx, tag) ==
  LET lin  == {n \in edx .. LinearEnd(td, edx) - 1 : td.elements[n + 1].tag \in {tag, <<>>}}
      n    == CHOOSE x \in lin : \A y \in lin : x <= y
      best == {k \in edx .. edx + Opt(td, edx) : k < Len(td.elements) /\ tag \in OutmostTags(td.elements[k + 1])} IN
  IF lin # {} /\ (td.elements[n + 1].tag = tag \/ OpenType(td.elements[n + 1])) THEN n
  ELSE IF (lin = {} /\ ~Capped(td, edx)) \/ best = {} THEN -1 ELSE CHOOSE x \in best : \A y \in best : x >= y

RECURSIVE SeqMembers(_, _, _)
\* Microphase 2: the element's own decoder.
SeqElement(td, r, edx) == LET d == Member(td, r, edx + 1)  q == Stored(r, edx + 1, d) IN
  IF d.code # "OK" THEN NotOk(q, d)
  ELSE SeqMembers(td, [Advance(q, d.n) EXCEPT !.st.step = 2 * (@ \div 2) + 2], edx + 1)

\* Microphase 1: which element the next tag is of.
SeqSynchronize(td, r, edx) ==
  LET w == Window(r)  t == ber_fetch_tag(w)  n == FindElement(td, edx, t.tag) IN
  CASE r.st.left = 0 /\ MayEnd(td, edx) -> Ret(PhaseOut(r), "OK")
    [] ~(r.st.left = 0 /\ MayEnd(td, edx)) /\ t.n <= 0 -> Ret(r, IF t.n = 0 THEN More(r) ELSE "FAIL")
    [] t.n > 0 /\ r.st.left < 0 /\ HalfMark(w) -> Ret(r, More(r))
    [] t.n > 0 /\ r.st.left < 0 /\ EndMark(w) /\ MayEnd(td, edx) ->
         Finish([r EXCEPT !.st.phase = 3], IN_EXTENSION_GROUP(td, Len(td.elements)))
    [] OTHER ->
         IF n >= 0 THEN SeqElement(td, [r EXCEPT !.st.step = 1 + 2 * n], n)
         ELSE IF ~IN_EXTENSION_GROUP(td, edx + Opt(td, edx)) THEN Ret(r, "FAIL")
         ELSE LET skip == ber_skip_length(Constructed(w), Drop(w, t.n)) IN
              IF skip <= 0 THEN Ret(r, IF skip = 0 THEN More(r) ELSE "FAIL")
              ELSE SeqMembers(td, Advance(r, skip + t.n), edx + Opt(td, edx))

SeqMembers(td, r, edx) ==
  IF edx >= Len(td.elements) THEN Finish([r EXCEPT !.st.phase = 3], IN_EXTENSION_GROUP(td, Len(td.elements)))
  ELSE IF r.st.step % 2 = 1 THEN SeqElement(td, r, edx)
  ELSE SeqSynchronize(td, r, edx)

SEQUENCE_decode_ber(td, st, b, mode) ==
  LET r == [st |-> st, b |-> b, n |-> 0] IN
  CASE st.phase = 0 -> LET e == Enter(td, st, b, mode, 1) IN
                       IF e.code # "OK" THEN Ret(e.r, e.code) ELSE SeqMembers(td, e.r, 0)
    [] st.phase = 1 -> SeqMembers(td, r, st.step \div 2)
    [] st.phase \in {3, 4} -> Finish(r, IN_EXTENSION_GROUP(td, Len(td.elements)))
    [] OTHER -> Ret(r, "OK")

\* SET.
_SET_is_populated(td, st) == \A i \in DOMAIN td.elements : td.elements[i].opt = 0 => i \in st.present
SetEnd(td, d) == IF d.code = "OK" /\ ~_SET_is_populated(td, d.st) THEN [d EXCEPT !.code = "FAIL", !.st.phase = 5]
                 ELSE d

RECURSIVE SetMembers(_, _)
SetElement(td, r, i) == LET d == Member(td, r, i)  q == Stored(r, i, d) IN
  IF i \in r.st.present THEN Ret(r, "FAIL")
  ELSE IF d.code # "OK" THEN NotOk(q, d)
  ELSE SetMembers(td, [Advance(q, d.n) EXCEPT !.st.step = 0, !.st.present = @ \cup {i}])

SetMembers(td, r) ==
  LET w == Window(r)  t == ber_fetch_tag(w)
      of == {i \in DOMAIN td.elements : t.tag \in OutmostTags(td.elements[i])} IN
  CASE r.st.step % 2 = 1 -> SetElement(td, r, (r.st.step \div 2) + 1)
    [] r.st.step % 2 = 0 /\ r.st.left = 0 -> Finish([r EXCEPT !.st.phase = 3], td.ext)
    [] r.st.step % 2 = 0 /\ r.st.left # 0 /\ t.n <= 0 -> Ret(r, IF t.n = 0 THEN More(r) ELSE "FAIL")
    [] r.st.step % 2 = 0 /\ t.n > 0 /\ r.st.left < 0 /\ HalfMark(w) -> Ret(r, More(r))
    [] r.st.step % 2 = 0 /\ t.n > 0 /\ r.st.left < 0 /\ EndMark(w) -> Finish([r EXCEPT !.st.phase = 3], td.ext)
    [] OTHER -> IF of # {} THEN LET i == CHOOSE i \in of : TRUE IN SetElement(td, [r EXCEPT !.st.step = 2 * i - 1], i)
                ELSE LET skip == ber_skip_length(Constructed(w), Drop(w, t.n)) IN
                     IF ~td.ext \/ skip = -1 THEN Ret(r, "FAIL")
                     ELSE IF skip = 0 THEN Ret(r, More(r))
                     ELSE SetMembers(td, Advance(r, skip + t.n))

SET_decode_ber(td, st, b, mode) ==
  LET r == [st |-> st, b |-> b, n |-> 0] IN
  SetEnd(td, CASE st.phase = 0 -> LET e == Enter(td, st, b, mode, 1) IN
                                  IF e.code # "OK" THEN Ret(e.r, e.code) ELSE SetMembers(td, e.r)
               [] st.phase = 1 -> SetMembers(td, r)
               [] st.phase \in {3, 4} -> Finish(r, td.ext)
               [] OTHER -> Ret(r, "OK"))

\* SET OF and SEQUENCE OF.
RECURSIVE OfMembers(_, _)
OfElement(td, r) ==
  LET e == td.elements[1]
      d == Decode(e.type, IF r.st.ptr = Null THEN Begun(e.type) ELSE r.st.ptr, Window(r), 0)
  IN
  CASE d.code = "OK" -> OfMembers(td, [Advance(r, d.n) EXCEPT !.st.step = 0, !.st.ptr = Null, !.st.list = Append(@, d.st)])
    [] d.code = "WMORE" /\ ~SizeViolation(r) -> Ret(Advance([r EXCEPT !.st.ptr = d.st], d.n), "WMORE")
    [] OTHER -> Ret([r EXCEPT !.st.ptr = Null], IF d.code = "HANG" THEN "HANG" ELSE "FAIL")
\* Phase 2: end marks only.
RECURSIVE OfEnd(_)
OfEnd(r) == LET w == Window(r) IN
  CASE r.st.left >= 0 -> Ret(PhaseOut(r), "OK")
    [] r.st.left < 0 /\ Len(w) < 2 -> Ret(r, IF w # <<>> /\ w[1] # 0 THEN "FAIL" ELSE "WMORE")
    [] r.st.left < 0 /\ EndMark(w) -> OfEnd([Advance(r, 2) EXCEPT !.st.left = @ + 1])
    [] OTHER -> Ret(r, "FAIL")
OfMembers(td, r) ==
  LET w == Window(r)  t == ber_fetch_tag(w) IN
  CASE r.st.step = 1 -> OfElement(td, r)
    [] r.st.step = 0 /\ r.st.left = 0 -> Ret(PhaseOut(r), "OK")
    [] r.st.step = 0 /\ r.st.left # 0 /\ t.n <= 0 -> Ret(r, IF t.n = 0 THEN More(r) ELSE "FAIL")
    [] r.st.step = 0 /\ t.n > 0 /\ r.st.left < 0 /\ HalfMark(w) -> Ret(r, More(r))
    [] r.st.step = 0 /\ t.n > 0 /\ r.st.left < 0 /\ EndMark(w) -> OfEnd(NextPhase(r))
    [] OTHER -> IF td.elements[1].tag \notin {<<>>, t.tag} THEN Ret(r, "FAIL")
                ELSE OfElement(td, [r EXCEPT !.st.step = 1])
SET_OF_decode_ber(td, st, b, mode) ==
  LET r == [st |-> st, b |-> b, n |-> 0] IN
  CASE st.phase = 0 -> LET e == Enter(td, st, b, mode, 1) IN
                       IF e.code # "OK" THEN Ret(e.r, e.code) ELSE OfMembers(td, e.r)
    [] st.phase = 1 -> OfMembers(td, r)
    [] st.phase = 2 -> OfEnd(r)
    [] OTHER -> Ret(r, "OK")

\* CHOICE.
Tagged(td, mode) == mode # 0 \/ td.tags # <<>>
\* Phase 3: end marks of its own tags.  An octet 0 that is not followed by another
\* one is met again for ever.
RECURSIVE ChoiceEnd(_, _, _)
ChoiceEnd(td, r, mode) == LET w == Window(r)  t == ber_fetch_tag(w) IN
  CASE r.st.left > 0 -> Ret(r, "FAIL")
    [] r.st.left = 0 \/ (r.st.left = -1 /\ ~Tagged(td, mode)) -> Ret([r EXCEPT !.st.phase = 4], "OK")
    [] r.st.left < 0 /\ Tagged(td, mode) /\ t.n <= 0 -> Ret(r, IF t.n = 0 THEN More(r) ELSE "FAIL")
    [] r.st.left < 0 /\ Tagged(td, mode) /\ HalfMark(w) -> Ret(r, More(r))
    [] r.st.left < 0 /\ Tagged(td, mode) /\ EndMark(w) -> ChoiceEnd(td, [Advance(r, 2) EXCEPT !.st.left = @ + 1], mode)
    [] OTHER -> Ret(r, IF w[1] = 0 THEN "HANG" ELSE "FAIL")
\* Phase 2: the alternative's own decoder.
Alternative(td, r, mode) ==
  LET i == r.st.step + 1
      q == [r EXCEPT !.st.present = {i}]
      d == Member(td, q, i) IN
  IF d.code # "OK" THEN NotOk(Stored(q, i, d), d) ELSE ChoiceEnd(td, [NextPhase(Advance(Stored(q, i, d), d.n)) EXCEPT !.st.phase = 3], mode)
\* Phase 1: which alternative the tag is of; an unknown one of an extensible type
\* is skipped.
Select(td, r, mode) ==
  LET w == Window(r)  t == ber_fetch_tag(w)
      of == {i \in DOMAIN td.elements : t.tag \in OutmostTags(td.elements[i])} IN
  IF t.n <= 0 THEN Ret(r, IF t.n = 0 THEN More(r) ELSE "FAIL")
  ELSE IF of # {} THEN Alternative(td, [NextPhase(r) EXCEPT !.st.step = (CHOOSE i \in of : TRUE) - 1], mode)
  ELSE LET skip == ber_skip_length(Constructed(w), Drop(w, t.n)) IN
       IF ~td.ext \/ skip = -1 THEN Ret(r, "FAIL")
       ELSE IF skip = 0 THEN Ret(r, More(r))
       ELSE Ret(Advance(r, skip + t.n), "OK")
CHOICE_decode_ber(td, st, b, mode) ==
  LET r == [st |-> st, b |-> b, n |-> 0] IN
  CASE st.phase = 0 ->
         IF ~Tagged(td, mode) THEN Select(td, NextPhase([r EXCEPT !.st.left = -1]), mode)
         ELSE LET e == Enter(td, st, b, mode, -1) IN
              IF e.code # "OK" THEN Ret(e.r, e.code) ELSE Select(td, e.r, mode)
    [] st.phase = 1 -> Select(td, r, mode)
    [] st.phase = 2 -> Alternative(td, r, mode)
    [] st.phase = 3 -> ChoiceEnd(td, r, mode)
    [] OTHER -> Ret(r, "OK")

ber_decoder(td, st, b, mode) == LET k == td.kind IN
  CASE k \in {"prim", "int"} -> ber_decode_primitive(td, st, b, mode)
    [] k = "string" -> OCTET_STRING_decode_ber(td, st, b, mode)
    [] k = "seq" -> SEQUENCE_decode_ber(td, st, b, mode)
    [] k = "set" -> SET_decode_ber(td, st, b, mode)
    [] k = "of" -> SET_OF_decode_ber(td, st, b, mode)
    [] k = "choice" -> CHOICE_decode_ber(td, st, b, mode)

-----------------------------------------------------------------------------
(* What a structure says, and its DER encoding: <<>> when it cannot be     *)
(* encoded.                                                                *)

RECURSIVE Value(_, _)
Value(td, st) ==
  CASE td.kind \in {"prim", "int"} -> st.buf
    [] td.kind = "string" -> IF td.variant = "BIT" THEN <<st.unused, st.buf>> ELSE st.buf
    [] td.kind = "of" -> [i \in DOMAIN st.list |-> Value(td.elements[1].type, st.list[i])]
    [] OTHER -> [i \in DOMAIN st.memb |-> IF st.memb[i] = Null \/ (td.kind = "choice" /\ i \notin st.present) THEN Null
                                           ELSE Value(td.elements[i].type, st.memb[i])]

\* INTEGER_encode_der drops octets that say nothing.
RECURSIVE Shortest(_)
Shortest(v) == IF Len(v) > 1 /\ ((v[1] = 0 /\ v[2] < 128) \/ (v[1] = 255 /\ v[2] >= 128)) THEN Shortest(Tail(v)) ELSE v

\* _el_buf_cmp and _t2e_cmp, as orders.
Before(a, b) == \/ \E i \in 1..Len(a) : i <= Len(b) /\ a[i] < b[i] /\ \A j \in 1..i - 1 : a[j] = b[j]
                \/ Len(a) < Len(b) /\ \A j \in 1..Len(a) : a[j] = b[j]
RECURSIVE Flat(_)
Flat(s) == IF s = <<>> THEN <<>> ELSE Head(s) \o Flat(Tail(s))

Parts(td, v) == [i \in DOMAIN v |-> IF v[i] = Null THEN <<>>
                                     ELSE Encode(td.elements[i].type, v[i], td.elements[i].mode, td.elements[i].tag)]
Lacks(td, v) == \E i \in DOMAIN v : v[i] = Null /\ td.elements[i].opt = 0

SEQUENCE_encode_der(td, v, mode, tag) == IF Lacks(td, v) THEN <<>> ELSE der_write_tags(td, Flat(Parts(td, v)), mode, TRUE, tag)
\* In the order of the tags.
SET_encode_der(td, v, mode, tag) ==
  IF Lacks(td, v) THEN <<>>
  ELSE der_write_tags(td, Flat(SortSeq(SelectSeq(Parts(td, v), LAMBDA p : p # <<>>),
         LAMBDA a, b : Before(ber_fetch_tag(a).tag, ber_fetch_tag(b).tag))), mode, TRUE, tag)
\* SET_OF_encode_der sorts the encodings, SEQUENCE_OF_encode_der keeps the order.
SET_OF_encode_der(td, v, mode, tag) ==
  LET enc == [i \in DOMAIN v |-> Encode(td.elements[1].type, v[i], 0, td.elements[1].tag)] IN
  der_write_tags(td, Flat(IF td.sorted THEN SortSeq(enc, Before) ELSE enc), mode, TRUE, tag)
CHOICE_encode_der(td, v, mode, tag) ==
  LET here == {i \in DOMAIN v : v[i] # Null}
      i    == CHOOSE i \in here : TRUE IN
  IF here = {} THEN <<>>
  ELSE LET enc == Encode(td.elements[i].type, v[i], td.elements[i].mode, td.elements[i].tag) IN
       IF mode = 1 \/ td.tags # <<>> THEN der_write_tags(td, enc, mode, TRUE, tag) ELSE enc
OCTET_STRING_encode_der(td, v, mode, tag) ==
  LET fixed == IF v[2] = <<>> THEN <<>> ELSE [v[2] EXCEPT ![Len(v[2])] = @ - (@ % (2 ^ (v[1] % 8)))] IN
  CASE td.variant = "BIT" -> der_write_tags(td, <<v[1] % 8>> \o fixed, mode, FALSE, tag)
    [] td.variant = "STR" -> der_write_tags(td, v, mode, FALSE, tag)
    [] td.variant = "ANY" -> IF mode = 1 THEN der_write_tags(td, v, mode, TRUE, tag) ELSE v
der_encode_primitive(td, v, mode, tag) == der_write_tags(td, IF td.kind = "int" THEN Shortest(v) ELSE v, mode, FALSE, tag)

der_encoder(td, v, mode, tag) == LET k == td.kind IN
  CASE k \in {"prim", "int"} -> der_encode_primitive(td, v, mode, tag)
    [] k = "string" -> OCTET_STRING_encode_der(td, v, mode, tag)
    [] k = "seq" -> SEQUENCE_encode_der(td, v, mode, tag)
    [] k = "set" -> SET_encode_der(td, v, mode, tag)
    [] k = "of" -> SET_OF_encode_der(td, v, mode, tag)
    [] k = "choice" -> CHOICE_encode_der(td, v, mode, tag)

ber_decode(td, st, b) == Decode(td, st, b, 0)
der_encode(td, v) == Encode(td, v, 0, <<>>)

-----------------------------------------------------------------------------
(* Types and inputs.                                                       *)

U(n) == <<0, n>>
X(n) == <<2, n>>

INTEGER == [kind |-> "int", tags |-> <<U(2)>>]
Prim == [kind |-> "prim", tags |-> <<U(10)>>]
STRING_ == [kind |-> "string", variant |-> "STR", tags |-> <<U(4)>>]
BITSTRING == [kind |-> "string", variant |-> "BIT", tags |-> <<U(3)>>]
ANY == [kind |-> "string", variant |-> "ANY", tags |-> <<>>]
E(t, m, o, td) == [tag |-> t, mode |-> m, opt |-> o, type |-> td]
Elem(td) == E(td.tags[1], 0, 0, td)

Seq1 == [kind |-> "seq", tags |-> <<U(16)>>, ext_after |-> 9, ext_before |-> 9,
         elements |-> <<E(U(2), 0, 1, INTEGER), Elem(STRING_), E(X(1), -1, 1, INTEGER)>>]
\* Extensible at its end.
SeqX == [kind |-> "seq", tags |-> <<U(16)>>, ext_after |-> 0, ext_before |-> 3,
         elements |-> <<Elem(INTEGER), E(X(1), -1, 1, STRING_)>>]
Set1 == [kind |-> "set", tags |-> <<U(17)>>, ext |-> TRUE,
         elements |-> <<E(X(1), -1, 0, STRING_), Elem(INTEGER), E(X(0), -1, 1, INTEGER)>>]
SetOf == [kind |-> "of", tags |-> <<U(17)>>, sorted |-> TRUE, elements |-> <<Elem(INTEGER)>>]
SeqOf == [kind |-> "of", tags |-> <<U(16)>>, sorted |-> FALSE, elements |-> <<Elem(Seq1)>>]
Cho == [kind |-> "choice", tags |-> <<>>, ext |-> FALSE, elements |-> <<E(X(1), -1, 0, INTEGER), E(U(4), 0, 0, STRING_)>>]
\* An element without a tag of its own, and one that is explicitly tagged.
SeqC == [kind |-> "seq", tags |-> <<U(16)>>, ext_after |-> 9, ext_before |-> 9,
         elements |-> <<E(<<>>, 0, 1, Cho), E(X(40), 1, 0, Cho)>>]

\* An open type, and more elements that may be left out than are looked at.
SeqAny == [kind |-> "seq", tags |-> <<U(16)>>, ext_after |-> 9, ext_before |-> 9,
           elements |-> <<E(U(2), 0, 1, INTEGER), E(<<>>, 0, 0, ANY)>>]
SeqLong == [kind |-> "seq", tags |-> <<U(16)>>, ext_after |-> 19, ext_before |-> 19,
            elements |-> [i \in 1..9 |-> E(X(i), -1, 10 - i, INTEGER)] \o <<Elem(STRING_)>>]

Ints == {<<5>>, <<1, 0>>}
Strs == {<<>>, <<7, 8>>}
ValuesOf(td) ==
  CASE td = INTEGER -> Ints
    [] td = STRING_ -> Strs
    [] td = BITSTRING -> {<<0, <<>>>>, <<4, <<240, 16>>>>}
    [] td = Seq1 -> {<<Null, <<7>>, Null>>, <<<<5>>, <<7, 8>>, <<1>>>>}
    [] td = SeqX -> {<<<<5>>, Null>>, <<<<5>>, <<7>>>>}
    [] td = Set1 -> {<<<<7>>, <<5>>, Null>>, <<<<>>, <<5>>, <<1>>>>}
    [] td = SetOf -> {<<>>, <<<<9>>>>, <<<<5>>, <<1, 0>>>>}
    [] td = SeqOf -> {<<<<<<5>>, <<7>>, Null>>>>}
    [] td = Cho -> {<<<<5>>, Null>>, <<Null, <<7>>>>}
    [] td = SeqAny -> {<<Null, <<4, 1, 7>>>>, <<<<5>>, <<48, 3, 2, 1, 5>>>>}
    [] td = SeqLong -> {[i \in 1..10 |-> IF i = 10 THEN <<7>> ELSE Null],
                        [i \in 1..10 |-> IF i = 10 THEN <<7>> ELSE IF i \in {1, 9} THEN <<5>> ELSE Null]}
    [] td = SeqC -> {<<Null, <<<<5>>, Null>>>>, <<<<Null, <<7>>>>, <<Null, <<>>>>>>}
    [] OTHER -> {}

\* Other forms of BER: indefinite and long lengths, strings in pieces, unknown
\* extensions, a trailing octet, an element longer than what it is in.
Forms(td) ==
  CASE td = INTEGER -> {<<2, 129, 1, 5>>, <<2, 2, 0, 5>>, <<2, 1, 5, 9>>}
    [] td = STRING_ -> {<<36, 4, 4, 2, 7, 8>>, <<36, 128, 4, 1, 7, 36, 3, 4, 1, 8, 0, 0>>, <<36, 4, 36, 2, 4, 0>>,
                    <<36, 128, 36, 128, 4, 1, 7, 0, 0, 0, 0>>, <<36, 7, 36, 128, 4, 1, 7, 0, 0>>}
    [] td = BITSTRING -> {<<35, 7, 3, 2, 0, 7, 3, 1, 4>>, <<3, 2, 3, 255>>}
    [] td = ANY -> {<<4, 1, 7>>, <<36, 128, 4, 1, 7, 0, 0>>, <<48, 3, 2, 1, 5>>}
    [] td = Seq1 -> {<<48, 128, 2, 1, 5, 4, 1, 7, 0, 0>>, <<48, 128, 36, 128, 4, 1, 7, 0, 0, 0, 0>>, <<48, 129, 3, 4, 1, 7>>}
    [] td = SeqX -> {<<48, 6, 2, 1, 5, 4, 1, 7>>, <<48, 128, 2, 1, 5, 36, 128, 4, 0, 0, 0, 0, 0>>}
    [] td = Set1 -> {<<49, 9, 2, 1, 5, 129, 1, 7, 128, 1, 1>>, <<49, 9, 2, 1, 5, 12, 1, 7, 129, 1, 7>>,
                     <<49, 128, 129, 0, 2, 1, 5, 0, 0>>}
    [] td = SetOf -> {<<49, 6, 2, 1, 5, 2, 1, 4>>, <<49, 128, 2, 1, 5, 0, 0>>, <<49, 2, 2, 1>>}
    [] td = SeqAny -> {<<48, 128, 36, 128, 4, 1, 7, 0, 0, 0, 0>>, <<48, 3, 2, 1, 5>>}
    [] td = SeqLong -> {<<48, 128, 137, 1, 5, 4, 1, 7, 0, 0>>, <<48, 3, 5, 1, 7>>}
    [] td = SeqC -> {<<48, 6, 191, 40, 3, 129, 1, 5>>, <<48, 128, 4, 0, 191, 40, 128, 4, 0, 0, 0, 0, 0>>}
    [] OTHER -> {}

Encoded(td) == {[td |-> td, in |-> der_encode(td, v), v |-> v] : v \in ValuesOf(td)}
Formed(td) == {[td |-> td, in |-> s, v |-> Null] : s \in Forms(td)}
\* One octet wrong, or the end missing.
Spoilt(set) == UNION {{[c EXCEPT !.in[i] = o, !.v = Null] : i \in DOMAIN c.in, o \in {0, 1, 4, 48, 128, 130}} : c \in set}
Cut(set) == {[c EXCEPT !.in = First(@, Len(@) - 1), !.v = Null] : c \in {c \in set : Len(c.in) > 1}}

AllTypes == {INTEGER, STRING_, BITSTRING, ANY, Seq1, SeqX, Set1, SetOf, SeqOf, Cho, SeqC, SeqAny, SeqLong}
Good == UNION {Encoded(td) \cup Formed(td) : td \in AllTypes}
GoodCases == Good \cup Cut(Good)
\* (Without explicit tags, where the outcome may depend on the cut.)
SpoiltCases == Spoilt({c \in Good : c.td # SeqC})

\* Two tags, one around the other.
TwoTags == [SetOf EXCEPT !.tags = <<X(5), U(17)>>]
TwoTagsCases == Encoded(TwoTags) \cup {[td |-> TwoTags, in |-> <<165, 128, 49, 128, 2, 1, 5, 0, 0, 0, 0>>, v |-> Null]}
\* End marks of a choice.
HangCases == {[td |-> SeqC, in |-> <<48, 128, 191, 40, 128, 4, 0, 0, 1, 0, 0>>, v |-> Null]}

CONSTANT Inputs   \* which of them
\* [td, in, v]: a type, an input, and the value it is the encoding of, or Null.
Cases ==
  CASE Inputs = "good" -> GoodCases
    [] Inputs = "spoilt" -> SpoiltCases
    [] Inputs = "twotags" -> TwoTagsCases
    [] Inputs = "hang" -> HangCases

-----------------------------------------------------------------------------
(***************************************************************************)
(* A BER decoder that is given its input in pieces of any size, and called *)
(* again with what it left and what came since for as long as it wants     *)
(* more.                                                                   *)
(***************************************************************************)

BerStreamAssumption == \A c \in Cases : c.in # <<>>

VARIABLES case, fed, used, st, code

vars == <<case, fed, used, st, code>>

Init == /\ case \in Cases /\ fed = 0 /\ used = 0 /\ code = "WMORE"
        /\ st = Begun(case.td)

Feed == \E k \in 1 .. Len(case.in) - fed :
  /\ code = "WMORE" /\ fed' = fed + k
  /\ \E d \in {ber_decode(case.td, st, SubSeq(case.in, used + 1, fed + k))} :
       /\ used' = used + d.n /\ st' = d.st /\ code' = d.code
  /\ UNCHANGED case

Spec == Init /\ [][Feed]_vars

-----------------------------------------------------------------------------
(* TLVs by the book, for comparison: 0 when the octets hold no whole one.  *)
(* (The length 128 of a primitive one, which BER does not have, is 0.)     *)

RECURSIVE TlvLength(_)
RECURSIVE TlvsLength(_)
TlvLength(b) ==
  LET t == CHOOSE i \in 1 .. Len(b) + 1 : i = Len(b) + 1 \/ (i = 1 /\ b[1] % 32 # 31)
                    \/ (i > 1 /\ b[1] % 32 = 31 /\ b[i] < 128 /\ \A j \in 2 .. i - 1 : b[j] >= 128)
      o == IF Len(b) > t THEN b[t + 1] ELSE 0
      k == IF o > 128 THEN o - 128 ELSE 0
      RECURSIVE Num(_)
      Num(i) == IF i = 0 THEN 0 ELSE Num(i - 1) * 256 + b[t + 1 + i] IN
  IF b = <<>> \/ Len(b) < t + 1 + k THEN 0
  ELSE IF o = 128 /\ Constructed(b) THEN LET n == TlvsLength(Drop(b, t + 1)) IN IF n = 0 THEN 0 ELSE t + 1 + n
  ELSE LET n == t + 1 + k + (IF o < 128 THEN o ELSE Num(k)) IN IF n > Len(b) THEN 0 ELSE n
\* TLVs up to an end mark.
TlvsLength(b) == IF EndMark(b) THEN 2
                 ELSE LET n == TlvLength(b) IN
                      IF n = 0 THEN 0 ELSE LET m == TlvsLength(Drop(b, n)) IN IF m = 0 THEN 0 ELSE n + m

Whole == ber_decode(case.td, Begun(case.td), case.in)

-----------------------------------------------------------------------------
\* What was taken was there; a decoder that is done has no element half decoded.
TypeOK == /\ 0 <= used /\ used <= fed /\ fed <= Len(case.in)
          /\ code \in {"OK", "WMORE", "FAIL", "HANG"}
          /\ code = "OK" /\ case.td.kind = "of" => st.ptr = Null

\* How the input is cut has no effect on the outcome: "Start to parse where left
\* previously".
Restartable ==
  \/ code = "WMORE" /\ fed < Len(case.in)
  \/ code = Whole.code /\ (code = "OK" => used = Whole.n /\ Value(case.td, st) = Value(case.td, Whole.st))

\* A decoder that succeeds took one TLV, all of it and nothing else.
WholeTlv == code = "OK" => used = TlvLength(case.in)

\* A decoder that has one whole TLV knows its answer.  (That of a string in pieces
\* does not: it waits for the rest of a piece that its own length cuts.)
Decides == code = "WMORE" /\ case.td.kind # "string" => TlvLength(First(case.in, fed)) = 0

\* The value of an encoding is the value that was encoded; the DER encoding of
\* what was decoded from any other form decodes to something with the same DER
\* encoding.
RoundTrip ==
  code = "OK" =>
    LET v   == Value(case.td, st)
        der == der_encode(case.td, v)
        d   == ber_decode(case.td, Begun(case.td), der) IN
    /\ case.v # Null => v = case.v
    /\ der # <<>> => d.code = "OK" /\ d.n = Len(der) /\ der_encode(case.td, Value(case.td, d.st)) = der

\* What was decoded can be encoded: nothing that must be there is missing.
Encodable == code = "OK" => der_encode(case.td, Value(case.td, st)) # <<>>

\* Nothing is decoded for ever: "UNREACHABLE".
Unreachable == code # "HANG"
=============================================================================
