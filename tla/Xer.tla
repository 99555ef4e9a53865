--------------------------------- MODULE Xer ---------------------------------
(***************************************************************************)
(* XER, the XML encoding of libasn1c.  Text, tags and comments are cut out *)
(* of a buffer that may end anywhere (the tokenizer of xer_support.c and   *)
(* xer_decoder.c); characters are their codes.                             *)
(*                                                                         *)
(* The decoders and encoders are those of small types.  A type td has a    *)
(* kind, the xml_tag of its own and, when it is composed, elements         *)
(* [name, opt, type]; opt is the number of optional elements from here on  *)
(* without a break.  ext_after and ext_before delimit the extensions of a  *)
(* SEQUENCE, ext says whether a SET or CHOICE has any.  valuelist is       *)
(* as_XMLValueList: 0, 1 (elements are empty tags) or 2 (CHOICEs).         *)
(*                                                                         *)
(* A decoder is called with a structure, the tag it is in and what there   *)
(* is of the input; it returns a code, the characters it took and the      *)
(* structure with the context from which the next call goes on.  An        *)
(* encoder returns the text and the number of characters it says it wrote: *)
(* -1 when it failed, -2 when an assertion of its own did.  The canonical  *)
(* form has no white space.                                                *)
(***************************************************************************)
EXTENDS Integers, Sequences, FiniteSets, TLC

CONSTANTS Null,
          Decode(_, _, _, _),   \* td->xer_decoder: type, structure, tag, buffer
          Encode(_, _, _, _)    \* td->xer_encoder: type, value, level, canonical

EXCLAM == 33
CQUOTE == 34
CDASH  == 45
CSLASH == 47
LANGLE == 60
CEQUAL == 61
RANGLE == 62
NL     == 10

Drop(s, k) == SubSeq(s, k + 1, Len(s))
First(s, k) == SubSeq(s, 1, k)

Digit == 48 .. 57
Alpha == (65 .. 90) \cup (97 .. 122)
\* What the parser and the tags take for white space, and what a body does.
Space == {9, 10, 12, 13, 32}
Blank == {9, 10, 13, 32}

xer_is_whitespace(s) == \A i \in DOMAIN s : s[i] \in Blank

-----------------------------------------------------------------------------
(* The parser.  A character moves it to a state and may end a chunk, with  *)
(* the character (too = 1) or before it (too = 0).                         *)

Silent(s) == [to |-> s, type |-> "", too |-> 0]
Chunk(type, s, too) == [to |-> s, type |-> type, too |-> too]

InTag(state, C) ==
  CASE state = "TAG_START" -> IF C \in Alpha \cup {CSLASH} THEN Silent("TAG_BODY")
                              ELSE IF C = EXCLAM THEN Silent("COMMENT_WAIT_DASH1") ELSE Chunk("TEXT", "TEXT", 1)
    [] state # "TAG_START" /\ state # "TAG_QUOTED_STRING" /\ C = RANGLE -> Chunk("TAG", "TEXT", 1)
    [] state = "TAG_BODY" /\ C = LANGLE -> Chunk("TAG", "TAG_START", 0)
    [] state = "TAG_BODY" /\ C = CEQUAL -> Silent("TAG_QUOTE_WAIT")
    [] state = "TAG_QUOTE_WAIT" /\ C = CQUOTE -> Silent("TAG_QUOTED_STRING")
    [] state = "TAG_QUOTE_WAIT" /\ C \notin Space \cup {CQUOTE, RANGLE} -> Silent("TAG_UNQUOTED_STRING")
    [] state = "TAG_QUOTED_STRING" /\ C = CQUOTE -> Silent("TAG_BODY")
    [] state = "TAG_UNQUOTED_STRING" /\ C \in Space -> Silent("TAG_BODY")
    [] OTHER -> Silent(state)
InComment(state, C) ==
  CASE state = "COMMENT_WAIT_DASH1" -> Silent(IF C = CDASH THEN "COMMENT_WAIT_DASH2" ELSE "TAG_BODY")
    [] state = "COMMENT_WAIT_DASH2" -> Silent(IF C = CDASH THEN "COMMENT" ELSE "TAG_BODY")
    [] state = "COMMENT" -> Silent(IF C = CDASH THEN "COMMENT_CLO_DASH2" ELSE state)
    [] state = "COMMENT_CLO_DASH2" -> Silent(IF C = CDASH THEN "COMMENT_CLO_RT" ELSE "COMMENT")
    [] state = "COMMENT_CLO_RT" -> IF C = RANGLE THEN Chunk("COMMENT", "TEXT", 1)
                                   ELSE Silent(IF C = CDASH THEN state ELSE "COMMENT")
TagStates == {"TAG_START", "TAG_BODY", "TAG_QUOTE_WAIT", "TAG_QUOTED_STRING", "TAG_UNQUOTED_STRING"}
Character(state, C) ==
  IF state = "TEXT" THEN (IF C = LANGLE THEN Chunk("TEXT", "TAG_START", 0) ELSE Silent(state))
  ELSE IF state \in TagStates THEN InTag(state, C) ELSE InComment(state, C)

\* The first chunk of b, from its p-th character on; 0 long when b may hold only a
\* part of it.  Text and comments may be cut anywhere.  The state moves on only
\* when the chunk includes the character that ended it.
RECURSIVE pxml_parse(_, _, _)
Parsed(state, b, p, c) ==
  IF c.type = "" \/ p - 1 + c.too = 0 THEN pxml_parse(c.to, b, p + 1)
  ELSE [type |-> c.type, n |-> p - 1 + c.too, context |-> IF c.too = 1 THEN c.to ELSE state]
pxml_parse(state, b, p) ==
  IF p <= Len(b) THEN Parsed(state, b, p, Character(state, b[p]))
  ELSE [type |-> state, n |-> IF state \in {"TEXT", "COMMENT"} THEN Len(b) ELSE 0, context |-> state]

xer_next_token(context, b) == pxml_parse(context, b, 1)

-----------------------------------------------------------------------------
(* Tags: opening, closing, both or broken; known when they have the name.  *)

Kind(t) ==
  LET closing == t[2] = CSLASH
      slash == t[Len(t) - 1] = CSLASH /\ Len(t) > (IF closing THEN 3 ELSE 2) IN
  IF Len(t) < 2 \/ t[1] # LANGLE \/ t[Len(t)] # RANGLE \/ (closing /\ slash) THEN "BROKEN"
  ELSE IF closing THEN "CL" ELSE IF slash THEN "BO" ELSE "OP"
NameOf(t, kind) == CASE kind = "CL" -> SubSeq(t, 3, Len(t) - 1)
                     [] kind = "BO" -> SubSeq(t, 2, Len(t) - 2)
                     [] OTHER -> SubSeq(t, 2, Len(t) - 1)

Named(name, need) == /\ Len(name) >= Len(need) /\ First(name, Len(need)) = need
                     /\ Len(name) > Len(need) => name[Len(need) + 1] \in Space
xer_check_tag(t, need) ==
  [kind |-> Kind(t), known |-> need # <<>> /\ Kind(t) # "BROKEN" /\ Named(NameOf(t, Kind(t)), need)]

\* An unknown element is passed tag by tag: -1 broken, 0 go on, 1 done, 2 done by
\* the tag that closes the element around it.
\* Faulty variant: any closing tag ends it.
SkipFlat(tcv, depth) == IF tcv.kind = "CL" THEN [r |-> IF tcv.known THEN 2 ELSE 1, depth |-> 0] ELSE [r |-> 0, depth |-> depth]
xer_skip_unknown(tcv, depth) ==
  CASE tcv.kind = "BROKEN" -> [r |-> -1, depth |-> depth]
    [] tcv.kind = "BO" -> [r |-> 0, depth |-> depth]
    [] tcv.kind = "OP" -> [r |-> 0, depth |-> depth + 1]
    [] tcv.kind = "CL" -> [r |-> IF depth > 1 THEN 0 ELSE IF tcv.known THEN 2 ELSE 1, depth |-> depth - 1]

-----------------------------------------------------------------------------
(***************************************************************************)
(* The text of values in XER.  A converter is given what there is of a     *)
(* text and whether something else follows it, and says how much of it it  *)
(* took (-1: the text is wrong), so that a text may come in pieces.        *)
(***************************************************************************)

CONSTANTS LongSize,   \* octets of a long
          Checked     \* whether the build keeps "new_value / 10 != value", which an
                      \* overflow of a signed product lets it take for false:
                      \* such an input is undefined in C, and a build does either;
                      \* only texts of more digits than a long holds tell them apart
XerTextAssumption == LongSize \in 1..3 /\ Checked \in BOOLEAN

HexDigit == Digit \cup (65 .. 70) \cup (97 .. 102)
HexValue(c) == IF c < 65 THEN c - 48 ELSE IF c < 97 THEN c - 55 ELSE c - 87
HexChar(v) == IF v < 10 THEN 48 + v ELSE 55 + v

RECURSIVE Flat(_)
Flat(s) == IF s = <<>> THEN <<>> ELSE Head(s) \o Flat(Tail(s))

-----------------------------------------------------------------------------
(* Octets as hexadecimal digits.                                           *)

\* The number of characters up to the k-th digit of s.
UpTo(s, k) == IF k = 0 THEN 0
              ELSE CHOOSE i \in DOMAIN s : /\ s[i] \notin Space
                                            /\ Len(SelectSeq(First(s, i), LAMBDA c : c \notin Space)) = k
HexOctets(d) == [i \in 1 .. Len(d) \div 2 |-> 16 * HexValue(d[2 * i - 1]) + HexValue(d[2 * i])]
HexTaken(st, s, d, more) ==
  IF Len(d) % 2 = 1 /\ more
  THEN [n |-> Len(s), st |-> [st EXCEPT !.buf = @ \o HexOctets(d) \o <<16 * HexValue(d[Len(d)])>>]]
  ELSE [n |-> IF Len(d) % 2 = 1 THEN UpTo(s, Len(d) - 1) ELSE Len(s), st |-> [st EXCEPT !.buf = @ \o HexOctets(d)]]
OCTET_STRING__convert_hexadecimal(st, s, more) ==
  LET d == SelectSeq(s, LAMBDA c : c \notin Space) IN
  IF \E i \in DOMAIN d : d[i] \notin HexDigit THEN [n |-> -1, st |-> st] ELSE HexTaken(st, s, d, more)

-----------------------------------------------------------------------------
(* Bits.  While it works the last octet of buf is the one being filled.    *)

RECURSIVE PutBits(_, _)
PutBits(r, s) ==
  IF s = <<>> THEN r
  ELSE IF Head(s) \in Space THEN PutBits(r, Tail(s))
  ELSE IF Head(s) \notin {48, 49} THEN [r EXCEPT !.ok = FALSE]
  ELSE LET u == IF r.unused <= 0 THEN 7 ELSE r.unused - 1
           b == IF r.unused <= 0 THEN Append(r.buf, 0) ELSE r.buf IN
       PutBits([r EXCEPT !.unused = u, !.buf = [b EXCEPT ![Len(b)] = @ + (Head(s) % 2) * 2 ^ u]], Tail(s))
BitsTaken(st, s, r) ==
  IF ~r.ok THEN [n |-> -1, st |-> [st EXCEPT !.unused = r.unused]]
  ELSE [n |-> Len(s), st |-> IF r.unused = 8 THEN [st EXCEPT !.buf = First(r.buf, Len(r.buf) - 1), !.unused = 0]
                              ELSE [st EXCEPT !.buf = r.buf, !.unused = r.unused]]
BitsStart(st) == [ok |-> TRUE, buf |-> IF st.unused % 8 = 0 \/ st.buf = <<>> THEN Append(st.buf, 0) ELSE st.buf,
                  unused |-> IF st.unused % 8 = 0 THEN 8 ELSE st.unused % 8]
OCTET_STRING__convert_binary(st, s, more) == BitsTaken(st, s, PutBits(BitsStart(st), s))

-----------------------------------------------------------------------------
(* Text, with references to characters.                                    *)

SEMICOLON == 59
AMP == 38
\* 0x26 0x23 number ;  n = -1 no number, otherwise as much of it as there is.
RECURSIVE OS__strtoent(_, _, _, _)
OS__strtoent(base, s, p, val) ==
  IF p > Len(s) THEN [n |-> Len(s), val |-> -1]
  ELSE IF val > (2147483647 - base) \div base THEN [n |-> -1, val |-> val]
  ELSE IF s[p] = SEMICOLON THEN [n |-> p, val |-> val]
  ELSE IF s[p] \notin HexDigit THEN [n |-> -1, val |-> val]
  ELSE OS__strtoent(base, s, p + 1, val * base + HexValue(s[p]))

Utf8(v) ==
  LET more(k) == [i \in 1..k |-> 128 + ((v \div (64 ^ (k - i))) % 64)] IN
  IF v < 128 THEN <<v>>
  ELSE IF v < 2048 THEN <<192 + (v \div 64)>> \o more(1)
  ELSE IF v < 65536 THEN <<224 + (v \div 4096)>> \o more(2)
  ELSE IF v < 2097152 THEN <<240 + (v \div 262144)>> \o more(3)
  ELSE IF v < 67108864 THEN <<248 + (v \div 16777216)>> \o more(4)
  ELSE <<252 + ((v \div 1073741824) % 2)>> \o more(5)

\* What the text s, which begins with an ampersand, stands for: n characters give
\* the octets out; 0 when the end of the reference may be missing.
NumberRef(s, k, e) ==
  IF e.n = -1 THEN [n |-> 1, out |-> <<AMP>>]
  ELSE IF e.n = 0 \/ s[k + e.n] # SEMICOLON THEN [n |-> 0, out |-> <<>>]
  ELSE IF e.val = 0 THEN [n |-> -2, out |-> <<>>]   \* assert(val > 0)
  ELSE [n |-> k + e.n, out |-> Utf8(e.val)]
NamedRef(s) ==
  LET w == First(s, IF Len(s) > 5 THEN 5 ELSE Len(s))
      name == CHOOSE k \in 1 .. Len(w) + 1 : /\ k <= Len(w) => w[k] = SEMICOLON
                                             /\ \A j \in 1 .. k - 1 : w[j] # SEMICOLON IN
  IF name > Len(w) THEN [n |-> 0, out |-> <<>>]
  ELSE CASE First(s, name) = <<AMP, 97, 109, 112, SEMICOLON>> -> [n |-> 5, out |-> <<AMP>>]
         [] First(s, name) = <<AMP, 108, 116, SEMICOLON>> -> [n |-> 4, out |-> <<LANGLE>>]
         [] First(s, name) = <<AMP, 103, 116, SEMICOLON>> -> [n |-> 4, out |-> <<RANGLE>>]
         [] OTHER -> [n |-> 1, out |-> <<AMP>>]
Reference(s) ==
  IF Len(s) = 1 \/ (Len(s) = 2 /\ s[2] = 35) THEN [n |-> 0, out |-> <<>>]
  ELSE IF s[2] # 35 THEN NamedRef(s)
  ELSE IF s[3] = 120 THEN NumberRef(s, 3, OS__strtoent(16, Drop(s, 3), 1, 0))
  ELSE NumberRef(s, 2, OS__strtoent(10, Drop(s, 2), 1, 0))

\* r: octets so far, and characters taken.
RECURSIVE Entrefs(_, _, _)
EntrefTaken(r, s, more, e) ==
  CASE e.n > 0 -> Entrefs([r EXCEPT !.buf = @ \o e.out, !.n = @ + e.n], Drop(s, e.n), more)
    [] e.n = 0 /\ more -> Entrefs([r EXCEPT !.buf = Append(@, AMP), !.n = @ + 1], Tail(s), more)
    [] e.n = 0 /\ ~more -> r
    [] e.n = -2 -> [r EXCEPT !.n = -2]
Entrefs(r, s, more) ==
  IF s = <<>> THEN r
  ELSE IF s[1] # AMP THEN Entrefs([r EXCEPT !.buf = Append(@, s[1]), !.n = @ + 1], Tail(s), more)
  ELSE EntrefTaken(r, s, more, Reference(s))
OCTET_STRING__convert_entrefs(st, s, more) ==
  LET r == Entrefs([buf |-> st.buf, n |-> 0], s, more) IN [n |-> r.n, st |-> [st EXCEPT !.buf = r.buf]]

\* The escapes of the table: control characters are tags, <nul/> and so on; three
\* others are references.  Escapes gives the tags of those in use.
CONSTANT Escapes
xer_escape_table(c) == CASE c \in DOMAIN Escapes -> Escapes[c]
                         [] c = AMP -> <<AMP, 97, 109, 112, SEMICOLON>>
                         [] c = LANGLE -> <<AMP, 108, 116, SEMICOLON>>
                         [] c = RANGLE -> <<AMP, 103, 116, SEMICOLON>>
                         [] OTHER -> <<c>>
OS__check_escaped_control_char(t) == {c \in DOMAIN Escapes : Escapes[c] = t}
OCTET_STRING__handle_control_chars(st, t) ==
  IF OS__check_escaped_control_char(t) = {} THEN [n |-> -1, st |-> st]
  ELSE [n |-> 0, st |-> [st EXCEPT !.buf = Append(@, CHOOSE c \in OS__check_escaped_control_char(t) : TRUE)]]

-----------------------------------------------------------------------------
(* Integers: a decimal number, octets in hexadecimal with colons, or the   *)
(* name of a value.                                                        *)

Half == 2 ^ (8 * LongSize - 1)
Wrap(x) == ((x + Half) % (2 * Half)) - Half
DivC(x, y) == IF x >= 0 THEN x \div y ELSE -((-x) \div y)
RECURSIVE Num(_)
Num(o) == IF o = <<>> THEN 0 ELSE Num(First(o, Len(o) - 1)) * 256 + o[Len(o)]
Signed(o) == IF o # <<>> /\ o[1] >= 128 THEN Num(o) - 256 ^ Len(o) ELSE Num(o)
RECURSIVE Shortest(_)
Shortest(v) == IF Len(v) > 1 /\ ((v[1] = 0 /\ v[2] < 128) \/ (v[1] = 255 /\ v[2] >= 128)) THEN Shortest(Tail(v)) ELSE v
asn_long2INTEGER(x) == Shortest([i \in 1..LongSize |-> ((x + 2 * Half) \div (256 ^ (LongSize - i))) % 256])

\* r: state, sign, value, buf, and room, whether buf was allocated.  out is what
\* the decoder says when it does not read on.
Begin == [state |-> "SKIPSPACE", sign |-> 1, value |-> 0, buf |-> <<>>, room |-> FALSE, out |-> ""]
NotOverflow(r, v) == r.sign = -1 /\ v = -Half
Decimal(r, d, times) ==
  LET v == Wrap(times + d) IN
  IF Checked /\ DivC(times, 10) # r.value THEN [r EXCEPT !.out = "LIMIT"]
  ELSE IF v < 0 /\ ~NotOverflow(r, v) THEN [r EXCEPT !.out = "LIMIT"]
  ELSE [r EXCEPT !.state = "DIGITS", !.value = v, !.sign = IF v < 0 THEN 1 ELSE @]
High(r, d) == [r EXCEPT !.value = 16 * d, !.state = "HEXDIGIT2"]
Low(r, d) == IF r.room THEN [r EXCEPT !.buf = Append(@, (r.value + d) % 256), !.state = "HEXCOLON"]
             ELSE [r EXCEPT !.out = "FAULT"]
AsHex(r) == [r EXCEPT !.state = "SKIPSPHEX", !.buf = <<>>, !.room = TRUE, !.out = "AGAIN"]
Stuff(r) == [r EXCEPT !.state = "EXTRASTUFF", !.out = "STOP"]
Figure(r, d) ==
  CASE r.state \in {"SKIPSPHEX", "HEXDIGIT1"} -> High(r, d)
    [] r.state = "HEXDIGIT2" -> Low(r, d)
    [] r.state = "HEXCOLON" -> [r EXCEPT !.out = "BROKEN"]
    [] OTHER -> Decimal(r, d, Wrap(r.value * 10))
Letter(r, d) ==
  CASE r.state \in {"SKIPSPHEX", "SKIPSPACE", "HEXDIGIT1"} -> High(r, d)
    [] r.state = "HEXDIGIT2" -> Low(r, d)
    [] r.state = "DIGITS" -> AsHex(r)
    [] OTHER -> Stuff(r)
Colon(r) == CASE r.state = "HEXCOLON" -> [r EXCEPT !.state = "HEXDIGIT1"]
              [] r.state = "DIGITS" -> AsHex(r)
              [] OTHER -> Stuff(r)

\* Names: up to a blank, a slash or the end of the tag.
EnumName(s) == LET t == Tail(s)  Ends(i) == t[i] \in (9..13) \cup {32, CSLASH, RANGLE} IN
  IF \A i \in DOMAIN t : ~Ends(i) THEN <<>>
  ELSE First(t, (CHOOSE i \in DOMAIN t : Ends(i) /\ \A j \in 1 .. i - 1 : ~Ends(j)) - 1)
INTEGER_map_enum2value(td, s) == {i \in DOMAIN td.map : td.map[i].name = EnumName(s)}
INTEGER_map_value2enum(td, v) == {i \in DOMAIN td.map : td.map[i].value = v}
Identifier(td, r, s, found) ==
  IF r.state = "SKIPSPACE" /\ found # {}
  THEN [r EXCEPT !.state = "DIGITS", !.value = td.map[CHOOSE i \in found : TRUE].value, !.out = "STOP"]
  ELSE [r EXCEPT !.out = "BROKEN"]
BlankIn(r, rest) ==
  CASE r.state \in {"SKIPSPACE", "SKIPSPHEX"} -> r
    [] r.state = "HEXCOLON" /\ xer_is_whitespace(rest) -> [r EXCEPT !.out = "STOP"]
    [] OTHER -> Stuff(r)
IntCharacter(td, r, s, p) == LET lv == s[p] IN
  CASE lv \in Blank -> BlankIn(r, Drop(s, p - 1))
    [] lv = CDASH /\ r.state = "SKIPSPACE" -> [r EXCEPT !.sign = -1, !.state = "WAITDIGITS"]
    [] lv = 43 /\ r.state = "SKIPSPACE" -> [r EXCEPT !.state = "WAITDIGITS"]
    [] lv \in Digit -> Figure(r, lv - 48)
    [] lv = LANGLE -> Identifier(td, r, s, INTEGER_map_enum2value(td, s))
    [] lv = 58 -> Colon(r)
    [] lv \in HexDigit \ Digit -> Letter(r, HexValue(lv))
    [] OTHER -> Stuff(r)
RECURSIVE IntScan(_, _, _, _)
IntNext(td, s, p, r) == CASE r.out = "" -> IntScan(td, s, p + 1, r)
                          [] r.out = "AGAIN" -> IntScan(td, s, 1, [r EXCEPT !.out = ""])
                          [] OTHER -> [r |-> r, p |-> p]
IntScan(td, s, p, r) == IF p > Len(s) THEN [r |-> r, p |-> p] ELSE IntNext(td, s, p, IntCharacter(td, r, s, p))

IntResult(r, rest) ==
  IF r.out \in {"LIMIT", "BROKEN", "FAULT"} THEN [out |-> r.out, val |-> <<>>]
  ELSE CASE r.state = "HEXCOLON" -> [out |-> "CONSUMED", val |-> r.buf]
         [] r.state \in {"HEXDIGIT1", "HEXDIGIT2", "SKIPSPHEX"} -> [out |-> "BROKEN", val |-> <<>>]
         [] r.state \in {"SKIPSPACE", "WAITDIGITS"} -> [out |-> IF xer_is_whitespace(rest) THEN "IGNORE" ELSE "BROKEN", val |-> <<>>]
         [] r.state = "EXTRASTUFF" /\ ~xer_is_whitespace(rest) -> [out |-> "BROKEN", val |-> <<>>]
         [] OTHER -> [out |-> "CONSUMED", val |-> asn_long2INTEGER(Wrap(r.value * r.sign))]
INTEGER__xer_body_decode(td, s) == LET e == IntScan(td, s, 1, Begin) IN IntResult(e.r, Drop(s, e.p - 1))

BOOLEAN__xer_body_decode(td, s) ==
  LET f == xer_check_tag(s, td.false)  t == xer_check_tag(s, td.true) IN
  IF s # <<>> /\ s[1] = LANGLE
  THEN IF f.kind = "BO" /\ f.known THEN [out |-> "CONSUMED", val |-> <<0>>]
       ELSE IF t.kind = "BO" /\ t.known THEN [out |-> "CONSUMED", val |-> <<1>>]
       ELSE [out |-> "BROKEN", val |-> <<>>]
  ELSE [out |-> IF xer_is_whitespace(s) THEN "IGNORE" ELSE "BROKEN", val |-> <<>>]
NULL__xer_body_decode(s) == [out |-> IF xer_is_whitespace(s) THEN "CONSUMED" ELSE "BROKEN", val |-> <<>>]

\* Decimal digits of n, with a sign.
RECURSIVE Digits(_)
Digits(n) == IF n < 10 THEN <<48 + n>> ELSE Digits(n \div 10) \o <<48 + (n % 10)>>
Printed(n) == IF n < 0 THEN <<CDASH>> \o Digits(-n) ELSE Digits(n)
-----------------------------------------------------------------------------
(* The decoders.                                                           *)

Primitive == {"int", "native", "bool", "null"}
Strings == {"hex", "bits", "utf8"}

Begun(td) ==
  CASE td.kind \in Primitive -> [phase |-> 0, context |-> "TEXT", val |-> Null, some |-> FALSE, more |-> FALSE, fault |-> FALSE]
    [] td.kind \in Strings -> [phase |-> 0, context |-> "TEXT", buf |-> <<>>, unused |-> 0]
    [] td.kind = "of" -> [phase |-> 0, context |-> "TEXT", list |-> <<>>, ptr |-> Null]
    [] OTHER -> [phase |-> 0, context |-> "TEXT", step |-> 0, left |-> 0, present |-> {}, memb |-> [i \in DOMAIN td.elements |-> Null]]

\* A decoder at work: the structure, what is left of the buffer, what was taken,
\* and what it returned.
Start(st, b) == [st |-> st, b |-> b, n |-> 0, code |-> ""]
Advance(r, k) == [r EXCEPT !.b = Drop(@, k), !.n = @ + k]
Ret(r, code) == [r EXCEPT !.code = code]
Phase(r, p) == [r EXCEPT !.st.phase = p]
Context(r, k) == [r EXCEPT !.st.context = k.context]

-----------------------------------------------------------------------------
(* Primitive types and strings.                                            *)

\* The body decoder of a primitive type.
prim_body_decoder(td, s) == CASE td.kind \in {"int", "native"} -> INTEGER__xer_body_decode(td, s)
                              [] td.kind = "bool" -> BOOLEAN__xer_body_decode(td, s)
                              [] td.kind = "null" -> NULL__xer_body_decode(s)
BodySaid(st, s, d) ==
  CASE d.out = "CONSUMED" -> [n |-> Len(s), st |-> [st EXCEPT !.some = TRUE, !.val = d.val]]
    [] d.out = "IGNORE" -> [n |-> Len(s), st |-> st]
    [] OTHER -> [n |-> -1, st |-> [st EXCEPT !.fault = d.out = "FAULT"]]
xer_decode__unexpected_tag(td, st, t) ==
  IF st.some THEN [n |-> IF xer_is_whitespace(t) THEN 0 ELSE -1, st |-> st] ELSE BodySaid(st, t, prim_body_decoder(td, t))
xer_decode__body(td, st, s, more) ==
  IF st.some THEN [n |-> IF xer_is_whitespace(s) THEN Len(s) ELSE -1, st |-> st]
  ELSE IF ~more THEN [n |-> -1, st |-> [st EXCEPT !.more = TRUE]]
  ELSE BodySaid(st, s, prim_body_decoder(td, s))

body_receiver(td, st, s, more) ==
  CASE td.kind \in Primitive -> xer_decode__body(td, st, s, more)
    [] td.kind = "hex" -> OCTET_STRING__convert_hexadecimal(st, s, more)
    [] td.kind = "bits" -> OCTET_STRING__convert_binary(st, s, more)
    [] td.kind = "utf8" -> OCTET_STRING__convert_entrefs(st, s, more)
opt_unexpected_tag_decoder(td, st, t) ==
  CASE td.kind \in Primitive -> xer_decode__unexpected_tag(td, st, t)
    [] td.kind = "utf8" -> OCTET_STRING__handle_control_chars(st, t)
    [] OTHER -> [n |-> -1, st |-> st]

GotBody(r, k, d) ==
  IF d.n = -2 THEN Ret(r, "FAULT")
  ELSE IF d.n = -1 THEN Ret([r EXCEPT !.st = d.st], "FAIL")
  ELSE IF d.n = 0 /\ k = Len(r.b) THEN Ret([r EXCEPT !.st = d.st], "WMORE")
  ELSE Advance([r EXCEPT !.st = d.st], d.n)
GotEmpty(r, k, d) == IF d.n = -1 THEN Ret([r EXCEPT !.st = d.st], "FAIL")
                     ELSE Ret(Phase(Advance([r EXCEPT !.st = d.st], k), 2), "OK")
GotOther(r, k, d) ==
  IF d.n < 0 THEN Ret([r EXCEPT !.st = d.st], "FAIL")
  ELSE IF r.st.phase = 0 THEN Ret(Phase(Advance([r EXCEPT !.st = d.st], k), 2), "OK")
  ELSE Advance([r EXCEPT !.st = d.st], k)
GeneralTag(td, r, t, tcv) ==
  CASE tcv.known /\ tcv.kind = "BO" /\ r.st.phase = 0 -> GotEmpty(r, Len(t), body_receiver(td, r.st, <<>>, TRUE))
    [] tcv.known /\ tcv.kind = "OP" /\ r.st.phase = 0 -> Phase(Advance(r, Len(t)), 1)
    [] tcv.known /\ tcv.kind = "CL" /\ r.st.phase # 0 -> Ret(Phase(Advance(r, Len(t)), 2), "OK")
    [] ~tcv.known /\ tcv.kind = "BO" -> GotOther(r, Len(t), opt_unexpected_tag_decoder(td, r.st, t))
    [] OTHER -> Ret(r, "FAIL")
GeneralToken(td, tag, r, k, t) ==
  CASE k.n = 0 -> Ret(r, "WMORE")
    [] k.n > 0 /\ (k.type = "COMMENT" \/ (k.type = "TEXT" /\ r.st.phase = 0)) -> Advance(Context(r, k), k.n)
    [] k.n > 0 /\ k.type = "TEXT" /\ r.st.phase # 0 -> GotBody(Context(r, k), k.n, body_receiver(td, r.st, t, k.n < Len(r.b)))
    [] k.n > 0 /\ k.type = "TAG" -> GeneralTag(td, Context(r, k), t, xer_check_tag(t, tag))
GeneralChunk(td, tag, r, k) == GeneralToken(td, tag, r, k, First(r.b, k.n))
GeneralTurn(td, tag, r) == GeneralChunk(td, tag, r, xer_next_token(r.st.context, r.b))
RECURSIVE GeneralLoop(_, _, _)
GeneralLoop(td, tag, r) == IF r.code # "" THEN r ELSE GeneralLoop(td, tag, GeneralTurn(td, tag, r))
xer_decode_general(td, tag, r) == IF r.st.phase > 1 THEN Ret(r, "FAIL") ELSE GeneralLoop(td, tag, r)

\* A primitive type has no context: it takes all or nothing.
PrimDone(td, st, d, e) ==
  CASE d.code = "OK" /\ ~d.st.some -> IF e.out = "CONSUMED" THEN [d EXCEPT !.st.val = e.val] ELSE [code |-> "FAIL", n |-> 0, st |-> st]
    [] d.code = "WMORE" -> [code |-> "WMORE", n |-> 0, st |-> st]
    [] d.code = "FAIL" -> [code |-> IF d.st.fault THEN "FAULT" ELSE IF d.st.more THEN "WMORE" ELSE "FAIL", n |-> 0, st |-> st]
    [] OTHER -> d
xer_decode_primitive(td, st, tag, b) ==
  PrimDone(td, st, xer_decode_general(td, tag, Start(Begun(td), b)), prim_body_decoder(td, <<>>))
\* The number must fit into a long.
NativeInteger_decode_xer(d) ==
  IF d.code = "OK" /\ Len(Shortest(d.st.val)) > LongSize THEN [d EXCEPT !.code = "FAIL", !.n = 0] ELSE d
OCTET_STRING__decode_xer(td, st, tag, b) == xer_decode_general(td, tag, Start(st, b))

-----------------------------------------------------------------------------
(* Composed types.                                                         *)

Inner(td, st, tag, b) == Decode(td, IF st = Null THEN Begun(td) ELSE st, tag, b)
\* Elements among set with the name of the tag t.
Called(td, set, t) == {i \in set : xer_check_tag(t, td.elements[i + 1].name).known}
Least(set) == CHOOSE i \in set : \A j \in set : i <= j

\* SEQUENCE.  edx counts from 0.
IN_EXTENSION_GROUP(td, i) == i > td.ext_after /\ i < td.ext_before
Count(td) == Len(td.elements)
Opt(td, edx) == IF edx < Count(td) THEN td.elements[edx + 1].opt ELSE 0
SeqMayEnd(td, edx) == \/ edx >= Count(td)
                      \/ edx + Opt(td, edx) = Count(td)
                      \/ IN_EXTENSION_GROUP(td, edx) /\ td.ext_before > Count(td)
SeqEnd(td, r, k) == IF SeqMayEnd(td, r.st.step) THEN Ret(Phase(Advance(r, k), 4), "OK") ELSE Ret(Phase(r, 0), "FAIL")
SeqRange(td, edx) == {i \in edx .. edx + Opt(td, edx) : i < Count(td)}
SeqExtension(td, r, k, tcv) ==
  IF ~IN_EXTENSION_GROUP(td, r.st.step + Opt(td, r.st.step)) THEN Ret(Phase(r, 4), "FAIL")
  ELSE IF tcv.kind = "BO" THEN Advance(r, k)
  ELSE Phase([Advance(r, k) EXCEPT !.st.left = 1], 3)
SeqElement(td, r, k, tcv, found) ==
  IF found = {} THEN SeqExtension(td, r, k, tcv)
  ELSE Phase([r EXCEPT !.st.step = Least(found)], 2)
SeqTag(td, r, t, tcv) ==
  CASE tcv.known /\ ((tcv.kind = "CL" /\ r.st.phase # 0) \/ (tcv.kind = "BO" /\ r.st.phase = 0)) -> SeqEnd(td, r, Len(t))
    [] tcv.known /\ tcv.kind = "OP" /\ r.st.phase = 0 -> Phase(Advance(r, Len(t)), 1)
    [] tcv.kind \in {"OP", "BO"} /\ r.st.phase = 1 ->
         SeqElement(td, r, Len(t), tcv, Called(td, SeqRange(td, r.st.step), t))
    [] OTHER -> Ret(Phase(r, 4), "FAIL")
SeqSkip(td, r, t, tcv, s) ==
  CASE s.r = -1 -> Ret(Phase(r, 4), "FAIL")
    [] s.r = 0 -> [Advance(r, Len(t)) EXCEPT !.st.left = s.depth]
    [] s.r = 1 -> Phase([Advance(r, Len(t)) EXCEPT !.st.left = s.depth], 1)
    [] s.r = 2 -> SeqTag(td, Phase([r EXCEPT !.st.left = s.depth], 1), t, tcv)
SeqMember(r, d) ==
  LET q == Advance([r EXCEPT !.st.memb[r.st.step + 1] = d.st], d.n) IN
  IF d.code # "OK" THEN Ret(q, d.code) ELSE Phase([q EXCEPT !.st.step = @ + 1], 1)
SeqToken(td, r, k, t, tcv) ==
  IF k.n = 0 THEN Ret(r, "WMORE")
  ELSE IF k.type # "TAG" THEN Advance(Context(r, k), k.n)
  ELSE IF r.st.phase = 3 THEN SeqSkip(td, Context(r, k), t, tcv, xer_skip_unknown(tcv, r.st.left))
  ELSE SeqTag(td, Context(r, k), t, tcv)
SeqChunk(td, tag, r, k) == SeqToken(td, r, k, First(r.b, k.n), xer_check_tag(First(r.b, k.n), tag))
SeqTurn(td, tag, r) ==
  IF r.st.phase > 3 THEN Ret(Phase(r, 4), "FAIL")
  ELSE IF r.st.phase = 2
  THEN SeqMember(r, Inner(td.elements[r.st.step + 1].type, r.st.memb[r.st.step + 1], td.elements[r.st.step + 1].name, r.b))
  ELSE SeqChunk(td, tag, r, xer_next_token(r.st.context, r.b))
RECURSIVE SeqLoop(_, _, _)
SeqLoop(td, tag, r) == IF r.code # "" THEN r ELSE SeqLoop(td, tag, SeqTurn(td, tag, r))
SEQUENCE_decode_xer(td, st, tag, b) == SeqLoop(td, tag, Start(st, b))

\* SET.
_SET_is_populated(td, st) == \A i \in 0 .. Count(td) - 1 : i \in st.present \/ td.elements[i + 1].opt > 0
SetEnd(td, r, k) == IF _SET_is_populated(td, r.st) THEN Ret(Phase(Advance(r, k), 4), "OK") ELSE Ret(Phase(r, 0), "FAIL")
SetElement(td, r, k, tcv, found) ==
  IF found # {} THEN Phase([r EXCEPT !.st.step = Least(found)], 2)
  ELSE IF ~td.ext THEN Ret(Phase(r, 4), "FAIL")
  ELSE IF tcv.kind = "BO" THEN Advance(r, k)
  ELSE Phase([Advance(r, k) EXCEPT !.st.left = 1], 3)
SetTag(td, r, t, tcv) ==
  CASE tcv.known /\ ((tcv.kind = "CL" /\ r.st.phase # 0) \/ (tcv.kind = "BO" /\ r.st.phase = 0)) -> SetEnd(td, r, Len(t))
    [] tcv.known /\ tcv.kind = "OP" /\ r.st.phase = 0 -> Phase(Advance(r, Len(t)), 1)
    [] tcv.kind \in {"OP", "BO"} /\ r.st.phase = 1 -> SetElement(td, r, Len(t), tcv, Called(td, 0 .. Count(td) - 1, t))
    [] OTHER -> Ret(Phase(r, 4), "FAIL")
SetSkip(td, r, t, tcv, s) ==
  CASE s.r = -1 -> Ret(Phase(r, 4), "FAIL")
    [] s.r \in {0, 1} -> Phase([Advance(r, Len(t)) EXCEPT !.st.left = s.depth], IF s.r = 1 THEN 1 ELSE 3)
    [] s.r = 2 -> SetTag(td, Phase([r EXCEPT !.st.left = s.depth], 1), t, tcv)
SetMember(r, i, d) ==
  LET q == Advance([r EXCEPT !.st.memb[i] = d.st], d.n) IN
  IF i - 1 \in r.st.present THEN Ret(r, "FAIL")
  ELSE IF d.code # "OK" THEN Ret(q, d.code)
  ELSE Phase([q EXCEPT !.st.present = @ \cup {i - 1}], 1)
SetToken(td, r, k, t, tcv) ==
  IF k.n = 0 THEN Ret(r, "WMORE")
  ELSE IF k.type # "TAG" THEN Advance(Context(r, k), k.n)
  ELSE IF r.st.phase = 3 THEN SetSkip(td, Context(r, k), t, tcv, xer_skip_unknown(tcv, r.st.left))
  ELSE SetTag(td, Context(r, k), t, tcv)
SetChunk(td, tag, r, k) == SetToken(td, r, k, First(r.b, k.n), xer_check_tag(First(r.b, k.n), tag))
SetTurn(td, tag, r) ==
  IF r.st.phase > 3 THEN Ret(Phase(r, 4), "FAIL")
  ELSE IF r.st.phase = 2
  THEN SetMember(r, r.st.step + 1,
         Inner(td.elements[r.st.step + 1].type, r.st.memb[r.st.step + 1], td.elements[r.st.step + 1].name, r.b))
  ELSE SetChunk(td, tag, r, xer_next_token(r.st.context, r.b))
RECURSIVE SetLoop(_, _, _)
SetLoop(td, tag, r) == IF r.code # "" THEN r ELSE SetLoop(td, tag, SetTurn(td, tag, r))
SET_decode_xer(td, st, tag, b) == SetLoop(td, tag, Start(st, b))

\* CHOICE.  Without a tag of its own it begins and ends with its alternative.
Alternative(td, r, k, tcv, found) ==
  IF found # {} THEN Phase([r EXCEPT !.st.step = Least(found)], 2)
  ELSE IF ~td.ext THEN Ret(Phase(r, 5), "FAIL")
  ELSE IF tcv.kind = "BO" THEN Phase(Advance(r, k), 3)
  ELSE Phase([Advance(r, k) EXCEPT !.st.left = 1], 4)
ChoiceTag(td, r, t, tcv) ==
  CASE tcv.known /\ tcv.kind = "CL" /\ r.st.phase = 3 -> Ret(Phase(Advance(r, Len(t)), 5), "OK")
    [] tcv.known /\ tcv.kind = "OP" /\ r.st.phase = 0 -> Phase(Advance(r, Len(t)), 1)
    [] (tcv.kind = "OP" \/ (tcv.kind = "BO" /\ ~tcv.known)) /\ r.st.phase = 1 ->
         Alternative(td, r, Len(t), tcv, Called(td, 0 .. Count(td) - 1, t))
    [] OTHER -> Ret(Phase(r, 5), "FAIL")
ChoiceSkip(td, r, t, tcv, s) ==
  CASE s.r = -1 -> Ret(Phase(r, 5), "FAIL")
    [] s.r \in {0, 1} -> Phase([Advance(r, Len(t)) EXCEPT !.st.left = s.depth], IF s.r = 1 THEN 3 ELSE 4)
    [] s.r = 2 -> ChoiceTag(td, Phase([r EXCEPT !.st.left = s.depth], 3), t, tcv)
ChoiceMember(r, d) ==
  LET q == Advance([r EXCEPT !.st.memb[r.st.step + 1] = d.st], d.n) IN
  IF d.code # "OK" THEN Ret(q, d.code) ELSE Phase([q EXCEPT !.st.present = {r.st.step}], 3)
ChoiceToken(td, r, k, t, tcv) ==
  IF k.n = 0 THEN Ret(r, "WMORE")
  ELSE IF k.type # "TAG" THEN Advance(Context(r, k), k.n)
  ELSE IF r.st.phase = 4 THEN ChoiceSkip(td, Context(r, k), t, tcv, xer_skip_unknown(tcv, r.st.left))
  ELSE ChoiceTag(td, Context(r, k), t, tcv)
ChoiceChunk(td, tag, r, k) == ChoiceToken(td, r, k, First(r.b, k.n), xer_check_tag(First(r.b, k.n), tag))
ChoiceTurn(td, tag, r) ==
  IF r.st.phase > 4 THEN Ret(Phase(r, 5), "FAIL")
  ELSE IF r.st.phase = 2
  THEN ChoiceMember(r, Inner(td.elements[r.st.step + 1].type, r.st.memb[r.st.step + 1], td.elements[r.st.step + 1].name, r.b))
  ELSE IF r.st.phase = 3 /\ tag = <<>> THEN Ret(Phase(r, 5), "OK")
  ELSE ChoiceChunk(td, tag, r, xer_next_token(r.st.context, r.b))
RECURSIVE ChoiceLoop(_, _, _)
ChoiceLoop(td, tag, r) == IF r.code # "" THEN r ELSE ChoiceLoop(td, tag, ChoiceTurn(td, tag, r))
CHOICE_decode_xer(td, st, tag, b) ==
  ChoiceLoop(td, tag, IF st.phase = 0 /\ tag = <<>> THEN Phase(Start(st, b), 1) ELSE Start(st, b))

\* SET OF and SEQUENCE OF.
ElementTag(td) == LET e == td.elements[1] IN
  CASE td.valuelist = 0 -> IF e.name # <<>> THEN e.name ELSE e.type.xml_tag
    [] td.valuelist = 1 -> e.type.xml_tag
    [] td.valuelist = 2 -> <<>>
OfMember(r, d) ==
  IF d.code # "OK" THEN Ret(Advance([r EXCEPT !.st.ptr = d.st], d.n), d.code)
  ELSE Phase(Advance([r EXCEPT !.st.ptr = Null, !.st.list = Append(@, d.st)], d.n), 1)
OfTag(r, k, tcv) ==
  CASE tcv.known /\ ((tcv.kind = "CL" /\ r.st.phase # 0) \/ (tcv.kind = "BO" /\ r.st.phase = 0)) -> Ret(Phase(Advance(r, k), 3), "OK")
    [] tcv.known /\ tcv.kind = "OP" /\ r.st.phase = 0 -> Phase(Advance(r, k), 1)
    [] tcv.kind \in {"OP", "BO"} /\ r.st.phase = 1 -> Phase(r, 2)
    [] OTHER -> Ret(Phase(r, 3), "FAIL")
OfToken(tag, r, k) ==
  IF k.n = 0 THEN Ret(r, "WMORE")
  ELSE IF k.type # "TAG" THEN Advance(Context(r, k), k.n)
  ELSE OfTag(Context(r, k), k.n, xer_check_tag(First(r.b, k.n), tag))
OfTurn(td, tag, r) ==
  IF r.st.phase > 2 THEN Ret(Phase(r, 3), "FAIL")
  ELSE IF r.st.phase = 2 THEN OfMember(r, Inner(td.elements[1].type, r.st.ptr, ElementTag(td), r.b))
  ELSE OfToken(tag, r, xer_next_token(r.st.context, r.b))
RECURSIVE OfLoop(_, _, _)
OfLoop(td, tag, r) == IF r.code # "" THEN r ELSE OfLoop(td, tag, OfTurn(td, tag, r))
SET_OF_decode_xer(td, st, tag, b) == OfLoop(td, tag, Start(st, b))

-----------------------------------------------------------------------------
xer_decoder(td, st, tag, b) == LET k == td.kind IN
  CASE k \in {"int", "bool", "null"} -> xer_decode_primitive(td, st, tag, b)
    [] k = "native" -> NativeInteger_decode_xer(xer_decode_primitive(td, st, tag, b))
    [] k \in Strings -> OCTET_STRING__decode_xer(td, st, tag, b)
    [] k = "seq" -> SEQUENCE_decode_xer(td, st, tag, b)
    [] k = "set" -> SET_decode_xer(td, st, tag, b)
    [] k = "choice" -> CHOICE_decode_xer(td, st, tag, b)
    [] k = "of" -> SET_OF_decode_xer(td, st, tag, b)
xer_decode(td, st, b) == Decode(td, st, td.xml_tag, b)

\* What a structure holds.  Of a bit string: the octets and the unused bits.
RECURSIVE Value(_, _)
Value(td, st) ==
  CASE st = Null -> Null
    [] st # Null /\ td.kind \in Primitive -> st.val
    [] st # Null /\ td.kind \in {"hex", "utf8"} -> st.buf
    [] st # Null /\ td.kind = "bits" -> <<st.unused, st.buf>>
    [] st # Null /\ td.kind = "of" -> [i \in DOMAIN st.list |-> Value(td.elements[1].type, st.list[i])]
    [] st # Null /\ td.kind \in {"seq", "set"} -> [i \in DOMAIN st.memb |-> Value(td.elements[i].type, st.memb[i])]
    [] st # Null /\ td.kind = "choice" -> [i \in DOMAIN st.memb |-> IF i - 1 \in st.present THEN Value(td.elements[i].type, st.memb[i]) ELSE Null]
-----------------------------------------------------------------------------
(* The encoders.                                                           *)

CONSTANTS Row   \* octets of a string in a line: 16, of bits 8
XerOutAssumption == Row \in Nat \ {0}

Failed == [out |-> <<>>, n |-> -1]
Text(s) == [out |-> s, n |-> Len(s)]
\* One after the other; the first that failed makes all fail.
RECURSIVE SumOf(_)
SumOf(s) == IF s = <<>> THEN 0 ELSE Head(s) + SumOf(Tail(s))
Joined(es) == IF \E i \in DOMAIN es : es[i].n < 0 THEN es[CHOOSE i \in DOMAIN es : es[i].n < 0]
              ELSE [out |-> Flat([i \in DOMAIN es |-> es[i].out]), n |-> SumOf([i \in DOMAIN es |-> es[i].n])]

\* A line feed and, for each level, a blank (four in the code).
TEXT_INDENT(can, level) == IF can THEN Text(<<>>) ELSE Text(<<NL>> \o [i \in 1 .. level |-> 32])
Empty(name) == <<LANGLE>> \o name \o <<CSLASH, RANGLE>>
\* An element and its text.
Within(name, e) == IF e.n < 0 THEN e
                   ELSE [out |-> <<LANGLE>> \o name \o <<RANGLE>> \o e.out \o <<LANGLE, CSLASH>> \o name \o <<RANGLE>>,
                         n |-> 5 + 2 * Len(name) + e.n]

-----------------------------------------------------------------------------
(* Primitive types and strings.                                            *)

RECURSIVE Colons(_)
Hex2(o) == <<HexChar(o \div 16), HexChar(o % 16)>>
Colons(v) == IF Len(v) = 1 THEN Hex2(v[1]) ELSE Hex2(v[1]) \o <<58>> \o Colons(Tail(v))
DumpSmall(td, x, found) ==
  IF found # {} THEN Text(Empty(td.map[CHOOSE i \in found : TRUE].name))
  ELSE IF td.strict THEN Failed ELSE Text(Printed(x))
Dump(td, v) == IF Len(v) <= LongSize THEN DumpSmall(td, Signed(v), INTEGER_map_value2enum(td, Signed(v)))
               ELSE IF td.strict THEN Failed ELSE Text(Colons(v))
INTEGER__dump(td, v) == Dump(td, Shortest(v))
\* (Values of native types are kept as octets, too.)
NativeInteger_encode_xer(td, v) == Text(Printed(Signed(v)))
NativeEnumerated_encode_xer(td, v) == LET found == INTEGER_map_value2enum(td, Signed(v)) IN
  IF found = {} THEN Failed ELSE Text(Empty(td.map[CHOOSE i \in found : TRUE].name))
BOOLEAN_encode_xer(td, v) == Text(Empty(IF v[1] # 0 THEN td.true ELSE td.false))

OCTET_STRING_encode_xer(td, v, level, can) ==
  LET long == Len(v) > Row
      Line(i) == IF ~can /\ i % Row = 1 % Row /\ (i > 1 \/ long) THEN TEXT_INDENT(can, level).out ELSE <<>>
      Gap(i) == IF can \/ i = Len(v) THEN <<>> ELSE <<32>> IN
  Text(Flat([i \in DOMAIN v |-> Line(i) \o Hex2(v[i]) \o Gap(i)]) \o (IF long /\ ~can THEN TEXT_INDENT(can, level - 1).out ELSE <<>>))
BitsOf(o, low) == [i \in 1 .. 8 - low |-> 48 + ((o \div (2 ^ (8 - i))) % 2)]
BIT_STRING_encode_xer(td, v, level, can) ==
  LET k == Len(v[2])
      Line(i) == IF ~can /\ i % Row = 1 % Row THEN TEXT_INDENT(can, level).out ELSE <<>> IN
  Text((IF k = 0 THEN TEXT_INDENT(can, level).out ELSE <<>>)
       \o Flat([i \in 1..k |-> Line(i) \o BitsOf(v[2][i], IF i = k THEN v[1] ELSE 0)]) \o TEXT_INDENT(can, level - 1).out)
OCTET_STRING_encode_xer_utf8(td, v) == Text(Flat([i \in DOMAIN v |-> xer_escape_table(v[i])]))

-----------------------------------------------------------------------------
(* Composed types.                                                         *)

\* An element of a structure, on a line of its own.
Member(td, v, i, level, can) ==
  IF v[i] = Null THEN (IF td.elements[i].opt > 0 THEN Text(<<>>) ELSE Failed)
  ELSE Joined(<<TEXT_INDENT(can, level), Within(td.elements[i].name, Encode(td.elements[i].type, v[i], level + 1, can))>>)
SEQUENCE_encode_xer(td, v, level, can) ==
  Joined([i \in DOMAIN v |-> Member(td, v, i, level, can)] \o <<TEXT_INDENT(can, level - 1)>>)
\* In the order of tag2el_cxer.
SET_encode_xer(td, v, level, can) ==
  Joined([i \in DOMAIN v |-> Member(td, v, td.order[i], level, can)] \o <<TEXT_INDENT(can, level - 1)>>)
CHOICE_encode_xer(td, v, level, can) ==
  LET here == {i \in DOMAIN v : v[i] # Null}  i == CHOOSE i \in here : TRUE IN
  IF here = {} THEN Failed
  ELSE Joined(<<TEXT_INDENT(can, level), Within(td.elements[i].name, Encode(td.elements[i].type, v[i], level + 1, can)),
                TEXT_INDENT(can, level - 1)>>)

\* An element of a list.  An empty one of a value list becomes a tag, whose length
\* is not counted.
ListName(td) == LET e == td.elements[1] IN IF e.name # <<>> THEN e.name ELSE e.type.xml_tag
Stood(td, e) == IF e.n = 0 /\ td.valuelist # 0 THEN [out |-> e.out \o Empty(td.elements[1].type.xml_tag), n |-> 0] ELSE e
SequenceOfItem(td, x, level, can) == LET e == Encode(td.elements[1].type, x, level + 1, can) IN
  IF td.valuelist = 0 THEN Joined(<<TEXT_INDENT(can, level), Within(ListName(td), e)>>)
  ELSE Joined(<<IF e.n = 0 THEN TEXT_INDENT(can, level + 1) ELSE Text(<<>>), Stood(td, e)>>)
SetOfItem(td, x, level, can) ==
  LET e == Encode(td.elements[1].type, x, level + (IF td.valuelist = 2 THEN 0 ELSE 1), can) IN
  IF td.valuelist = 0 THEN Joined(<<TEXT_INDENT(can, level), Within(ListName(td), e)>>)
  ELSE Joined(<<IF td.valuelist = 1 THEN TEXT_INDENT(can, level + 1) ELSE Text(<<>>), Stood(td, e)>>)
SEQUENCE_OF_encode_xer(td, v, level, can) ==
  Joined([i \in DOMAIN v |-> SequenceOfItem(td, v[i], level, can)] \o <<TEXT_INDENT(can, level - 1)>>)

SET_OF_xer_order(a, b) ==
  \/ \E i \in DOMAIN a.out : i <= Len(b.out) /\ a.out[i] < b.out[i] /\ \A j \in 1 .. i - 1 : a.out[j] = b.out[j]
  \/ Len(a.out) < Len(b.out) /\ \A j \in DOMAIN a.out : a.out[j] = b.out[j]
Sorted(es) == SortSeq(es, SET_OF_xer_order)
\* assert(control_size == er.encoded)
Controlled(e) == IF e.n >= 0 /\ e.n # Len(e.out) THEN [e EXCEPT !.n = -2] ELSE e
SET_OF_encode_xer(td, v, level, can) ==
  LET es == [i \in DOMAIN v |-> SetOfItem(td, v[i], level, can)] IN
  IF can THEN (IF \E i \in DOMAIN es : es[i].n < 0 THEN Joined(es) ELSE Controlled(Joined(Sorted(es))))
  ELSE Joined(es \o <<TEXT_INDENT(can, level - 1)>>)

-----------------------------------------------------------------------------
xer_encoder(td, v, level, can) == LET k == td.kind IN
  CASE k = "int" -> INTEGER__dump(td, v)
    [] k = "native" -> IF td.strict THEN NativeEnumerated_encode_xer(td, v) ELSE NativeInteger_encode_xer(td, v)
    [] k = "bool" -> BOOLEAN_encode_xer(td, v)
    [] k = "null" -> Text(<<>>)
    [] k = "hex" -> OCTET_STRING_encode_xer(td, v, level, can)
    [] k = "bits" -> BIT_STRING_encode_xer(td, v, level, can)
    [] k = "utf8" -> OCTET_STRING_encode_xer_utf8(td, v)
    [] k = "seq" -> SEQUENCE_encode_xer(td, v, level, can)
    [] k = "set" -> SET_encode_xer(td, v, level, can)
    [] k = "choice" -> CHOICE_encode_xer(td, v, level, can)
    [] k = "of" -> IF td.sorted THEN SET_OF_encode_xer(td, v, level, can) ELSE SEQUENCE_OF_encode_xer(td, v, level, can)
xer_encode(td, v, can) == LET e == Encode(td, v, 1, can)  k == IF can THEN 1 ELSE 2 IN
  IF e.n < 0 THEN e
  ELSE [out |-> <<LANGLE>> \o td.xml_tag \o <<RANGLE>> \o e.out \o <<LANGLE, CSLASH>> \o td.xml_tag \o First(<<RANGLE, NL>>, k),
        n |-> 4 + k + 2 * Len(td.xml_tag) + e.n]

-----------------------------------------------------------------------------
(* Types and documents.                                                    *)

Printable == " !\"#$%&'()*+,-./0123456789:;<=>?@ABCDEFGHIJKLMNOPQRSTUVWXYZ[\\]^_@abcdefghijklmnopqrstuvwxyz{|}~"
\* The codes of a string; ^ is a line feed.
A(s) == [i \in 1 .. Len(s) |-> LET c == SubSeq(s, i, i) IN
          IF c = "^" THEN NL ELSE 31 + (CHOOSE k \in 1 .. Len(Printable) : SubSeq(Printable, k, k) = c)]

Controls == (0 :> A("<nul/>") @@ 26 :> A("<sub/>"))

INTEGER == [kind |-> "int", xml_tag |-> A("I"), map |-> <<>>, strict |-> FALSE]
Named2 == [INTEGER EXCEPT !.map = <<[name |-> A("r"), value |-> 1], [name |-> A("rb"), value |-> 2]>>]
Enum == [Named2 EXCEPT !.kind = "native", !.strict = TRUE]
Native == [INTEGER EXCEPT !.kind = "native"]
BOOL == [kind |-> "bool", xml_tag |-> A("B"), true |-> A("t"), false |-> A("f")]
NULL == [kind |-> "null", xml_tag |-> A("N")]
OCTETS == [kind |-> "hex", xml_tag |-> A("O")]
BITS == [kind |-> "bits", xml_tag |-> A("O")]
TEXT_ == [kind |-> "utf8", xml_tag |-> A("O")]
E(n, o, td) == [name |-> A(n), opt |-> o, type |-> td]

Seq1 == [kind |-> "seq", xml_tag |-> A("S"), ext_after |-> 9, ext_before |-> 9,
         elements |-> <<E("a", 1, INTEGER), E("ab", 0, OCTETS), E("c", 2, BOOL), E("d", 1, TEXT_)>>]
\* Extensible at its end.
SeqX == [kind |-> "seq", xml_tag |-> A("S"), ext_after |-> 0, ext_before |-> 3, elements |-> <<E("a", 0, INTEGER), E("b", 1, OCTETS)>>]
Set1 == [kind |-> "set", xml_tag |-> A("S"), ext |-> TRUE, order |-> <<2, 1, 3>>,
         elements |-> <<E("a", 0, OCTETS), E("b", 0, Enum), E("c", 1, NULL)>>]
Cho == [kind |-> "choice", xml_tag |-> A("C"), ext |-> TRUE, elements |-> <<E("a", 0, INTEGER), E("b", 0, TEXT_)>>]
ListOf(td, n, vl, s) == [kind |-> "of", xml_tag |-> A("L"), sorted |-> s, valuelist |-> vl, elements |-> <<E(n, 0, td)>>]

IntSetOf == ListOf(INTEGER, "", 0, TRUE)
SeqOfSeq == ListOf(SeqX, "x", 0, FALSE)
BoolSeqOf == ListOf(BOOL, "", 1, FALSE)
ChoSetOf == ListOf(Cho, "", 2, TRUE)
NullSeqOf == ListOf(NULL, "", 1, FALSE)
NullSetOf == ListOf(NULL, "", 1, TRUE)
\* An element of its own name.
SeqSub == [SeqX EXCEPT !.elements = <<E("a", 0, INTEGER), E("sub", 1, TEXT_)>>]

ValuesOf(td) ==
  CASE td \in {INTEGER, Named2} -> {<<0>>, <<1>>, <<2>>, <<127>>, <<128>>, <<1, 0>>, <<0, 171>>, <<133, 7>>}
    [] td = Native -> {<<5>>, <<128>>, <<249>>}
    [] td = Enum -> {<<1>>, <<2>>}
    [] td = BOOL -> {<<0>>, <<1>>}
    [] td = NULL -> {<<>>}
    [] td = OCTETS -> {<<>>, <<171>>, <<1, 2, 3>>}
    [] td = BITS -> {<<0, <<>>>>, <<3, <<160>>>>, <<0, <<1, 255>>>>, <<7, <<1, 0, 128>>>>}
    [] td = TEXT_ -> {<<>>, A("a b"), <<38>>, A("<&gt;") \o <<0>>, <<26, NL, 195, 164>>}
    [] td = Seq1 -> {<<Null, <<>>, Null, Null>>, <<<<5>>, <<1>>, <<1>>, A("<")>>, <<Null, <<171>>, Null, <<26>>>>}
    [] td = SeqX -> {<<<<5>>, Null>>, <<<<128>>, <<7>>>>}
    [] td = Set1 -> {<<<<7>>, <<1>>, Null>>, <<<<>>, <<2>>, <<>>>>}
    [] td = Cho -> {<<<<5>>, Null>>, <<Null, <<38>>>>}
    [] td = IntSetOf -> {<<>>, <<<<9>>>>, <<<<12>>, <<1>>, <<128>>>>}
    [] td = SeqOfSeq -> {<<<<<<5>>, Null>>, <<<<1>>, <<7>>>>>>}
    [] td = BoolSeqOf -> {<<<<1>>, <<0>>, <<1>>>>}
    [] td = ChoSetOf -> {<<<<<<5>>, Null>>, <<Null, <<65>>>>>>}
    [] td \in {NullSeqOf, NullSetOf} -> {<<<<>>, <<>>>>}
    [] td = SeqSub -> {<<<<5>>, <<26>>>>}
    [] OTHER -> {}

F(s, v) == <<A(s), v>>
\* Other forms: comments, blanks, attributes, extensions, references.
Forms(td) ==
  CASE td = INTEGER -> {F("<!-- a --><I> +12 ^</I>", <<12>>), F("<I x=\"<>\">0C:0a ^</I>", <<12, 10>>), F("<I>1A:2b</I>", <<26, 43>>)}
    [] td = Named2 -> {F("<I> <r /> </I>", <<1>>), F("<I>3<!----></I >", <<3>>)}
    [] td = BOOL -> {F("<B> <t/>^</B>", <<1>>), F("<!--><--><f/>", <<0>>)}
    [] td = OCTETS -> {F("<O> a b C </O>", <<171, 192>>), F("<O/>", <<>>), F("<O>1<!-- -->2</O>", <<16, 32>>)}
    [] td = BITS -> {F("<O>1 0^1<!-- -->1</O>", <<4, <<176>>>>), F("<O>10000000<!-- -->1</O>", <<7, <<128, 128>>>>)}
    [] td = TEXT_ -> {F("<O>&#65;&#x42;&x &amp;lt;</O>", A("AB&x &lt;")), F("<O>&#xe4;&</O>", <<195, 164, 38>>), F("<O>a<!--b-->c<nul /></O>", Null)}
    [] td = Seq1 -> {F("<S><ab/><d>x</d></S>", <<Null, <<>>, Null, A("x")>>), F("<S ><ab y=z></ab><c><f/></c></S>", <<Null, <<>>, <<0>>, Null>>)}
    [] td = SeqX -> {F("<S><a>5</a><x><S><y/></S></x></S>", <<<<5>>, Null>>), F("<S><a>5</a><x/><b>7</b><x></x></S>", <<<<5>>, <<112>>>>)}
    [] td = Set1 -> {F("<S><x><b></b></x><a>07</a><y/><b><r/></b></S>", <<<<7>>, <<1>>, Null>>), F("<S><b><r/></b><c/><a/></S>", <<<<>>, <<1>>, <<>>>>)}
    [] td = Cho -> {F("<C> <b/> </C>", <<Null, <<>>>>), F("<C><x><a></a></x></C>", <<Null, Null>>), F("<C><x/></C>", <<Null, Null>>)}
    [] td = IntSetOf -> {F("<L><I>1</I><!-- --><I>2</I></L>", <<<<1>>, <<2>>>>), F("<L/>", <<>>)}
    [] td = ChoSetOf -> {F("<L><a>1</a> <b/></L>", <<<<<<1>>, Null>>, <<Null, <<>>>>>>)}
    [] td = NullSeqOf -> {F("<L><N/><N></N></L>", <<<<>>, <<>>>>)}
    [] OTHER -> {}

Encoded(td) == {[td |-> td, in |-> xer_encode(td, v, c).out, v |-> v, can |-> c, n |-> xer_encode(td, v, c).n]
                  : v \in ValuesOf(td), c \in BOOLEAN}
Formed(td) == {[td |-> td, in |-> f[1], v |-> f[2], can |-> FALSE, n |-> Null] : f \in Forms(td)}
Unsure(c, s) == [c EXCEPT !.in = s, !.v = Null, !.can = FALSE, !.n = Null]
\* One character wrong, or the end missing.
Spoilt(set) == UNION {{Unsure(c, [c.in EXCEPT ![i] = o]) : i \in DOMAIN c.in, o \in {CSLASH, RANGLE}} : c \in set}
Cut(set) == {Unsure(c, First(c.in, Len(c.in) - 1)) : c \in set}

AllTypes == {INTEGER, Named2, Native, Enum, BOOL, NULL, OCTETS, BITS, TEXT_, Seq1, SeqX, Set1, Cho, IntSetOf, SeqOfSeq, BoolSeqOf, ChoSetOf}
Good == UNION {Encoded(td) \cup Formed(td) : td \in AllTypes}
GoodCases == Good \cup Cut(Good)
SpoiltCases == Spoilt(UNION {Formed(td) : td \in {BOOL, OCTETS, BITS, TEXT_, SeqX, Set1, Cho, ChoSetOf}})

\* Decimal numbers, and what is none.
RECURSIVE Count10(_)
Count10(s) == IF s = <<>> THEN 0 ELSE 10 * Count10(First(s, Len(s) - 1)) + s[Len(s)] - 48
OctetsOf(x) == Shortest([i \in 1..3 |-> ((x + 2 ^ 24) \div (256 ^ (3 - i))) % 256])
NumberOf(s) == LET minus == s # <<>> /\ s[1] = CDASH  d == IF minus THEN Tail(s) ELSE s IN
  IF d = <<>> \/ \E i \in DOMAIN d : d[i] \notin Digit THEN Null
  ELSE OctetsOf(IF minus THEN -Count10(d) ELSE Count10(d))
Texts == UNION {[1..k -> {CDASH, 48, 49, 50, 51, 56}] : k \in 0..4}
NumberCases == {[td |-> INTEGER, in |-> A("<I>") \o s \o A("</I>"), v |-> NumberOf(s), can |-> FALSE, n |-> Null] : s \in Texts}

\* A long integer whose text begins with a letter.
LetterCases == {[td |-> INTEGER, in |-> A("<I>FE:01</I>"), v |-> <<254, 1>>, can |-> TRUE, n |-> Null]}
NullCases == {c \in Encoded(NullSetOf) : c.can}
CountCases == Encoded(NullSeqOf)
ZeroCases == {[td |-> TEXT_, in |-> A("<O>a&#0;</O>"), v |-> Null, can |-> FALSE, n |-> Null]}
\* A reference behind an angle that is no tag.
StrayCases == {[td |-> TEXT_, in |-> A("<O><&lt;</O>"), v |-> Null, can |-> FALSE, n |-> Null]}
\* An extension of the name of the structure it is in.
OwnCases == {[td |-> SeqX, in |-> A("<S><a>5</a><S></S></S>"), v |-> <<<<5>>, Null>>, can |-> FALSE, n |-> Null]}
\* A string of the name of a control character.
SubCases == Encoded(SeqSub)

CONSTANT Inputs   \* which of them
\* [td, in, v, can, n]: a type and a document; the value that it stands for, or
\* Null; when it is an encoding of that value, whether it is the canonical one and
\* the length the encoder gave, otherwise n is Null.
Cases ==
  CASE Inputs = "good" -> GoodCases
    [] Inputs = "spoilt" -> SpoiltCases
    [] Inputs = "number" -> NumberCases
    [] Inputs = "letter" -> LetterCases
    [] Inputs = "null" -> NullCases
    [] Inputs = "count" -> CountCases
    [] Inputs = "zero" -> ZeroCases
    [] Inputs = "stray" -> StrayCases
    [] Inputs = "own" -> OwnCases
    [] Inputs = "sub" -> SubCases

-----------------------------------------------------------------------------
(***************************************************************************)
(* An XER decoder that is given a document in pieces of any size, and      *)
(* called again with what it left and what came since for as long as it    *)
(* wants more.                                                             *)
(***************************************************************************)

XerStreamAssumption == \A c \in Cases : c.in # <<>>

VARIABLES case, fed, used, st, code
vars == <<case, fed, used, st, code>>

Init == /\ case \in Cases /\ fed = 0 /\ used = 0 /\ code = "WMORE"
        /\ st = Begun(case.td)

Feed == \E k \in 1 .. Len(case.in) - fed :
  /\ code = "WMORE" /\ fed' = fed + k
  /\ \E d \in {xer_decode(case.td, st, SubSeq(case.in, used + 1, fed + k))} :
       /\ used' = used + d.n /\ st' = d.st /\ code' = d.code
  /\ UNCHANGED case

Spec == Init /\ [][Feed]_vars

-----------------------------------------------------------------------------
(* XML by the book, for comparison: where the first element of a document  *)
(* ends (0: it does not), for documents without quotes in tags.            *)

At(s, p, w) == p + Len(w) - 1 <= Len(s) /\ SubSeq(s, p, p + Len(w) - 1) = w
RECURSIVE Behind(_, _, _)
Behind(s, p, w) == IF p > Len(s) THEN 0 ELSE IF At(s, p, w) THEN p + Len(w) ELSE Behind(s, p + 1, w)
RECURSIVE ElementEnd(_, _, _)
TagEnd(s, p, depth, q) ==
  IF q = 0 THEN 0
  ELSE LET d == IF s[p + 1] = CSLASH THEN depth - 1 ELSE IF s[q - 2] = CSLASH THEN depth ELSE depth + 1 IN
       IF d = 0 THEN q - 1 ELSE ElementEnd(s, q, d)
CommentEnd(s, depth, q) == IF q = 0 THEN 0 ELSE ElementEnd(s, q, depth)
ElementEnd(s, p, depth) ==
  IF p > Len(s) THEN 0
  ELSE IF s[p] # LANGLE THEN ElementEnd(s, p + 1, depth)
  ELSE IF At(s, p, <<LANGLE, EXCLAM, CDASH, CDASH>>) THEN CommentEnd(s, depth, Behind(s, p + 4, <<CDASH, CDASH, RANGLE>>))
  ELSE TagEnd(s, p, depth, Behind(s, p, <<RANGLE>>))

Whole == xer_decode(case.td, Begun(case.td), case.in)
Got == Value(case.td, st)
Permuted(s) == {[i \in DOMAIN s |-> s[p[i]]] : p \in {f \in [DOMAIN s -> DOMAIN s] : \A i, j \in DOMAIN s : f[i] = f[j] => i = j}}

-----------------------------------------------------------------------------
\* What was taken was there; a list that is done has no element half decoded.
TypeOK == /\ 0 <= used /\ used <= fed /\ fed <= Len(case.in)
          /\ code \in {"OK", "WMORE", "FAIL", "FAULT"}
          /\ code = "OK" /\ case.td.kind = "of" => st.ptr = Null

\* How the document is cut has no effect on the outcome: "Start to parse where left
\* previously".
Restartable ==
  \/ code = "WMORE" /\ fed < Len(case.in)
  \/ code = Whole.code /\ (code = "OK" => used = Whole.n /\ Got = Value(case.td, Whole.st))

\* A decoder that succeeds took one element, all of it and nothing else, whatever
\* unknown extensions are inside.
WholeElement == code = "OK" => used = ElementEnd(case.in, 1, 0)

\* What was encoded, or is written by hand for a value, is decoded as that value; a
\* list in canonical form comes back in the order of its encodings.
RoundTrip ==
  /\ fed = Len(case.in) /\ case.v # Null => code = "OK"
  /\ code = "OK" /\ case.v # Null =>
       IF case.can THEN xer_encode(case.td, Got, TRUE).out = case.in ELSE Got = case.v

\* An encoder says how much it wrote.
Counted == case.n # Null => case.n = Len(case.in)

\* Values that differ only in the order of a SET OF have one canonical form.
Canonical ==
  case.can /\ case.td.kind = "of" /\ case.td.sorted =>
    \A v \in Permuted(case.v) : xer_encode(case.td, v, TRUE).out = case.in

\* A text is taken for an integer just when it is one that fits, and for that one:
\* otherwise "Overflow".
Numeral ==
  /\ code = "OK" => case.v # Null /\ Got = case.v
  /\ code = "FAIL" => case.v = Null \/ Len(case.v) > LongSize

\* What was decoded can be encoded, and its encoding is decoded as the same.
Encodable ==
  code = "OK" /\ case.td.kind # "choice" =>
    LET e == xer_encode(case.td, Got, FALSE)
        d == xer_decode(case.td, Begun(case.td), e.out) IN
    e.n >= 0 /\ d.code = "OK" /\ Value(case.td, d.st) = Got

\* No memory that was not allocated is used and no assertion fails.
NoFault == code # "FAULT" /\ case.n # -2
==============================================================================
