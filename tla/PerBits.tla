------------------------------- MODULE PerBits -------------------------------
(***************************************************************************)
(* The bit streams of the packed encoding rules: an encoder puts runs of   *)
(* bits through a small space into a buffer that grows, a decoder gets     *)
(* runs of other lengths out of it.  Octets are numbers; a run of up to 31 *)
(* bits is a number, a longer one a sequence of octets.                    *)
(***************************************************************************)
EXTENDS Integers, Sequences, FiniteSets

CONSTANTS TmpSize,     \* octets of the space (32 in the code)
          Room,        \* octets of the application's buffer
          Few,         \* lengths of runs put and got as numbers
          Many,        \* lengths of runs put and got as octets
          MaxPuts, MaxGets,
          Junk         \* what the space may hold before it is written

PerBitsAssumption ==
  /\ TmpSize \in Nat /\ TmpSize >= 5 /\ Room \in Nat /\ MaxPuts \in Nat /\ MaxGets \in Nat
  /\ Few \subseteq 1..31 /\ Many \subseteq 1..56 /\ Junk \subseteq 0..255

VARIABLES po,      \* asn_per_outp_t, out and allocated: the buffer that grows
          failed,  \* whether a buffer of Room octets would have been too small
          pd,      \* asn_per_data_t; at is buffer, counted from the start
          put, got,     \* the bits put and got
          puts, gets, open

vars == <<po, failed, pd, put, got, puts, gets, open>>

Pow(n) == 2 ^ n
Low(v, n) == IF n = 31 THEN v ELSE v % Pow(n)
Bits(v, n) == [i \in 1..n |-> (v \div Pow(n - i)) % 2]
OctetBits(s) == [i \in 1 .. 8 * Len(s) |-> (s[((i - 1) \div 8) + 1] \div Pow(7 - ((i - 1) % 8))) % 2]
Octets(off) == (off + 7) \div 8
IsPrefixOf(s, t) == Len(s) <= Len(t) /\ SubSeq(t, 1, Len(s)) = s

-----------------------------------------------------------------------------
(* Output.                                                                 *)

\* The buffer of uper_encode_to_new_buffer grows by factors of four.
encode_dyn_cb(p, s) ==
  [p EXCEPT !.out = @ \o s,
            !.allocated = IF Len(p.out) + Len(s) >= @ THEN (IF @ > 0 THEN 4 * @ ELSE Len(s)) ELSE @]

\* No room for obits more: what is complete goes out, the rest moves to the front.
OutFlush(p, obits) ==
  IF p.nboff + obits > p.nbits
  THEN [encode_dyn_cb(p, SubSeq(p.tmp, 1, p.at)) EXCEPT
          !.tmp[1] = IF p.nboff > 0 THEN p.tmp[p.at + 1] ELSE @, !.at = 0, !.nbits = 8 * TmpSize]
  ELSE p

OutNormal(p) == [p EXCEPT !.at = @ + (p.nboff \div 8), !.nbits = @ - 8 * (p.nboff \div 8), !.nboff = @ % 8]

\* The octets from p.at on, of which the first keeps its nboff bits.
Store(p, v, obits) ==
  LET off == p.nboff + obits
      new(k) == IF off >= 8 * k THEN (v \div Pow(off - 8 * k)) % 256 ELSE ((v % 256) * Pow(8 * k - off)) % 256
      old == p.tmp[p.at + 1] IN
  [p EXCEPT !.nboff = off,
            !.tmp = [k \in DOMAIN @ |->
              IF k <= p.at \/ k > p.at + Octets(off) THEN @[k]
              ELSE IF k = p.at + 1 THEN (old - (old % Pow(8 - p.nboff))) + new(1)
              ELSE new(k - p.at)]]

PutRun(p, v, obits) == Store(OutFlush(OutNormal(p), obits), Low(v, obits), obits)
per_put_few_bits(p, v, obits) ==
  LET q == OutFlush(OutNormal(p), obits) IN
  IF obits = 0 THEN p
  ELSE IF q.nboff + obits <= 31 THEN Store(q, Low(v, obits), obits)
  ELSE PutRun(PutRun(q, Low(v, obits) \div Pow(obits - 24), 24), v, obits - 24)

RECURSIVE per_put_many_bits(_, _, _)
per_put_many_bits(p, src, nbits) ==
  LET octet(i) == IF i > Octets(nbits) THEN 0 ELSE src[i]
      all == IF nbits > 16 THEN (octet(1) * 65536) + (octet(2) * 256) + octet(3)
             ELSE IF nbits > 8 THEN (octet(1) * 256) + octet(2) ELSE octet(1)
      v == IF nbits % 8 # 0 THEN all \div Pow(8 - (nbits % 8)) ELSE all IN
  IF nbits = 0 THEN p
  ELSE IF nbits >= 24 THEN per_put_many_bits(per_put_few_bits(p, all, 24), SubSeq(src, 4, Len(src)), nbits - 24)
  ELSE per_put_few_bits(p, v, nbits)

\* The last octet, filled up with 0.
_uper_encode_flush_outp(p) ==
  LET n == p.at + Octets(p.nboff)
      rest == p.nboff % 8 IN
  IF n = 0 THEN p
  ELSE encode_dyn_cb(p, [i \in 1..n |-> IF i = n /\ rest > 0 THEN p.tmp[i] - (p.tmp[i] % Pow(8 - rest)) ELSE p.tmp[i]])

-----------------------------------------------------------------------------
(* Input.                                                                  *)

InNormal(d) == IF d.nboff >= 8
               THEN [d EXCEPT !.at = @ + (d.nboff \div 8), !.nbits = @ - 8 * (d.nboff \div 8), !.nboff = @ % 8]
               ELSE d
Moved(d, n) == [d EXCEPT !.moved = @ + n, !.nboff = @ + n]
\* The off bits of up to four octets from at on.
Load(d, off) ==
  LET o(k) == po.out[d.at + k]
      part(k) == IF off >= 8 * k THEN o(k) * Pow(off - 8 * k)
                 ELSE IF off > 8 * (k - 1) THEN o(k) \div Pow(8 * k - off) ELSE 0 IN
  part(1) + part(2) + part(3) + part(4)
GetRun(d, n) == LET e == InNormal(d) IN [v |-> IF n = 0 THEN 0 ELSE Low(Load(e, e.nboff + n), n), pd |-> Moved(e, n)]

per_get_few_bits(d, n) ==
  IF n > d.nbits - d.nboff THEN [v |-> -1, pd |-> d]
  ELSE IF InNormal(d).nboff + n <= 31 THEN GetRun(d, n)
  ELSE LET hi == GetRun(d, n - 24)  lo == GetRun(hi.pd, 24) IN [v |-> (hi.v * Pow(24)) + lo.v, pd |-> Moved(InNormal(d), n)]

OctetsOf(v, k) == [i \in 1..k |-> (v \div Pow(8 * (k - i))) % 256]

RECURSIVE GetRest(_, _, _)
GetRest(d, dst, nbits) ==
  LET n == IF nbits >= 24 THEN 24 ELSE nbits
      g == per_get_few_bits(d, n)
      up == IF n % 8 # 0 THEN 8 - (n % 8) ELSE 0 IN
  IF nbits = 0 THEN [ok |-> TRUE, pd |-> d, dst |-> dst]
  ELSE IF g.v < 0 THEN [ok |-> FALSE, pd |-> g.pd, dst |-> dst]
  ELSE GetRest(g.pd, dst \o OctetsOf(g.v * Pow(up), Octets(n)), nbits - n)
\* The octets of nbits bits; with alright the odd bits are in the first octet.
per_get_many_bits(d, alright, nbits) ==
  LET g == per_get_few_bits(d, nbits % 8) IN
  IF alright /\ nbits % 8 # 0
  THEN IF g.v < 0 THEN [ok |-> FALSE, pd |-> g.pd, dst |-> <<>>] ELSE GetRest(g.pd, <<g.v>>, nbits - (nbits % 8))
  ELSE GetRest(d, <<>>, nbits)

-----------------------------------------------------------------------------
Init == /\ \E j \in Junk : po = [tmp |-> [i \in 1..TmpSize |-> j], at |-> 0, nboff |-> 0, nbits |-> 8 * TmpSize,
                                 out |-> <<>>, allocated |-> 0]
        /\ failed = FALSE /\ open = FALSE /\ puts = 0 /\ gets = 0 /\ put = <<>> /\ got = <<>>
        /\ pd = [at |-> 0, nboff |-> 0, nbits |-> 0, moved |-> 0]

\* Ones, alternating bits, and a number with a bit too many, which is dropped.
Values(n) == {Pow(n - 1) - 1 + Pow(n - 1), Pow(n) \div 3} \cup (IF n < 8 THEN {Pow(n) + 1} ELSE {})
Source == <<165, 90, 255, 1, 128, 60, 195>>

\* The callback of uper_encode_to_buffer fails.
encode_to_buffer_cb(left, size) == left < size
Output(p) ==
  /\ po' = p
  /\ failed' = (failed \/ (Len(p.out) > Len(po.out) /\ encode_to_buffer_cb(Room - Len(po.out), Len(p.out) - Len(po.out))))

PutFew == \E n \in Few : \E v \in IF n = 31 THEN {1431655765, 2147483647} ELSE Values(n) :
  /\ ~open /\ puts < MaxPuts /\ puts' = puts + 1
  /\ Output(per_put_few_bits(po, v, n)) /\ put' = put \o Bits(Low(v, n), n)
  /\ UNCHANGED <<pd, got, gets, open>>
PutMany == \E n \in Many :
  /\ ~open /\ puts < MaxPuts /\ puts' = puts + 1
  /\ Output(per_put_many_bits(po, Source, n)) /\ put' = put \o SubSeq(OctetBits(Source), 1, n)
  /\ UNCHANGED <<pd, got, gets, open>>
\* uper_encode_internal ends, uper_decode begins after skip bits, without the last unused.
Turn == \E skip \in {0, 3} : \E unused \in {0, 2} :
  /\ ~open /\ Len(put) >= skip + unused /\ puts > 0
  /\ \E p \in {_uper_encode_flush_outp(po)} :
       /\ Output(p)
       /\ pd' = [at |-> 0, nboff |-> skip, nbits |-> 8 * Len(p.out) - unused, moved |-> 0]
       /\ got' = SubSeq(put, 1, skip)
  /\ open' = TRUE /\ UNCHANGED <<put, puts, gets>>
GetFew == \E n \in Few :
  /\ open /\ gets < MaxGets /\ gets' = gets + 1
  /\ \E g \in {per_get_few_bits(pd, n)} :
       /\ pd' = g.pd /\ got' = IF g.v < 0 THEN got ELSE got \o Bits(g.v, n)
  /\ UNCHANGED <<po, failed, put, puts, open>>
GetMany == \E n \in Many : \E alright \in BOOLEAN :
  /\ open /\ gets < MaxGets /\ n <= pd.nbits - pd.nboff /\ gets' = gets + 1
  /\ \E g \in {per_get_many_bits(pd, alright, n)} :
       /\ pd' = g.pd
       /\ got' = LET b == OctetBits(g.dst) IN
                 got \o (IF alright THEN SubSeq(b, Len(b) - n + 1, Len(b)) ELSE SubSeq(b, 1, n))
  /\ UNCHANGED <<po, failed, put, puts, open>>

Next == PutFew \/ PutMany \/ Turn \/ GetFew \/ GetMany
Spec == Init /\ [][Next]_vars

-----------------------------------------------------------------------------
Octet == 0..255
\* The space holds octets, the place in it is inside it.
TypeOK == /\ po.tmp \in [1..TmpSize -> Octet] /\ \A i \in DOMAIN po.out : po.out[i] \in Octet
          /\ 8 * po.at + po.nboff <= 8 * TmpSize /\ failed \in BOOLEAN /\ open \in BOOLEAN

\* Every bit comes out as it was put, in its place, whatever the lengths of the
\* runs it was put and is got in; what follows the last one in its octet is 0.
SameBits == open => IsPrefixOf(got, put \o [i \in 1..7 |-> 0])
\* ... and all of them are there.
AllThere == open => Len(po.out) = Octets(Len(put))

\* uper_decode asserts: rval.consumed == pd.moved.
ConsumedIsMoved == open => \E skip \in {0, 3} : 8 * pd.at + pd.nboff - skip = pd.moved /\ Len(got) = skip + pd.moved

\* encode_dyn_cb never copies past what it allocated.
WithinAllocated == Len(po.out) <= po.allocated

\* A buffer that the whole encoding fits into is large enough.
FailsOnlyWhenFull == open /\ failed => Octets(Len(put)) > Room
=============================================================================
