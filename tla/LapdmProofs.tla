---------------------------- MODULE LapdmProofs ----------------------------
(***************************************************************************)
(* Lapdm: what handle_lapdm gives on is never spliced together, for any    *)
(* number of lost and repeated frames, any length of messages and any set  *)
(* of streams of which no two use the same buffer.                         *)
(***************************************************************************)
EXTENDS Lapdm, TLAPS

\* No two streams of the recording use the same buffer.  (Uplink SAPI 0 and
\* downlink SAPI 3 do, and are spliced: see MCLapdmShared.cfg.)
Separate == \A l, m \in Links : BufferOf(l) = BufferOf(m) => l = m

-----------------------------------------------------------------------------
(* The inductive invariant, on a buffer b.                                 *)

\* A buffer with fragments has those of its stream, up to the number it keeps.
Numbered(b, l) ==
  b.data.some => /\ l \notin Unnumbered
                 /\ b.data.last.link = l
                 /\ b.data.last.n % 8 = b.ns
                 /\ b.data.follow8

\* Frames out of sequence are repetitions of the last one, which count once.
Repeats(b) == b.oos = 0 \/ (b.oos = 1 /\ b.last_oos = b.ns)

\* The fragments reach up to frame n, or the next frame is n.
UpTo(b, n)   == b.data.some => b.data.intact /\ b.data.last.n = n /\ Repeats(b)
Awaits(b, n) == b.data.some => b.data.intact /\ n = (b.data.last.n + 1) % Span /\ Repeats(b)

\* When nothing was lost, the fragments reach up to the frame heard last.
InOrder(b, t) == IF t.heard THEN UpTo(b, t.n) ELSE Awaits(b, t.n)

\* Only numbered frames announce more, and not the last one of a message.
Announces(l, t) == t.more => l \notin Unnumbered /\ t.pos < MaxFrag

IInv ==
  /\ TypeOK
  /\ \A l \in Links : /\ Announces(l, tx[l])
                      /\ Numbered(mb[BufferOf(l)], l)
                      /\ lost = 0 => InOrder(mb[BufferOf(l)], tx[l])
  /\ NoGap /\ Intact

-----------------------------------------------------------------------------
(* Numbers modulo 8 and modulo Span.                                       *)

\* A number below the modulus is its own remainder.
LEMMA ModSmall ==
  ASSUME NEW m \in Nat, NEW n \in Nat, n < m
  PROVE  n % m = n
  OBVIOUS

\* The modulus leaves no remainder.
LEMMA ModSelf ==
  ASSUME NEW m \in Nat, m > 0
  PROVE  m % m = 0
  OBVIOUS

\* The frame after the last one of the span is the first one, with number 0.
LEMMA NextNumber ==
  ASSUME NEW n \in 0..(Span - 1)
  PROVE  /\ (n + 1) % Span \in 0..(Span - 1)
         /\ ((n + 1) % Span) % 8 = ((n % 8) + 1) % 8
<1>1. Span \in Nat /\ Span > 8 /\ Span % 8 = 0 /\ n \in Nat
  BY LapdmAssumption
<1>2. CASE n + 1 < Span
  <2>1. (n + 1) % Span = n + 1
    BY <1>1, <1>2, ModSmall
  <2>2. QED
    BY <1>1, <1>2, <2>1
<1>3. CASE n + 1 = Span
  <2>1. (n + 1) % Span = 0
    BY <1>1, <1>3, ModSelf
  <2>2. ((n % 8) + 1) % 8 = 0
    BY <1>1, <1>3
  <2>3. QED
    BY <1>1, <2>1, <2>2
<1>4. QED
  BY <1>1, <1>2, <1>3

-----------------------------------------------------------------------------
(* handle_lapdm on one buffer.                                             *)

\* The frames of a stream l.
FrameOf(l) ==
  {f \in [link : {l}, kind : {"I", "UI", "SABM"}, n : 0..(Span - 1), first : BOOLEAN, more : BOOLEAN] :
     /\ f.kind = "UI" <=> l \in Unnumbered
     /\ f.kind # "I" => ~f.more}

\* A buffer's data is NoData or has its fields.
LEMMA DataForms ==
  ASSUME NEW b \in lapdm_buf
  PROVE  /\ b.data.some \in BOOLEAN
         /\ ~b.data.some => b.data = NoData
         /\ b.data.some => b.data \in Data
<1>1. b.data \in Data \/ b.data = NoData
  BY DEF lapdm_buf
<1>2. b.data \in Data => b.data.some = TRUE
  BY DEF Data
<1>3. b.data = NoData => b.data.some = FALSE
  BY DEF NoData
<1>4. QED
  BY <1>1, <1>2, <1>3

\* What SABM makes of a buffer.
LEMMA PassSabm ==
  ASSUME NEW b \in lapdm_buf, NEW f, f.kind = "SABM"
  PROVE  Pass(b, f) \in lapdm_buf /\ Pass(b, f).data = NoData
<1>1. Pass(b, f) = [b EXCEPT !.oos = 0, !.data = NoData, !.ns = 0]
  BY DEF Pass
<1>2. Pass(b, f) = [data |-> NoData, ns |-> 0, oos |-> 0, last_oos |-> b.last_oos]
  BY <1>1 DEF lapdm_buf
<1>3. b.last_oos \in 0..7 \cup {100} /\ 0 \in 0..7 /\ 0 \in 0..3
  BY DEF lapdm_buf
<1>4. Pass(b, f) \in lapdm_buf
  BY <1>2, <1>3 DEF lapdm_buf
<1>5. QED
  BY <1>2, <1>4

\* A frame that is refused adds nothing.
LEMMA Refused ==
  ASSUME NEW l \in Links, NEW b \in lapdm_buf, NEW f \in FrameOf(l), Numbered(b, l)
  PROVE  /\ Refuse(b, f) \in lapdm_buf /\ Numbered(Refuse(b, f), l)
         /\ b.data.some /\ UpTo(b, f.n) => UpTo(Refuse(b, f), f.n)
<1> DEFINE r      == Refuse(b, f)
           counts == b.last_oos # Ns(f) /\ b.ns - Ns(f) < 2
           oos    == IF counts /\ b.oos < 3 THEN b.oos + 1 ELSE b.oos
<1>1. /\ f.n \in Nat /\ Ns(f) \in 0..7 /\ Ns(f) = f.n % 8 /\ f.more \in BOOLEAN
      /\ b.oos \in 0..3 /\ b.ns \in 0..7 /\ b.last_oos \in 0..7 \cup {100}
  BY LapdmAssumption DEF FrameOf, Ns, lapdm_buf
<1>2. oos \in 0..3
  BY <1>1
<1>3. CASE ~f.more /\ oos >= 3
  <2>1. r = [data |-> NoData, ns |-> Ns(f), oos |-> 0, last_oos |-> Ns(f)]
    BY <1>3 DEF Refuse
  <2>2. r \in lapdm_buf /\ ~r.data.some
    BY <1>1, <2>1 DEF lapdm_buf, NoData
  <2>3. QED
    BY <2>2 DEF Numbered, UpTo
<1>4. CASE ~(~f.more /\ oos >= 3)
  <2>1. r = [b EXCEPT !.oos = oos, !.last_oos = Ns(f)]
    BY <1>4 DEF Refuse
  <2> HIDE DEF r, oos, counts
  <2>2. r \in lapdm_buf /\ r.data = b.data /\ r.ns = b.ns /\ r.oos = oos /\ r.last_oos = Ns(f)
    BY <1>1, <1>2, <2>1 DEF lapdm_buf
  <2>3. ASSUME b.data.some, UpTo(b, f.n) PROVE UpTo(r, f.n)
    <3>1. b.data.last.n = f.n /\ b.ns = Ns(f) /\ Repeats(b) /\ b.data.intact
      BY <1>1, <2>3 DEF UpTo, Numbered
    <3>2. oos = 0 \/ oos = 1
      BY <1>1, <3>1 DEF Repeats, oos, counts
    <3>3. QED
      BY <2>2, <3>1, <3>2 DEF UpTo, Repeats
  <2>4. Numbered(r, l)
    BY <2>2 DEF Numbered
  <2>5. QED
    BY <2>2, <2>3, <2>4 DEF r
<1>5. QED
  BY <1>3, <1>4

\* A frame that passes carries the number after the last fragment.
LEMMA Added ==
  ASSUME NEW l \in Links, NEW b \in lapdm_buf, NEW f \in FrameOf(l), Numbered(b, l),
         ~OutOfSequence(b, f)
  PROVE  LET a == Add(Pass(b, f), f)
         IN /\ a \in lapdm_buf /\ a.data \in Data /\ a.data.follow8
            /\ a.data.last = [link |-> l, n |-> f.n]
            /\ f.kind = "I" => a.ns = f.n % 8 /\ a.oos = 0
            /\ UpTo(b, f.n) \/ Awaits(b, f.n) => a.data.intact
<1> DEFINE p == Pass(b, f)
           d == p.data
           a == Add(p, f)
           x == [some    |-> TRUE,
                 last    |-> [link |-> f.link, n |-> f.n],
                 intact  |-> d.some => d.intact /\ Follows(f, d.last),
                 follow8 |-> d.some => /\ d.follow8
                                       /\ f.link = d.last.link /\ Ns(f) = (Ns(d.last) + 1) % 8,
                 whole   |-> IF d.some THEN d.whole ELSE f.first]
<1>1. /\ f.n \in 0..(Span - 1) /\ f.n \in Nat /\ Ns(f) \in 0..7 /\ Ns(f) = f.n % 8 /\ f.link = l /\ f.first \in BOOLEAN
      /\ f.kind \in {"I", "UI", "SABM"}
  BY LapdmAssumption DEF FrameOf, Ns
<1>2. /\ p \in lapdm_buf
      /\ d \in {b.data, NoData} /\ (f.kind = "SABM" => d = NoData)
      /\ f.kind = "I" => p.ns = f.n % 8 /\ p.oos = 0
  <2>1. CASE f.kind = "I"
    <3>1. p = [b EXCEPT !.oos = 0, !.last_oos = 100, !.ns = Ns(f)]
      BY <2>1 DEF Pass
    <3> HIDE DEF p
    <3>2. p \in lapdm_buf
      <4>1. p = [data |-> b.data, ns |-> Ns(f), oos |-> 0, last_oos |-> 100]
        BY <3>1 DEF lapdm_buf
      <4>2. b.data \in Data \cup {NoData} /\ 0 \in 0..3 /\ 100 \in 0..7 \cup {100}
        BY DEF lapdm_buf
      <4>3. QED
        BY <1>1, <4>1, <4>2 DEF lapdm_buf
    <3>3. p.data = b.data /\ p.ns = Ns(f) /\ p.oos = 0
      BY <3>1 DEF lapdm_buf
    <3>4. QED
      BY <1>1, <2>1, <3>2, <3>3
  <2>2. CASE f.kind = "SABM"
    <3>1. p \in lapdm_buf /\ p.data = NoData
      BY <2>2, PassSabm
    <3>2. QED
      BY <2>2, <3>1
  <2>3. CASE f.kind = "UI"
    <3>1. p = b
      BY <2>3 DEF Pass
    <3> HIDE DEF p
    <3>2. QED
      BY <1>1, <2>3, <3>1
  <2>4. QED
    BY <1>1, <2>1, <2>2, <2>3
<1>3. d.some \in BOOLEAN /\ (d.some => d \in Data)
  BY <1>2, DataForms
<1>4. d.some => /\ f.kind = "I" /\ d = b.data /\ b.data.some
                /\ d.last.link = l /\ d.last.n % 8 = b.ns /\ d.follow8
                /\ Ns(f) = (b.ns + 1) % 8
  <2> SUFFICES ASSUME d.some
               PROVE  /\ f.kind = "I" /\ d = b.data /\ b.data.some
                      /\ d.last.link = l /\ d.last.n % 8 = b.ns /\ d.follow8
                      /\ Ns(f) = (b.ns + 1) % 8
    OBVIOUS
  <2>1. d = b.data /\ b.data.some /\ f.kind # "SABM"
    BY <1>2 DEF NoData
  <2>2. l \notin Unnumbered /\ d.last.link = l /\ d.last.n % 8 = b.ns /\ d.follow8
    BY <2>1 DEF Numbered
  <2>3. f.kind = "I"
    BY <1>1, <2>1, <2>2 DEF FrameOf
  <2>4. QED
    BY <2>1, <2>2, <2>3 DEF OutOfSequence
<1>5. x \in Data /\ x.follow8 = TRUE
  <2>1. x.last \in [link : Links, n : 0..(Span - 1)]
    BY <1>1
  <2>2. d.some => d.intact \in BOOLEAN /\ d.whole \in BOOLEAN
    BY <1>3 DEF Data
  <2>3. x.follow8 = TRUE
    BY <1>1, <1>3, <1>4 DEF Ns
  <2>4. x.intact \in BOOLEAN /\ x.whole \in BOOLEAN
    BY <1>1, <1>3, <2>2
  <2>5. QED
    BY <2>1, <2>3, <2>4 DEF Data
<1>6. UpTo(b, f.n) \/ Awaits(b, f.n) => x.intact = TRUE
  <2> SUFFICES ASSUME UpTo(b, f.n) \/ Awaits(b, f.n), d.some
               PROVE  d.intact /\ Follows(f, d.last)
    BY <1>3
  <2>1. f.kind = "I" /\ d = b.data /\ b.data.some /\ d.last.link = l /\ d.last.n % 8 = b.ns /\ Ns(f) = (b.ns + 1) % 8
    BY <1>4
  <2>2. ~UpTo(b, f.n)
    BY <1>1, <2>1 DEF UpTo, lapdm_buf
  <2>3. QED
    BY <1>1, <2>1, <2>2 DEF Awaits, Follows
<1>7. a = [p EXCEPT !.data = x]
  BY DEF Add
<1> HIDE DEF x, p
<1>8. a \in lapdm_buf /\ a.data = x /\ a.ns = p.ns /\ a.oos = p.oos
  BY <1>2, <1>5, <1>7 DEF lapdm_buf
<1>9. x.last = [link |-> l, n |-> f.n]
  BY <1>1 DEF x
<1> HIDE DEF a
<1>10. QED
  BY <1>2, <1>5, <1>6, <1>8, <1>9 DEF a, p

-----------------------------------------------------------------------------
(* The steps.                                                              *)

\* The buffer of a stream is one of the channel's.
LEMMA BufferOfType ==
  ASSUME NEW l \in Links
  PROVE  BufferOf(l) \in Buffers
  BY LapdmAssumption DEF BufferOf, Buffers

\* What hearing a frame does: only the buffer of its stream changes, and what
\* is given on is without a gap.  When the frame is the last one of the buffer
\* again, or the next one, the buffer reaches up to it, and what is given on
\* is intact.
LEMMA HeardKeeps ==
  ASSUME Separate, TypeOK, NoGap, NEW l \in Links, NEW f \in FrameOf(l),
         Numbered(mb[BufferOf(l)], l), Heard(f)
  PROVE  LET i == BufferOf(l)
         IN /\ mb' \in [Buffers -> lapdm_buf]
            /\ \A m \in Links : m # l => mb'[BufferOf(m)] = mb[BufferOf(m)]
            /\ Numbered(mb'[i], l)
            /\ f.kind # "I" => ~mb'[i].data.some
            /\ out' \in Report \cup {NoData}
            /\ NoGap'
            /\ UpTo(mb[i], f.n) \/ Awaits(mb[i], f.n) => UpTo(mb'[i], f.n)
            /\ UpTo(mb[i], f.n) \/ Awaits(mb[i], f.n) => out' = out \/ out'.intact
<1> DEFINE i == BufferOf(l)
           b == mb[i]
           a == Add(Pass(b, f), f)
<1>1. i \in Buffers /\ b \in lapdm_buf /\ f.link = l /\ mb \in [Buffers -> lapdm_buf]
  BY BufferOfType DEF TypeOK, FrameOf
<1>2. out \in Report \cup {NoData}
  BY DEF TypeOK
<1>3. f.n \in Nat /\ f.kind \in {"I", "UI", "SABM"} /\ (f.kind # "I" => ~f.more) /\ (f.kind = "UI" => l \in Unnumbered)
  BY LapdmAssumption DEF FrameOf
<1>4. \A m \in Links : m # l => BufferOf(m) # i /\ BufferOf(m) \in Buffers
  BY BufferOfType DEF Separate
<1>5. \A e : mb' = [mb EXCEPT ![i] = e] /\ e \in lapdm_buf =>
        /\ mb' \in [Buffers -> lapdm_buf] /\ mb'[i] = e
        /\ \A m \in Links : m # l => mb'[BufferOf(m)] = mb[BufferOf(m)]
  BY <1>1, <1>4
<1>6. CASE OutOfSequence(b, f)
  <2>1. mb' = [mb EXCEPT ![i] = Refuse(b, f)] /\ out' = out
    BY <1>1, <1>6 DEF Heard
  <2>2. /\ Refuse(b, f) \in lapdm_buf /\ Numbered(Refuse(b, f), l)
        /\ b.data.some /\ UpTo(b, f.n) => UpTo(Refuse(b, f), f.n)
    BY <1>1, Refused
  <2>3. f.kind = "I" /\ b.data.some
    BY <1>6 DEF OutOfSequence
  <2>4. ~Awaits(b, f.n)
    <3> SUFFICES ASSUME Awaits(b, f.n) PROVE FALSE
      OBVIOUS
    <3>1. f.n = (b.data.last.n + 1) % Span /\ Repeats(b) /\ b.data.last.n % 8 = b.ns
      BY <2>3 DEF Awaits, Numbered
    <3>2. b.data.last.n \in 0..(Span - 1)
      BY <1>1, <2>3, DataForms DEF Data
    <3>3. Ns(f) = (b.ns + 1) % 8
      BY <3>1, <3>2, NextNumber DEF Ns
    <3>4. ~(b.oos >= 3)
      BY <3>1 DEF Repeats
    <3>5. QED
      BY <1>6, <3>3, <3>4 DEF OutOfSequence
  <2>5. NoGap'
    BY <2>1 DEF NoGap
  <2>6. QED
    BY <1>2, <1>5, <2>1, <2>2, <2>3, <2>4, <2>5
<1>7. CASE ~OutOfSequence(b, f)
  <2>1. /\ a \in lapdm_buf /\ a.data \in Data /\ a.data.follow8
        /\ a.data.last = [link |-> l, n |-> f.n]
        /\ f.kind = "I" => a.ns = f.n % 8 /\ a.oos = 0
        /\ UpTo(b, f.n) \/ Awaits(b, f.n) => a.data.intact
    BY <1>1, <1>7, Added
  <2>2. CASE f.more
    <3>1. mb' = [mb EXCEPT ![i] = a] /\ out' = out /\ f.kind = "I"
      BY <1>1, <1>3, <1>7, <2>2 DEF Heard
    <3>2. Numbered(a, l)
      <4>1. l \notin Unnumbered
        BY <3>1 DEF FrameOf
      <4>2. QED
        BY <2>1, <3>1, <4>1 DEF Numbered
    <3>3. UpTo(b, f.n) \/ Awaits(b, f.n) => UpTo(a, f.n)
      BY <2>1, <3>1 DEF UpTo, Repeats
    <3>4. NoGap'
      BY <3>1 DEF NoGap
    <3>5. QED
      BY <1>2, <1>5, <2>1, <3>1, <3>2, <3>3, <3>4
  <2>3. CASE ~f.more
    <3> DEFINE e == [a EXCEPT !.data = NoData]
    <3>1. mb' = [mb EXCEPT ![i] = e] /\ out' = Given(a.data)
      BY <1>1, <1>7, <2>3 DEF Heard
    <3>2. e \in lapdm_buf /\ ~e.data.some
      BY <2>1 DEF lapdm_buf, NoData
    <3>3. out' \in Report /\ out'.follow8 /\ out'.intact = a.data.intact
      BY <2>1, <3>1 DEF Given, Report, Data
    <3>4. Numbered(e, l) /\ UpTo(e, f.n)
      BY <3>2 DEF Numbered, UpTo
    <3>5. NoGap'
      BY <3>3 DEF NoGap
    <3> HIDE DEF e
    <3>6. QED
      BY <1>5, <2>1, <3>1, <3>2, <3>3, <3>4, <3>5
  <2>4. QED
    BY <2>2, <2>3
<1>8. QED
  BY <1>6, <1>7

\* The frame a sender is at.
LEMMA CurrentFrame ==
  ASSUME IInv, NEW l \in Links
  PROVE  Current(l) \in FrameOf(l) /\ Current(l).n = tx[l].n
<1>1. tx[l] \in [n : 0..(Span - 1), pos : 1..MaxFrag, more : BOOLEAN, heard : BOOLEAN]
  BY DEF IInv, TypeOK
<1>2. l \in Unnumbered => ~tx[l].more
  BY DEF IInv, Announces
<1>3. QED
  BY <1>1, <1>2 DEF Current, FrameOf

\* A frame that is heard, for the first time or again.
LEMMA HearKeeps ==
  ASSUME Separate, IInv, NEW l \in Links, Heard(Current(l)),
         tx' = [tx EXCEPT ![l].heard = TRUE], lost' = lost, again' \in 0..MaxAgain
  PROVE  IInv'
<1> DEFINE f == Current(l)
           i == BufferOf(l)
<1>1. f \in FrameOf(l) /\ f.n = tx[l].n
  BY CurrentFrame
<1>2. TypeOK /\ NoGap /\ Intact /\ Numbered(mb[i], l)
  BY DEF IInv
<1>3. tx[l] \in [n : 0..(Span - 1), pos : 1..MaxFrag, more : BOOLEAN, heard : BOOLEAN]
  BY <1>2 DEF TypeOK
<1>4. /\ tx' \in [Links -> [n : 0..(Span - 1), pos : 1..MaxFrag, more : BOOLEAN, heard : BOOLEAN]]
      /\ tx'[l].heard /\ tx'[l].n = tx[l].n /\ tx'[l].more = tx[l].more /\ tx'[l].pos = tx[l].pos
      /\ \A m \in Links : m # l => tx'[m] = tx[m]
  BY <1>2, <1>3 DEF TypeOK
<1> HIDE DEF f
<1>5. /\ mb' \in [Buffers -> lapdm_buf]
      /\ \A m \in Links : m # l => mb'[BufferOf(m)] = mb[BufferOf(m)]
      /\ Numbered(mb'[i], l)
      /\ out' \in Report \cup {NoData}
      /\ NoGap'
      /\ UpTo(mb[i], f.n) \/ Awaits(mb[i], f.n) => UpTo(mb'[i], f.n)
      /\ UpTo(mb[i], f.n) \/ Awaits(mb[i], f.n) => out' = out \/ out'.intact
  BY <1>1, <1>2, HeardKeeps DEF f
<1>6. TypeOK'
  BY <1>2, <1>4, <1>5 DEF TypeOK
<1>7. lost = 0 => UpTo(mb[i], f.n) \/ Awaits(mb[i], f.n)
  BY <1>1 DEF IInv, InOrder
<1>8. Intact'
  BY <1>2, <1>5, <1>7 DEF Intact
<1>9. \A m \in Links : /\ Announces(m, tx'[m])
                       /\ Numbered(mb'[BufferOf(m)], m)
                       /\ lost' = 0 => InOrder(mb'[BufferOf(m)], tx'[m])
  <2> SUFFICES ASSUME NEW m \in Links
               PROVE  /\ Announces(m, tx'[m])
                      /\ Numbered(mb'[BufferOf(m)], m)
                      /\ lost' = 0 => InOrder(mb'[BufferOf(m)], tx'[m])
    OBVIOUS
  <2>1. CASE m = l
    BY <1>1, <1>4, <1>5, <1>7, <2>1 DEF IInv, InOrder, Announces
  <2>2. CASE m # l
    BY <1>4, <1>5, <2>2 DEF IInv
  <2>3. QED
    BY <2>1, <2>2
<1>10. QED
  BY <1>5, <1>6, <1>8, <1>9 DEF IInv, Numbered, InOrder, UpTo, Awaits, Repeats, Announces

\* The sender goes on to the next frame.
LEMMA AdvanceKeeps ==
  ASSUME IInv, NEW l \in Links, NEW more \in BOOLEAN, Advance(l, more),
         lost' \in 0..MaxLost, lost' = 0 => lost = 0 /\ tx[l].heard
  PROVE  IInv'
<1> DEFINE pos == IF tx[l].more THEN tx[l].pos + 1 ELSE 1
<1>1. /\ TypeOK /\ NoGap /\ Intact
      /\ tx[l] \in [n : 0..(Span - 1), pos : 1..MaxFrag, more : BOOLEAN, heard : BOOLEAN]
  BY DEF IInv, TypeOK
<1>2. pos \in 1..MaxFrag
  BY LapdmAssumption, <1>1 DEF IInv, Announces
<1>3. more \in MoreAt(l, pos) /\ mb' = mb /\ out' = out /\ again' = again
  BY DEF Advance
<1>4. (tx[l].n + 1) % Span \in 0..(Span - 1)
  BY <1>1, NextNumber
<1>5. tx' = [tx EXCEPT ![l] = [n |-> (tx[l].n + 1) % Span, pos |-> pos, more |-> more, heard |-> FALSE]]
  BY DEF Advance
<1> HIDE DEF pos
<1>6. /\ tx' \in [Links -> [n : 0..(Span - 1), pos : 1..MaxFrag, more : BOOLEAN, heard : BOOLEAN]]
      /\ tx'[l] = [n |-> (tx[l].n + 1) % Span, pos |-> pos, more |-> more, heard |-> FALSE]
      /\ \A m \in Links : m # l => tx'[m] = tx[m]
  BY <1>1, <1>2, <1>4, <1>5 DEF TypeOK
<1>7. TypeOK'
  BY <1>1, <1>3, <1>6 DEF TypeOK
<1>8. NoGap' /\ Intact'
  BY <1>1, <1>3 DEF NoGap, Intact
<1>9. Announces(l, tx'[l])
  BY LapdmAssumption, <1>2, <1>3, <1>6 DEF Announces, MoreAt
<1>10. \A m \in Links : /\ Announces(m, tx'[m])
                        /\ Numbered(mb'[BufferOf(m)], m)
                        /\ lost' = 0 => InOrder(mb'[BufferOf(m)], tx'[m])
  <2> SUFFICES ASSUME NEW m \in Links
               PROVE  /\ Announces(m, tx'[m])
                      /\ Numbered(mb'[BufferOf(m)], m)
                      /\ lost' = 0 => InOrder(mb'[BufferOf(m)], tx'[m])
    OBVIOUS
  <2>1. CASE m = l
    <3>1. lost' = 0 => UpTo(mb[BufferOf(l)], tx[l].n)
      BY DEF IInv, InOrder
    <3>2. lost' = 0 => Awaits(mb[BufferOf(l)], (tx[l].n + 1) % Span)
      BY <3>1 DEF UpTo, Awaits
    <3>3. lost' = 0 => InOrder(mb[BufferOf(l)], tx'[l])
      BY <1>6, <3>2 DEF InOrder
    <3>4. QED
      BY <1>3, <1>9, <2>1, <3>3 DEF IInv
  <2>2. CASE m # l
    BY <1>3, <1>6, <2>2 DEF IInv
  <2>3. QED
    BY <2>1, <2>2
<1>11. QED
  BY <1>7, <1>8, <1>10 DEF IInv, Numbered, InOrder, UpTo, Awaits, Repeats, Announces

\* The link is established again, with or without a message in the SABM.
LEMMA EstablishKeeps ==
  ASSUME Separate, IInv, NEW l \in Links, NEW payload \in BOOLEAN, NEW more \in BOOLEAN,
         Establish(l, payload, more)
  PROVE  IInv'
<1> DEFINE f == Sabm(l)
           i == BufferOf(l)
<1>1. TypeOK /\ NoGap /\ Intact /\ Numbered(mb[i], l) /\ mb[i] \in lapdm_buf /\ i \in Buffers
  BY BufferOfType DEF IInv, TypeOK
<1>2. f \in FrameOf(l) /\ f.kind = "SABM" /\ f.n = 0 /\ f.link = l
  BY LapdmAssumption DEF Establish, Sabm, FrameOf
<1>3. /\ mb' \in [Buffers -> lapdm_buf]
      /\ \A m \in Links : m # l => mb'[BufferOf(m)] = mb[BufferOf(m)]
      /\ ~mb'[i].data.some
      /\ out' \in Report \cup {NoData} /\ NoGap' /\ (lost = 0 => out' = out \/ out'.intact)
  <2>1. CASE payload
    <3>1. Heard(f)
      BY <2>1 DEF Establish
    <3>2. ~OutOfSequence(mb[i], f) /\ ~f.more
      BY <1>2 DEF OutOfSequence, Sabm
    <3>3. out'.intact
      <4>1. out' = Given(Add(Pass(mb[i], f), f).data)
        BY <1>2, <3>1, <3>2 DEF Heard
      <4>2. Pass(mb[i], f) \in lapdm_buf /\ Pass(mb[i], f).data = NoData
        BY <1>1, <1>2, PassSabm
      <4>3. Add(Pass(mb[i], f), f).data.intact = (NoData.some => FALSE)
        BY <4>2 DEF Add, lapdm_buf, NoData
      <4>4. NoData.some = FALSE
        BY DEF NoData
      <4>5. QED
        BY <4>1, <4>3, <4>4 DEF Given
    <3>4. QED
      BY <1>1, <1>2, <3>1, <3>3, HeardKeeps
  <2>2. CASE ~payload
    <3> DEFINE p == Pass(mb[i], f)
    <3>1. mb' = [mb EXCEPT ![i] = p] /\ out' = out
      BY <1>2, <2>2 DEF Establish, HeardSabm
    <3>5. p \in lapdm_buf /\ p.data = NoData
      BY <1>1, <1>2, PassSabm
    <3> HIDE DEF p
    <3>6. ~p.data.some
      BY <3>5 DEF NoData
    <3>7. \A m \in Links : m # l => BufferOf(m) # i /\ BufferOf(m) \in Buffers
      BY BufferOfType DEF Separate
    <3>8. mb \in [Buffers -> lapdm_buf] /\ out \in Report \cup {NoData}
      BY <1>1 DEF TypeOK
    <3>9. NoGap'
      BY <1>1, <3>1 DEF NoGap
    <3>10. QED
      BY <1>1, <3>1, <3>5, <3>6, <3>7, <3>8, <3>9
  <2>3. QED
    BY <2>1, <2>2
<1>4. /\ tx' = [tx EXCEPT ![l] = [n |-> 0, pos |-> 1, more |-> more, heard |-> FALSE]]
      /\ more \in MoreAt(l, 1) /\ again' = again + 1 /\ again < MaxAgain /\ lost' = lost
  BY DEF Establish
<1>5. /\ tx' \in [Links -> [n : 0..(Span - 1), pos : 1..MaxFrag, more : BOOLEAN, heard : BOOLEAN]]
      /\ tx'[l] = [n |-> 0, pos |-> 1, more |-> more, heard |-> FALSE]
      /\ \A m \in Links : m # l => tx'[m] = tx[m]
  BY LapdmAssumption, <1>1, <1>4 DEF TypeOK
<1>6. TypeOK'
  BY LapdmAssumption, <1>1, <1>3, <1>4, <1>5 DEF TypeOK
<1>7. Announces(l, tx'[l])
  BY LapdmAssumption, <1>4, <1>5 DEF Announces, MoreAt
<1>8. Numbered(mb'[i], l) /\ InOrder(mb'[i], tx'[l])
  BY <1>3 DEF Numbered, InOrder, UpTo, Awaits
<1>9. Intact'
  BY <1>1, <1>3, <1>4 DEF Intact
<1>10. \A m \in Links : /\ Announces(m, tx'[m])
                        /\ Numbered(mb'[BufferOf(m)], m)
                        /\ lost' = 0 => InOrder(mb'[BufferOf(m)], tx'[m])
  <2> SUFFICES ASSUME NEW m \in Links
               PROVE  /\ Announces(m, tx'[m])
                      /\ Numbered(mb'[BufferOf(m)], m)
                      /\ lost' = 0 => InOrder(mb'[BufferOf(m)], tx'[m])
    OBVIOUS
  <2>1. CASE m = l
    BY <1>7, <1>8, <2>1
  <2>2. CASE m # l
    BY <1>3, <1>4, <1>5, <2>2 DEF IInv
  <2>3. QED
    BY <2>1, <2>2
<1>11. QED
  BY <1>3, <1>6, <1>9, <1>10 DEF IInv, Numbered, InOrder, UpTo, Awaits, Repeats, Announces

\* The invariant holds initially and every step keeps it.
THEOREM Inductive ==
  ASSUME Separate
  PROVE  Spec => []IInv
<1>1. Init => IInv
  <2> SUFFICES ASSUME Init PROVE IInv
    OBVIOUS
  <2>1. PICK more \in [Links -> BOOLEAN] :
          /\ \A l \in Links : more[l] \in MoreAt(l, 1)
          /\ tx = [l \in Links |-> [n |-> 0, pos |-> 1, more |-> more[l], heard |-> FALSE]]
    BY DEF Init
  <2>2. Zeroed \in lapdm_buf /\ ~Zeroed.data.some
    BY DEF Zeroed, lapdm_buf, NoData
  <2>3. \A l \in Links : mb[BufferOf(l)] = Zeroed
    BY BufferOfType DEF Init
  <2>4. TypeOK
    <3>1. tx \in [Links -> [n : 0..(Span - 1), pos : 1..MaxFrag, more : BOOLEAN, heard : BOOLEAN]]
      BY LapdmAssumption, <2>1
    <3>2. mb \in [Buffers -> lapdm_buf]
      BY <2>2 DEF Init
    <3>3. QED
      BY LapdmAssumption, <3>1, <3>2 DEF Init, TypeOK
  <2>5. NoGap /\ Intact
    BY DEF Init, NoGap, Intact, NoData
  <2>6. ASSUME NEW l \in Links PROVE Announces(l, tx[l])
    <3>1. tx[l].more = more[l] /\ tx[l].pos = 1 /\ more[l] \in MoreAt(l, 1)
      BY <2>1
    <3>2. more[l] => l \notin Unnumbered /\ 1 # MaxFrag
      BY <3>1 DEF MoreAt
    <3>3. QED
      BY LapdmAssumption, <3>1, <3>2 DEF Announces
  <2>7. \A l \in Links : Numbered(mb[BufferOf(l)], l) /\ InOrder(mb[BufferOf(l)], tx[l])
    BY <2>2, <2>3 DEF Numbered, InOrder, UpTo, Awaits
  <2>8. QED
    BY <2>4, <2>5, <2>6, <2>7 DEF IInv
<1>2. IInv /\ [Next]_vars => IInv'
  <2> SUFFICES ASSUME IInv, [Next]_vars PROVE IInv'
    OBVIOUS
  <2>0. TypeOK
    BY DEF IInv
  <2>1. ASSUME NEW l \in Links, Hear(l) PROVE IInv'
    BY <2>0, <2>1, HearKeeps DEF Hear, TypeOK
  <2>2. ASSUME NEW l \in Links, HearAgain(l) PROVE IInv'
    <3>1. tx' = [tx EXCEPT ![l].heard = TRUE]
      BY <2>0, <2>2 DEF HearAgain, TypeOK
    <3>2. again' \in 0..MaxAgain
      BY LapdmAssumption, <2>0, <2>2 DEF HearAgain, TypeOK
    <3>3. QED
      BY <2>2, <3>1, <3>2, HearKeeps DEF HearAgain
  <2>3. ASSUME NEW l \in Links, NEW more \in BOOLEAN, NextFrame(l, more) PROVE IInv'
    BY <2>0, <2>3, AdvanceKeeps DEF NextFrame, TypeOK
  <2>4. ASSUME NEW l \in Links, NEW more \in BOOLEAN, Lose(l, more) PROVE IInv'
    <3>1. lost' \in 0..MaxLost /\ lost' # 0
      BY LapdmAssumption, <2>0, <2>4 DEF Lose, TypeOK
    <3>2. QED
      BY <2>4, <3>1, AdvanceKeeps DEF Lose
  <2>5. ASSUME NEW l \in Links, NEW payload \in BOOLEAN, NEW more \in BOOLEAN, Establish(l, payload, more)
        PROVE  IInv'
    BY <2>5, EstablishKeeps
  <2>6. CASE UNCHANGED vars
    BY <2>6 DEF vars, IInv, TypeOK, Announces, Numbered, InOrder, UpTo, Awaits, Repeats, NoGap, Intact
  <2>7. QED
    BY <2>1, <2>2, <2>3, <2>4, <2>5, <2>6 DEF Next
<1>3. QED
  BY <1>1, <1>2, PTL DEF Spec

\* Intact: as long as no frame is missing, a message given to handle_dtap has the
\* frames of one stream, each the one after the other, whatever is repeated or
\* re-established and however the streams interleave (handle_lapdm).
THEOREM MessagesIntact ==
  ASSUME Separate
  PROVE  Spec => []Intact
<1>1. IInv => Intact
  BY DEF IInv
<1>2. QED
  BY <1>1, Inductive, PTL

\* NoGap: whatever is lost, the frames of a message given to handle_dtap are of
\* one stream and numbered one after the other (the check of N(S) in
\* handle_lapdm); and the buffers have their types.
THEOREM NumbersWithoutGap ==
  ASSUME Separate
  PROVE  Spec => [](TypeOK /\ NoGap)
<1>1. IInv => TypeOK /\ NoGap
  BY DEF IInv
<1>2. QED
  BY <1>1, Inductive, PTL
=============================================================================
