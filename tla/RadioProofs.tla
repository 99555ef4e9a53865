---------------------------- MODULE RadioProofs ----------------------------
(***************************************************************************)
(* Proofs about the radio side: the blocks of dedicated channels (Bursts), *)
(* the blocks of packet channels (Pdch), and the check of the padding      *)
(* (Padding).                                                              *)
(***************************************************************************)
EXTENDS Bursts, Pdch, Padding, FunctionTheorems, FiniteSetTheorems, SequenceTheorems, TLAPS
-----------------------------------------------------------------------------
(* Signalling blocks.                                                      *)

\* The position of frame f in channel a, what is sent in it, and the frame d
\* frames later.
AtIn(a, f) == (f % Len(a)) + 1
BurstIn(a, f) == [fn |-> f, block |-> a[AtIn(a, f)].block, i |-> a[AtIn(a, f)].i, ul |-> a[AtIn(a, f)].ul]
Later(f, d) == IF f + d < MaxFN THEN f + d ELSE f + d - MaxFN

\* Remainders of a frame number.
LEMMA Remainders ==
  ASSUME NEW m \in Nat, m > 0, NEW y \in Int
  PROVE  /\ y % m \in 0..(m - 1)
         /\ y >= 0 /\ y < m => y % m = y
         /\ y = m => y % m = 0
         /\ y < 0 /\ y >= -m => y % m = y + m
<1>1. y % m \in 0..(m - 1)
  OBVIOUS
<1>2. y >= 0 /\ y < m => y % m = y
  OBVIOUS
<1>3. y = m => y % m = 0
  OBVIOUS
<1>4. y < 0 /\ y >= -m => y % m = y + m
  OBVIOUS
<1> QED
  BY <1>1, <1>2, <1>3, <1>4

\* What the channels are.
LEMMA AirIs ==
  ASSUME NEW a \in Airs
  PROVE  /\ Len(a) \in Nat /\ Len(a) > 0 /\ Len(a) <= MaxFN /\ MaxFN \in Nat /\ MaxFN > 0
         /\ \A k \in 1..Len(a) : a[k] # <<>> => a[k] \in OnAir /\ (BufferOf(a[k]) = {} => a[k].i = 0)
         /\ \A f \in 0..(MaxFN - 1) : ((f + 1) % MaxFN) % Len(a) = ((f % Len(a)) + 1) % Len(a)
BY BurstsAssumption, LenProperties DEF Channel

\* The next frame, its number and its position.
LEMMA NextFrameIs ==
  ASSUME NEW a \in Airs, NEW f \in 0..(MaxFN - 1)
  PROVE  /\ AtIn(a, f) \in 1..Len(a)
         /\ (f + 1) % MaxFN = Later(f, 1) /\ Later(f, 1) \in 0..(MaxFN - 1)
         /\ AtIn(a, Later(f, 1)) = Seat(a, AtIn(a, f), 1)
<1>1. /\ Len(a) \in Nat /\ Len(a) > 0 /\ Len(a) <= MaxFN /\ MaxFN \in Nat /\ MaxFN > 0
      /\ ((f + 1) % MaxFN) % Len(a) = ((f % Len(a)) + 1) % Len(a)
  BY AirIs
<1> DEFINE n == Len(a)
           y == f % n
<1>2. y \in 0..(n - 1)
  BY <1>1, Remainders
<1>3. (f + 1) % MaxFN = Later(f, 1) /\ Later(f, 1) \in 0..(MaxFN - 1)
  <2>1. f + 1 \in Int
    OBVIOUS
  <2>2. /\ f + 1 < MaxFN => (f + 1) % MaxFN = f + 1
        /\ f + 1 = MaxFN => (f + 1) % MaxFN = 0
    BY <1>1, <2>1, Remainders
  <2> QED
    BY <1>1, <2>2 DEF Later
<1>4. (y + 1) % n = IF y + 1 = n THEN 0 ELSE y + 1
  <2> HIDE DEF y, n
  <2>1. n \in Nat /\ n > 0
    BY <1>1 DEF n
  <2>2. y + 1 \in Int
    BY <1>2
  <2>3. /\ y + 1 < n => (y + 1) % n = y + 1
        /\ y + 1 = n => (y + 1) % n = 0
    BY <1>2, <2>1, <2>2, Remainders
  <2> QED
    BY <1>2, <2>1, <2>3
<1>5. AtIn(a, f) = y + 1 /\ AtIn(a, Later(f, 1)) = ((y + 1) % n) + 1
  BY <1>1, <1>3 DEF AtIn
<1> HIDE DEF y
<1>6. Seat(a, y + 1, 1) = ((y + 1) % n) + 1
  BY <1>1, <1>2, <1>4 DEF Seat
<1> QED
  BY <1>1, <1>2, <1>3, <1>5, <1>6

\* Positions one after the other.
LEMMA Seats ==
  ASSUME NEW a, Len(a) \in Nat, Len(a) > 0, NEW k \in 1..Len(a)
  PROVE  /\ Seat(a, k, 0) = k /\ Seat(a, k, Len(a)) = k /\ Seat(a, k, 1) \in 1..Len(a)
         /\ \A d \in 0..(Len(a) - 1) : /\ Seat(a, Seat(a, k, 1), d) = Seat(a, k, d + 1)
                                       /\ Seat(a, Seat(a, k, d), 1) = Seat(a, k, d + 1)
                                       /\ Seat(a, k, d) \in 1..Len(a)
<1> DEFINE n == Len(a)
<1>1. n \in Nat /\ n > 0 /\ k \in 1..n
  OBVIOUS
<1>2. \A j \in 1..n, d \in 0..n : Seat(a, j, d) = IF j + d <= n THEN j + d ELSE j + d - n
  BY DEF Seat
<1> HIDE DEF n
<1>3. ASSUME NEW j \in 1..n, NEW d \in 0..n
      PROVE  Seat(a, j, d) \in 1..n
  <2>1. Seat(a, j, d) = IF j + d <= n THEN j + d ELSE j + d - n
    BY <1>2
  <2>2. j \in Int /\ j >= 1 /\ j <= n /\ d \in Int /\ d >= 0 /\ d <= n
    BY <1>1
  <2>3. CASE j + d <= n
    <3>1. Seat(a, j, d) = j + d
      BY <2>1, <2>3
    <3> QED
      BY <1>1, <2>2, <2>3, <3>1
  <2>4. CASE ~(j + d <= n)
    <3>1. Seat(a, j, d) = j + d - n
      BY <2>1, <2>4
    <3> QED
      BY <1>1, <2>2, <2>4, <3>1
  <2> QED
    BY <2>3, <2>4
<1>4. Seat(a, k, 0) = k /\ Seat(a, k, n) = k
  BY <1>1, <1>2
<1>5. ASSUME NEW d \in 0..(n - 1)
      PROVE  /\ Seat(a, Seat(a, k, 1), d) = Seat(a, k, d + 1)
             /\ Seat(a, Seat(a, k, d), 1) = Seat(a, k, d + 1)
  <2>1. d \in 0..n /\ d + 1 \in 0..n /\ 1 \in 0..n /\ 0 \in 0..n
    BY <1>1
  <2>2. Seat(a, k, 1) = (IF k + 1 <= n THEN k + 1 ELSE k + 1 - n) /\ Seat(a, k, 1) \in 1..n
    BY <1>1, <1>2, <1>3, <2>1
  <2>3. Seat(a, Seat(a, k, 1), d) = IF Seat(a, k, 1) + d <= n THEN Seat(a, k, 1) + d ELSE Seat(a, k, 1) + d - n
    BY <1>2, <2>1, <2>2
  <2>4. Seat(a, k, d + 1) = IF k + (d + 1) <= n THEN k + (d + 1) ELSE k + (d + 1) - n
    BY <1>1, <1>2, <2>1
  <2>5. Seat(a, k, d) = (IF k + d <= n THEN k + d ELSE k + d - n) /\ Seat(a, k, d) \in 1..n
    BY <1>1, <1>2, <1>3, <2>1
  <2>6. Seat(a, Seat(a, k, d), 1) = IF Seat(a, k, d) + 1 <= n THEN Seat(a, k, d) + 1 ELSE Seat(a, k, d) + 1 - n
    BY <1>2, <2>1, <2>5
  <2> QED
    BY <1>1, <2>2, <2>3, <2>4, <2>5, <2>6
<1>6. \A d \in 0..(n - 1) : d \in 0..n
  BY <1>1
<1>7. 1 \in 0..n
  BY <1>1
<1> QED
  BY <1>1, <1>3, <1>4, <1>5, <1>6, <1>7 DEF n

-----------------------------------------------------------------------------
\* The bursts of a buffer.
CBursts == [fn : 0..(MaxFN - 1), block : STRING, i : 0..3, ul : BOOLEAN]

\* The buffers whose bursts are checked for their order.
Checked == {"sdcch", "sacch"}

\* Bursts as they were sent for buffer x, on a dedicated channel frame by frame and
\* all of one direction.
InRow(a, q, x) ==
  /\ \A j \in 1..Len(q) : q[j] = BurstIn(a, q[j].fn) /\ For(a, AtIn(a, q[j].fn), x)
  /\ x \in Checked => \A j \in 2..Len(q) : q[j].fn = (q[j - 1].fn + 1) % MaxFN /\ q[j].ul = q[1].ul

\* What a buffer of channel a holds, whatever was missed: at most three bursts.
Holds(a, q, x) == q \in Seq(CBursts) /\ Len(q) <= 3 /\ InRow(a, q, x)

\* Four bursts that decode on channel a.
IsBlock(a, m) == /\ Len(m) = 4
                 /\ \A k \in 1..4 : m[k].i = k - 1 /\ m[k].block = m[1].block
                 /\ \A k \in 2..4 : (m[k].fn - m[1].fn) % MaxFN < Len(a)

\* The next burst for the buffer is the one it waits for.
Awaits(a, k, q, x) ==
  \A d \in 0..(Len(a) - 1) : FirstFor(a, k, x, d) =>
     a[Seat(a, k, d)].i = Len(q) /\ (q # <<>> => a[Seat(a, k, d)].block = q[1].block)

\* The bursts in the buffer are the first ones of a block.
Begun(a, q) == \A j \in 1..Len(q) :
                  /\ q[j].i = j - 1 /\ q[j].block = q[1].block
                  /\ \E g \in 0..(Len(a) - 1) : q[j].fn = Later(q[1].fn, g)

\* In frame f no more than a multiframe has passed since the first of them.
Lately(a, f, q) == \E g \in 1..Len(a) : f = Later(q[1].fn, g) /\ AtIn(a, f) = Seat(a, AtIn(a, q[1].fn), g)

\* What a buffer of channel a holds when nothing was missed before frame f.
Ready(a, f, q, x) ==
  /\ Awaits(a, AtIn(a, f), q, x) /\ Begun(a, q)
  /\ q # <<>> => Lately(a, f, q)
  /\ q # <<>> /\ x \in Checked => f = (Latest(q).fn + 1) % MaxFN /\ For(a, AtIn(a, f), x)

\* The invariant of the signalling blocks.
CcchInv ==
  /\ air \in Airs /\ fn \in 0..(MaxFN - 1) /\ missed \in 0..(MaxMiss + 1)
  /\ bb \in [Buffers -> Seq(CBursts)]
  /\ \A x \in Buffers : Holds(air, bb[x], x)
  /\ Len(msg) \in {0, 4} /\ InOrder
  /\ missed = 0 => \A x \in Buffers : Ready(air, fn, bb[x], x)
  /\ missed = 0 /\ whole => try_decode(msg)

\* The kind of a burst decides on its buffer.
LEMMA BufferIs ==
  ASSUME NEW b \in OnAir, NEW x \in Buffers, x \in BufferOf(b)
  PROVE  /\ x \in Checked <=> b.type \in Dcch
         /\ b.type = Bm <=> b.type \notin Dcch
         /\ BufferOf(b) = {x}
<1>1. /\ b.type \in Dcch \cup {Bm} /\ b.sacch \in BOOLEAN /\ b.ul \in BOOLEAN
  BY DEF OnAir
<1>2. Bm \notin Dcch
  BY DEF Bm, Dcch
<1>3. CASE b.type = Bm
  <2>1. b.sacch /\ BufferOf(b) = {IF b.ul THEN "saccht_ul" ELSE "saccht_dl"}
    BY <1>2, <1>3 DEF BufferOf
  <2>2. x = IF b.ul THEN "saccht_ul" ELSE "saccht_dl"
    BY <2>1
  <2>3. x \notin Checked
    BY <2>2 DEF Checked
  <2> QED
    BY <1>2, <1>3, <2>1, <2>2, <2>3
<1>4. CASE b.type \in Dcch
  <2>1. BufferOf(b) = {IF b.sacch THEN "sacch" ELSE "sdcch"}
    BY <1>2, <1>4 DEF BufferOf
  <2>2. x = IF b.sacch THEN "sacch" ELSE "sdcch"
    BY <2>1
  <2>3. x \in Checked
    BY <2>2 DEF Checked
  <2> QED
    BY <1>2, <1>4, <2>1, <2>2, <2>3
<1> QED
  BY <1>1, <1>3, <1>4

\* The burst of frame f.
LEMMA BurstIs ==
  ASSUME NEW a \in Airs, NEW f \in 0..(MaxFN - 1), a[AtIn(a, f)] # <<>>
  PROVE  /\ a[AtIn(a, f)] \in OnAir /\ BurstIn(a, f) \in CBursts /\ BurstIn(a, f).fn = f
         /\ BurstIn(a, f).block = a[AtIn(a, f)].block /\ BurstIn(a, f).i = a[AtIn(a, f)].i
         /\ BurstIn(a, f).ul = a[AtIn(a, f)].ul
<1>1. AtIn(a, f) \in 1..Len(a)
  BY NextFrameIs
<1>2. a[AtIn(a, f)] \in OnAir
  BY <1>1, AirIs
<1>3. /\ a[AtIn(a, f)].block \in STRING /\ a[AtIn(a, f)].i \in 0..3 /\ a[AtIn(a, f)].ul \in BOOLEAN
  BY <1>2 DEF OnAir
<1> QED
  BY <1>2, <1>3 DEF BurstIn, CBursts

\* What is said of the burst after one for buffer x.
LEMMA ChannelIs ==
  ASSUME NEW a \in Airs, NEW k \in 1..Len(a), NEW x \in Buffers, For(a, k, x)
  PROVE  /\ \A d \in 0..(Len(a) - 1) : FirstFor(a, Seat(a, k, 1), x, d) =>
              /\ a[Seat(a, Seat(a, k, 1), d)].i = (a[k].i + 1) % 4
              /\ a[Seat(a, Seat(a, k, 1), d)].i # 0 => a[Seat(a, Seat(a, k, 1), d)].block = a[k].block
         /\ a[k].type \in Dcch /\ a[k].i # 3 => For(a, Seat(a, k, 1), x)
         /\ a[k].type \in Dcch /\ For(a, Seat(a, k, 1), x) => a[Seat(a, k, 1)].ul = a[k].ul
BY BurstsAssumption DEF Channel

\* When a frame holds nothing for the buffer, its first burst is the first one
\* from the next frame on.
LEMMA FirstNext ==
  ASSUME NEW a \in Airs, NEW k \in 1..Len(a), NEW x \in Buffers, ~For(a, k, x),
         NEW d \in 0..(Len(a) - 1), FirstFor(a, Seat(a, k, 1), x, d)
  PROVE  /\ d + 1 \in 0..(Len(a) - 1) /\ FirstFor(a, k, x, d + 1)
         /\ Seat(a, Seat(a, k, 1), d) = Seat(a, k, d + 1)
<1> DEFINE n == Len(a)
<1>1. n \in Nat /\ n > 0
  BY AirIs
<1>2. /\ Seat(a, k, 0) = k /\ Seat(a, k, n) = k
      /\ \A e \in 0..(n - 1) : Seat(a, Seat(a, k, 1), e) = Seat(a, k, e + 1)
  BY <1>1, Seats
<1>3. /\ For(a, Seat(a, Seat(a, k, 1), d), x)
      /\ \A e \in 0..(d - 1) : ~For(a, Seat(a, Seat(a, k, 1), e), x)
  BY DEF FirstFor
<1>4. d \in 0..(n - 1)
  OBVIOUS
<1> HIDE DEF n
<1>5. For(a, Seat(a, k, d + 1), x) /\ Seat(a, Seat(a, k, 1), d) = Seat(a, k, d + 1)
  BY <1>2, <1>3, <1>4
<1>6. d + 1 # n
  BY <1>2, <1>5
<1>7. d + 1 \in 0..(n - 1)
  BY <1>1, <1>4, <1>6
<1>8. ASSUME NEW e \in 0..((d + 1) - 1)
      PROVE  ~For(a, Seat(a, k, e), x)
  <2>1. CASE e = 0
    BY <1>2, <2>1
  <2>2. CASE e # 0
    <3>1. e - 1 \in 0..(d - 1) /\ e - 1 \in 0..(n - 1) /\ (e - 1) + 1 = e
      BY <1>1, <1>4, <2>2
    <3>2. Seat(a, Seat(a, k, 1), e - 1) = Seat(a, k, (e - 1) + 1)
      BY <1>2, <3>1
    <3> QED
      BY <1>3, <3>1, <3>2
  <2> QED
    BY <2>1, <2>2
<1> QED
  BY <1>5, <1>7, <1>8 DEF FirstFor, n

\* A frame d + 1 frames later is the one after that d frames later.
LEMMA LaterNext ==
  ASSUME MaxFN \in Nat, NEW f \in 0..(MaxFN - 1), NEW d \in 0..(MaxFN - 1)
  PROVE  /\ Later(f, d) \in 0..(MaxFN - 1) /\ Later(Later(f, d), 1) = Later(f, d + 1)
         /\ (Later(f, d) - f) % MaxFN = d /\ Later(f, 0) = f
<1>1. Later(f, d) = IF f + d < MaxFN THEN f + d ELSE f + d - MaxFN
  BY DEF Later
<1>2. CASE f + d < MaxFN
  <2>1. Later(f, d) = f + d
    BY <1>1, <1>2
  <2>2. Later(f, d) - f = d
    BY <2>1
  <2>3. (Later(f, d) - f) % MaxFN = d
    BY <2>2, Remainders
  <2> QED
    BY <1>2, <2>1, <2>3 DEF Later
<1>3. CASE ~(f + d < MaxFN)
  <2>1. Later(f, d) = f + d - MaxFN
    BY <1>1, <1>3
  <2>2. Later(f, d) - f = d - MaxFN /\ d - MaxFN \in Int /\ d - MaxFN < 0 /\ d - MaxFN >= -MaxFN
    BY <2>1
  <2>3. (Later(f, d) - f) % MaxFN = d
    BY <2>2, Remainders
  <2> QED
    BY <1>3, <2>1, <2>3 DEF Later
<1> QED
  BY <1>2, <1>3

\* The buffer after a burst that follows.
LEMMA AppendIs ==
  ASSUME NEW q \in Seq(CBursts), NEW h \in CBursts, NEW m, m = Append(q, h)
  PROVE  /\ m \in Seq(CBursts) /\ Len(m) = Len(q) + 1 /\ m # <<>> /\ Latest(m) = h
         /\ m[Len(q) + 1] = h /\ \A j \in 1..Len(q) : m[j] = q[j]
<1>1. /\ m \in Seq(CBursts) /\ Len(m) = Len(q) + 1
      /\ \A j \in 1..Len(q) : m[j] = q[j]
      /\ m[Len(q) + 1] = h
  BY AppendProperties
<1>2. m # <<>>
  BY AppendProperties
<1> QED
  BY <1>1, <1>2 DEF Latest

\* A burst that follows is added to those of its buffer, frame by frame and in one
\* direction on a dedicated channel.
LEMMA HoldsNext ==
  ASSUME NEW a \in Airs, NEW f \in 0..(MaxFN - 1), NEW x \in Buffers, NEW q,
         For(a, AtIn(a, f), x), Holds(a, q, x),
         x \in Checked /\ q # <<>> => f = (Latest(q).fn + 1) % MaxFN,
         NEW m, m = Append(q, BurstIn(a, f))
  PROVE  InRow(a, m, x)
<1> DEFINE h == BurstIn(a, f)
           n == Len(q)
<1>1. a[AtIn(a, f)] # <<>>
  BY DEF For
<1>2. /\ h \in CBursts /\ h.fn = f /\ h.ul = a[AtIn(a, f)].ul /\ a[AtIn(a, f)] \in OnAir
  BY <1>1, BurstIs
<1>3. /\ q \in Seq(CBursts)
      /\ \A j \in 1..n : q[j] = BurstIn(a, q[j].fn) /\ For(a, AtIn(a, q[j].fn), x)
      /\ x \in Checked => \A j \in 2..n : q[j].fn = (q[j - 1].fn + 1) % MaxFN /\ q[j].ul = q[1].ul
  BY DEF Holds, InRow
<1>4. /\ Len(m) = n + 1 /\ m[n + 1] = h
      /\ \A j \in 1..n : m[j] = q[j]
  BY <1>2, <1>3, AppendIs
<1>5. n \in Nat /\ (n # 0 => q # <<>> /\ Latest(q) = q[n] /\ q[n] \in CBursts)
  BY <1>3, LenProperties DEF Latest
<1>6. h = BurstIn(a, h.fn) /\ For(a, AtIn(a, h.fn), x)
  BY <1>2
<1>7. ASSUME x \in Checked, n # 0
      PROVE  h.fn = (q[n].fn + 1) % MaxFN /\ h.ul = q[1].ul
  <2>1. f = (q[n].fn + 1) % MaxFN
    BY <1>5, <1>7
  <2>2. n \in 1..n
    BY <1>5, <1>7
  <2>3. q[n] = BurstIn(a, q[n].fn) /\ For(a, AtIn(a, q[n].fn), x) /\ q[n].fn \in 0..(MaxFN - 1)
    BY <1>3, <1>5, <1>7, <2>2 DEF CBursts
  <2> DEFINE g == q[n].fn
  <2> HIDE DEF g
  <2>4. /\ g \in 0..(MaxFN - 1) /\ For(a, AtIn(a, g), x) /\ a[AtIn(a, g)] # <<>>
        /\ f = (g + 1) % MaxFN /\ q[n] = BurstIn(a, g)
    BY <2>1, <2>3 DEF g, For
  <2>5. /\ AtIn(a, g) \in 1..Len(a) /\ AtIn(a, f) = Seat(a, AtIn(a, g), 1)
    BY <2>4, NextFrameIs
  <2>6. /\ a[AtIn(a, g)] \in OnAir /\ q[n].ul = a[AtIn(a, g)].ul
    BY <2>4, BurstIs
  <2>7. a[AtIn(a, g)].type \in Dcch
    BY <1>7, <2>4, <2>6, BufferIs DEF For
  <2>8. a[AtIn(a, f)].ul = a[AtIn(a, g)].ul
    BY <2>4, <2>5, <2>7, ChannelIs
  <2>9. q[n].ul = q[1].ul
    <3>0. \A y \in Nat : y # 0 => (y = 1 \/ y \in 2..y)
      OBVIOUS
    <3>1. n = 1 \/ n \in 2..n
      BY <1>5, <1>7, <3>0
    <3> QED
      BY <1>3, <1>7, <3>1
  <2> QED
    BY <1>2, <2>1, <2>6, <2>8, <2>9
<1> HIDE DEF h, n
<1>8. \A j \in 1..(n + 1) : j = n + 1 \/ j \in 1..n
  BY <1>5
<1>9. \A j \in 1..Len(m) : m[j] = BurstIn(a, m[j].fn) /\ For(a, AtIn(a, m[j].fn), x)
  BY <1>3, <1>4, <1>6, <1>8
<1>10. ASSUME x \in Checked, NEW j \in 2..Len(m)
       PROVE  m[j].fn = (m[j - 1].fn + 1) % MaxFN /\ m[j].ul = m[1].ul
  <2>1. j \in 2..(n + 1)
    BY <1>4
  <2>2. n # 0 /\ 1 \in 1..n /\ j - 1 \in 1..n /\ (j = n + 1 \/ j \in 2..n) /\ (j = n + 1 => j - 1 = n) /\ (j \in 2..n => j \in 1..n)
    BY <1>5, <2>1
  <2>3. m[j - 1] = q[j - 1] /\ m[1] = q[1]
    BY <1>4, <2>2
  <2>4. CASE j = n + 1
    <3>1. m[j] = h /\ m[j - 1] = q[n]
      BY <1>4, <2>2, <2>3, <2>4
    <3> QED
      BY <1>7, <1>10, <2>2, <2>3, <3>1
  <2>5. CASE j \in 2..n
    <3>1. m[j] = q[j]
      BY <1>4, <2>2, <2>5
    <3> QED
      BY <1>3, <1>10, <2>3, <2>5, <3>1
  <2> QED
    BY <2>2, <2>4, <2>5
<1> QED
  BY <1>9, <1>10 DEF InRow

\* A frame without a burst for the buffer leaves it waiting for the same one.
LEMMA ReadyPasses ==
  ASSUME NEW a \in Airs, NEW f \in 0..(MaxFN - 1), NEW x \in Buffers, NEW q,
         Holds(a, q, x), Ready(a, f, q, x), ~For(a, AtIn(a, f), x), NEW e, e = (f + 1) % MaxFN
  PROVE  Ready(a, e, q, x)
<1> DEFINE k == AtIn(a, f)
           n == Len(a)
<1>1. /\ k \in 1..n /\ e = Later(f, 1) /\ e \in 0..(MaxFN - 1) /\ AtIn(a, e) = Seat(a, k, 1)
  BY NextFrameIs
<1>2. n \in Nat /\ n > 0 /\ n <= MaxFN /\ MaxFN \in Nat
  BY AirIs
<1>3. Awaits(a, AtIn(a, e), q, x)
  <2> SUFFICES ASSUME NEW d \in 0..(Len(a) - 1), FirstFor(a, Seat(a, k, 1), x, d)
               PROVE  /\ a[Seat(a, Seat(a, k, 1), d)].i = Len(q)
                      /\ q # <<>> => a[Seat(a, Seat(a, k, 1), d)].block = q[1].block
    BY <1>1 DEF Awaits
  <2>1. /\ d + 1 \in 0..(Len(a) - 1) /\ FirstFor(a, k, x, d + 1)
        /\ Seat(a, Seat(a, k, 1), d) = Seat(a, k, d + 1)
    BY <1>1, FirstNext
  <2> QED
    BY <2>1 DEF Ready, Awaits
<1>4. ASSUME q # <<>>
      PROVE  x \notin Checked /\ Lately(a, e, q)
  <2>1. x \notin Checked /\ Lately(a, f, q)
    BY <1>4 DEF Ready
  <2>2. PICK g \in 1..Len(a) : f = Later(q[1].fn, g) /\ k = Seat(a, AtIn(a, q[1].fn), g)
    BY <2>1 DEF Lately
  <2>3. q[1].fn \in 0..(MaxFN - 1) /\ For(a, AtIn(a, q[1].fn), x)
    <3>1. q \in Seq(CBursts) /\ 1 \in 1..Len(q)
      BY <1>4, LenProperties, EmptySeq DEF Holds, InRow
    <3>2. q[1] \in CBursts
      BY <3>1
    <3> QED
      BY <3>1, <3>2 DEF Holds, InRow, CBursts
  <2> DEFINE w == q[1].fn
  <2> HIDE DEF w
  <2>4. /\ w \in 0..(MaxFN - 1) /\ For(a, AtIn(a, w), x) /\ f = Later(w, g) /\ k = Seat(a, AtIn(a, w), g)
    BY <2>2, <2>3 DEF w
  <2>5. AtIn(a, w) \in 1..Len(a)
    BY <2>4, NextFrameIs
  <2>6. Seat(a, AtIn(a, w), Len(a)) = AtIn(a, w)
    BY <1>2, <2>5, Seats
  <2>7. g # Len(a)
    BY <2>4, <2>6
  <2>8. g \in 0..(Len(a) - 1) /\ g \in 0..(MaxFN - 1) /\ g + 1 \in 1..Len(a)
    BY <1>2, <2>2, <2>7
  <2>9. e = Later(w, g + 1)
    BY <1>1, <1>2, <2>4, <2>8, LaterNext
  <2>10. AtIn(a, e) = Seat(a, AtIn(a, w), g + 1)
    BY <1>1, <1>2, <2>4, <2>5, <2>8, Seats
  <2> QED
    BY <2>1, <2>8, <2>9, <2>10 DEF Lately, w
<1> QED
  BY <1>3, <1>4 DEF Ready

\* Nothing missed: a burst for the buffer is the one it waits for, a frame no more
\* than a multiframe after the first one it holds.
LEMMA ReadyMeets ==
  ASSUME NEW a \in Airs, NEW f \in 0..(MaxFN - 1), NEW x \in Buffers, NEW q,
         Holds(a, q, x), Ready(a, f, q, x), For(a, AtIn(a, f), x)
  PROVE  /\ BurstIn(a, f).i = Len(q) /\ (q # <<>> => BurstIn(a, f).block = q[1].block)
         /\ q # <<>> => \E g \in 1..(Len(a) - 1) : /\ f = Later(q[1].fn, g)
                                                   /\ AtIn(a, f) = Seat(a, AtIn(a, q[1].fn), g)
<1> DEFINE k == AtIn(a, f)
<1>1. k \in 1..Len(a) /\ Len(a) \in Nat /\ Len(a) > 0
  BY NextFrameIs, AirIs
<1>2. Seat(a, k, 0) = k
  BY <1>1, Seats
<1>3. FirstFor(a, k, x, 0) /\ 0 \in 0..(Len(a) - 1)
  BY <1>1, <1>2 DEF FirstFor
<1>4. a[k].i = Len(q) /\ (q # <<>> => a[k].block = q[1].block)
  BY <1>2, <1>3 DEF Ready, Awaits
<1>5. BurstIn(a, f).i = Len(q) /\ (q # <<>> => BurstIn(a, f).block = q[1].block)
  BY <1>4, BurstIs DEF For
<1>6. ASSUME q # <<>>
      PROVE  \E g \in 1..(Len(a) - 1) : /\ f = Later(q[1].fn, g)
                                        /\ k = Seat(a, AtIn(a, q[1].fn), g)
  <2>1. PICK g \in 1..Len(a) : f = Later(q[1].fn, g) /\ k = Seat(a, AtIn(a, q[1].fn), g)
    BY <1>6 DEF Ready, Lately
  <2>2. q \in Seq(CBursts) /\ 1 \in 1..Len(q) /\ Len(q) # 0
    BY <1>6, EmptySeq DEF Holds, InRow
  <2>3. q[1] \in CBursts /\ q[1] = BurstIn(a, q[1].fn) /\ For(a, AtIn(a, q[1].fn), x) /\ q[1].i = 0
    <3>1. q[1] \in CBursts /\ q[1] = BurstIn(a, q[1].fn) /\ For(a, AtIn(a, q[1].fn), x)
      BY <2>2 DEF Holds, InRow
    <3>2. q[1].i = 1 - 1
      BY <2>2 DEF Ready, Begun
    <3> QED
      BY <3>1, <3>2
  <2> DEFINE w == q[1].fn
  <2> HIDE DEF w
  <2>4. w \in 0..(MaxFN - 1) /\ a[AtIn(a, w)] # <<>> /\ q[1] = BurstIn(a, w) /\ k = Seat(a, AtIn(a, w), g)
    BY <2>1, <2>3 DEF w, For, CBursts
  <2>5. a[AtIn(a, w)].i = 0
    BY <2>3, <2>4, BurstIs
  <2>6. AtIn(a, w) \in 1..Len(a)
    BY <2>4, NextFrameIs
  <2>7. Seat(a, AtIn(a, w), Len(a)) = AtIn(a, w)
    BY <1>1, <2>6, Seats
  <2>8. g # Len(a)
    BY <1>4, <2>2, <2>4, <2>5, <2>7
  <2>9. g \in 1..(Len(a) - 1)
    BY <1>1, <2>1, <2>8
  <2> QED
    BY <2>1, <2>9
<1> QED
  BY <1>5, <1>6

\* A buffer with the burst it waited for holds the first ones of a block.
LEMMA BegunNext ==
  ASSUME NEW a \in Airs, NEW f \in 0..(MaxFN - 1), NEW x \in Buffers, NEW q,
         Holds(a, q, x), Ready(a, f, q, x), For(a, AtIn(a, f), x), NEW m, m = Append(q, BurstIn(a, f))
  PROVE  Begun(a, m)
<1> DEFINE h == BurstIn(a, f)
           n == Len(q)
<1>1. /\ h \in CBursts /\ h.fn = f
  BY BurstIs DEF For
<1>2. q \in Seq(CBursts) /\ n \in Nat
  BY LenProperties DEF Holds, InRow
<1>3. /\ Len(m) = n + 1 /\ m[n + 1] = h
      /\ \A j \in 1..n : m[j] = q[j]
  BY <1>1, <1>2, AppendIs
<1>4. /\ h.i = n /\ (q # <<>> => h.block = q[1].block)
      /\ q # <<>> => \E g \in 1..(Len(a) - 1) : f = Later(q[1].fn, g)
  BY ReadyMeets
<1>5. Len(a) \in Nat /\ Len(a) > 0 /\ MaxFN \in Nat /\ MaxFN > 0
  BY AirIs
<1>6. \A j \in 1..n : /\ q[j].i = j - 1 /\ q[j].block = q[1].block
                      /\ \E g \in 0..(Len(a) - 1) : q[j].fn = Later(q[1].fn, g)
  BY DEF Ready, Begun
<1> HIDE DEF h
<1>7. CASE n = 0
  <2>1. Len(m) = 1 /\ m[1] = h /\ h.i = 0
    BY <1>3, <1>4, <1>7
  <2>2. Later(f, 0) = f
    BY <1>5, LaterNext
  <2>3. m[1].i = 1 - 1 /\ m[1].block = m[1].block /\ 0 \in 0..(Len(a) - 1) /\ m[1].fn = Later(m[1].fn, 0)
    BY <1>1, <1>5, <2>1, <2>2
  <2>4. \A j \in 1..Len(m) : j = 1
    BY <2>1
  <2> QED
    BY <2>3, <2>4 DEF Begun
<1>8. CASE n # 0
  <2>1. q # <<>> /\ 1 \in 1..n
    BY <1>2, <1>8, EmptySeq
  <2>2. m[1] = q[1]
    BY <1>3, <2>1
  <2>3. \E g \in 0..(Len(a) - 1) : h.fn = Later(m[1].fn, g)
    <3>1. PICK g \in 1..(Len(a) - 1) : f = Later(q[1].fn, g)
      BY <1>4, <2>1
    <3>2. g \in 0..(Len(a) - 1)
      BY <1>5
    <3> QED
      BY <1>1, <2>2, <3>1, <3>2
  <2>4. ASSUME NEW j \in 1..Len(m)
        PROVE  /\ m[j].i = j - 1 /\ m[j].block = m[1].block
               /\ \E g \in 0..(Len(a) - 1) : m[j].fn = Later(m[1].fn, g)
    <3> HIDE DEF n
    <3>1. j \in 1..n \/ j = n + 1
      BY <1>2, <1>3
    <3>2. CASE j \in 1..n
      BY <1>3, <1>6, <2>2, <3>2
    <3>3. CASE j = n + 1
      <4>1. m[j] = h /\ j - 1 = n
        BY <1>2, <1>3, <3>3
      <4> QED
        BY <1>4, <2>1, <2>2, <2>3, <4>1
    <3> QED
      BY <3>1, <3>2, <3>3
  <2> QED
    BY <2>4 DEF Begun
<1> QED
  BY <1>7, <1>8

\* Three bursts and the last one are a block that decodes.
LEMMA BlockWhole ==
  ASSUME NEW a \in Airs, NEW f \in 0..(MaxFN - 1), NEW x \in Buffers, NEW q,
         Holds(a, q, x), Ready(a, f, q, x), For(a, AtIn(a, f), x), NEW m, m = Append(q, BurstIn(a, f)),
         Len(q) = 3
  PROVE  IsBlock(a, m)
<1>1. /\ BurstIn(a, f) \in CBursts
  BY BurstIs DEF For
<1>2. q \in Seq(CBursts)
  BY DEF Holds, InRow
<1>3. Len(m) = 4 /\ m \in Seq(CBursts)
  BY <1>1, <1>2, AppendIs
<1>4. \A k \in 1..4 : /\ m[k].i = k - 1 /\ m[k].block = m[1].block
                      /\ \E g \in 0..(Len(a) - 1) : m[k].fn = Later(m[1].fn, g)
  <2>1. Begun(a, m)
    BY BegunNext
  <2> QED
    BY <1>3, <2>1 DEF Begun
<1>5. Len(a) \in Nat /\ Len(a) > 0 /\ Len(a) <= MaxFN /\ MaxFN \in Nat
  BY AirIs
<1>6. m[1].fn \in 0..(MaxFN - 1)
  <2>1. 1 \in 1..Len(m)
    BY <1>3
  <2>2. m[1] \in CBursts
    BY <1>3, <2>1
  <2> QED
    BY <2>2 DEF CBursts
<1>7. ASSUME NEW k \in 2..4
      PROVE  (m[k].fn - m[1].fn) % MaxFN < Len(a)
  <2>1. k \in 1..4
    OBVIOUS
  <2>2. PICK g \in 0..(Len(a) - 1) : m[k].fn = Later(m[1].fn, g)
    BY <1>4, <2>1
  <2>3. g \in 0..(MaxFN - 1) /\ g < Len(a)
    BY <1>5
  <2>4. (Later(m[1].fn, g) - m[1].fn) % MaxFN = g
    BY <1>5, <1>6, <2>3, LaterNext
  <2> QED
    BY <2>2, <2>3, <2>4
<1> QED
  BY <1>3, <1>4, <1>7 DEF IsBlock

\* After the burst it waited for a buffer waits for the next one.
LEMMA ReadyNext ==
  ASSUME NEW a \in Airs, NEW f \in 0..(MaxFN - 1), NEW x \in Buffers, NEW q,
         Holds(a, q, x), Ready(a, f, q, x), For(a, AtIn(a, f), x), NEW m, m = Append(q, BurstIn(a, f)),
         NEW e, e = (f + 1) % MaxFN, NEW left, left = IF Len(q) = 3 THEN <<>> ELSE m
  PROVE  Ready(a, e, left, x)
<1> DEFINE k == AtIn(a, f)
           next == Seat(a, k, 1)
           h == BurstIn(a, f)
<1>1. /\ k \in 1..Len(a) /\ e = Later(f, 1) /\ e \in 0..(MaxFN - 1) /\ AtIn(a, e) = next
  BY NextFrameIs
<1>2. Len(a) \in Nat /\ Len(a) > 0 /\ Len(a) <= MaxFN /\ MaxFN \in Nat
  BY AirIs
<1>3. /\ h \in CBursts /\ h.fn = f /\ h.block = a[k].block /\ h.i = a[k].i /\ a[k] \in OnAir
  BY BurstIs DEF For
<1>4. /\ h.i = Len(q) /\ (q # <<>> => h.block = q[1].block)
      /\ q # <<>> => \E g \in 1..(Len(a) - 1) : f = Later(q[1].fn, g) /\ k = Seat(a, AtIn(a, q[1].fn), g)
  BY ReadyMeets
<1>5. q \in Seq(CBursts) /\ Len(q) \in Nat /\ Len(q) <= 3
  BY LenProperties DEF Holds, InRow
<1>6. /\ \A d \in 0..(Len(a) - 1) : FirstFor(a, next, x, d) =>
           /\ a[Seat(a, next, d)].i = (a[k].i + 1) % 4
           /\ a[Seat(a, next, d)].i # 0 => a[Seat(a, next, d)].block = a[k].block
      /\ a[k].type \in Dcch /\ a[k].i # 3 => For(a, next, x)
  BY <1>1, ChannelIs
<1>7. CASE Len(q) = 3
  <2>1. left = <<>> /\ a[k].i = 3 /\ Len(left) = 0
    BY <1>3, <1>4, <1>7
  <2>2. Awaits(a, AtIn(a, e), left, x)
    BY <1>1, <1>6, <2>1 DEF Awaits
  <2>3. Begun(a, left)
    BY <2>1 DEF Begun
  <2> QED
    BY <2>1, <2>2, <2>3 DEF Ready
<1>8. CASE Len(q) # 3
  <2> DEFINE n == Len(q)
  <2>0. \A y \in Nat : y <= 3 /\ y # 3 => y \in 0..2
    OBVIOUS
  <2>1. left = m /\ n \in 0..2 /\ a[k].i = n
    BY <1>3, <1>4, <1>5, <1>8, <2>0
  <2>2. /\ m \in Seq(CBursts) /\ Len(m) = n + 1 /\ m # <<>> /\ Latest(m) = h
        /\ m[n + 1] = h /\ \A j \in 1..n : m[j] = q[j]
    <3> HIDE DEF h
    <3>1. m = Append(q, h)
      BY DEF h
    <3>2. q \in Seq(CBursts) /\ h \in CBursts
      BY <1>3, <1>5
    <3>3. /\ Append(q, h) \in Seq(CBursts) /\ Append(q, h) # <<>> /\ Len(Append(q, h)) = Len(q) + 1
          /\ \A j \in 1..Len(q) : Append(q, h)[j] = q[j]
          /\ Append(q, h)[Len(q) + 1] = h
      BY <3>2, AppendProperties
    <3>4. m \in Seq(CBursts) /\ m # <<>> /\ Len(m) = Len(q) + 1 /\ \A j \in 1..Len(q) : m[j] = q[j]
      BY <3>1, <3>3
    <3>5. m[Len(q) + 1] = h
      BY <3>1, <3>3
    <3>6. Latest(m) = h
      BY <3>4, <3>5 DEF Latest
    <3> QED
      BY <3>4, <3>5, <3>6, Zenon
  <2>3. ASSUME n = 0
        PROVE  Lately(a, e, m) /\ m[1].block = h.block
    <3>1. m[1] = h /\ Len(m) = 1
      BY <2>2, <2>3
    <3>2. Lately(a, e, m)
      <4>1. 1 \in 1..Len(a)
        BY <1>2
      <4> QED
        BY <1>1, <1>3, <3>1, <4>1 DEF Lately
    <3>3. m[1].block = h.block
      BY <3>1
    <3> QED
      BY <3>2, <3>3
  <2>4. ASSUME n # 0
        PROVE  Lately(a, e, m) /\ m[1].block = h.block
    <3>1. q # <<>> /\ 1 \in 1..n
      BY <1>5, <2>4, EmptySeq
    <3>2. m[1] = q[1]
      BY <2>2, <3>1
    <3>3. PICK g \in 1..(Len(a) - 1) : f = Later(q[1].fn, g) /\ k = Seat(a, AtIn(a, q[1].fn), g)
      BY <1>4, <3>1
    <3>4. q[1].fn \in 0..(MaxFN - 1)
      <4>1. q[1] \in CBursts
        BY <1>5, <3>1
      <4> QED
        BY <4>1 DEF CBursts
    <3> DEFINE w == q[1].fn
    <3> HIDE DEF w
    <3>5. w \in 0..(MaxFN - 1) /\ f = Later(w, g) /\ k = Seat(a, AtIn(a, w), g) /\ AtIn(a, w) \in 1..Len(a)
      BY <3>3, <3>4, NextFrameIs DEF w
    <3>6. g \in 0..(Len(a) - 1) /\ g \in 0..(MaxFN - 1) /\ g + 1 \in 1..Len(a)
      BY <1>2, <3>3
    <3>7. e = Later(w, g + 1)
      BY <1>1, <1>2, <3>5, <3>6, LaterNext
    <3>8. AtIn(a, e) = Seat(a, AtIn(a, w), g + 1)
      BY <1>1, <1>2, <3>5, <3>6, Seats
    <3>9. Lately(a, e, m)
      BY <3>2, <3>6, <3>7, <3>8 DEF Lately, w
    <3>10. m[1].block = h.block
      BY <1>4, <3>1, <3>2
    <3> QED
      BY <3>9, <3>10
  <2>5. Lately(a, e, m) /\ m[1].block = h.block
    BY <2>3, <2>4
  <2>6. Awaits(a, AtIn(a, e), m, x)
    <3> SUFFICES ASSUME NEW d \in 0..(Len(a) - 1), FirstFor(a, next, x, d)
                 PROVE  /\ a[Seat(a, next, d)].i = Len(m)
                        /\ a[Seat(a, next, d)].block = m[1].block
      BY <1>1 DEF Awaits
    <3>1. /\ a[Seat(a, next, d)].i = (n + 1) % 4
          /\ a[Seat(a, next, d)].i # 0 => a[Seat(a, next, d)].block = a[k].block
      BY <1>6, <2>1
    <3>2. (n + 1) % 4 = n + 1 /\ n + 1 # 0
      <4>1. \A y \in 0..2 : (y + 1) % 4 = y + 1 /\ y + 1 # 0
        OBVIOUS
      <4> QED
        BY <2>1, <4>1
    <3> QED
      BY <1>3, <2>2, <2>5, <3>1, <3>2
  <2>7. Begun(a, m)
    BY BegunNext
  <2>8. x \in Checked => For(a, next, x)
    <3>1. x \in Checked => a[k].type \in Dcch
      BY <1>3, BufferIs DEF For
    <3>2. a[k].i # 3
      BY <2>1
    <3> QED
      BY <1>6, <3>1, <3>2
  <2>9. Latest(m).fn = f
    BY <1>3, <2>2
  <2> QED
    BY <1>1, <2>1, <2>5, <2>6, <2>7, <2>8, <2>9 DEF Ready
<1> QED
  BY <1>7, <1>8

\* A recording that begins between two blocks finds every buffer waiting.
LEMMA CcchStarts == CcchInit => CcchInv
<1> SUFFICES ASSUME CcchInit
             PROVE  CcchInv
  OBVIOUS
<1>1. /\ air \in Airs /\ fn \in 0..(MaxFN - 1) /\ bb = [x \in Buffers |-> <<>>]
      /\ msg = <<>> /\ whole = FALSE /\ missed = IF Between THEN 0 ELSE 1
  BY DEF CcchInit
<1>2. missed \in 0..(MaxMiss + 1)
  BY <1>1, BurstsAssumption
<1>3. bb \in [Buffers -> Seq(CBursts)] /\ \A x \in Buffers : bb[x] = <<>>
  BY <1>1, EmptySeq
<1>4. \A x \in Buffers : Holds(air, bb[x], x)
  BY <1>3 DEF Holds, InRow
<1>5. Len(msg) \in {0, 4} /\ InOrder
  BY <1>1 DEF InOrder
<1>6. ASSUME missed = 0, NEW x \in Buffers
      PROVE  Ready(air, fn, bb[x], x)
  <2>1. Between
    BY <1>1, <1>6
  <2>2. At(fn) = AtIn(air, fn)
    BY DEF At, AtIn
  <2>3. Awaits(air, AtIn(air, fn), <<>>, x)
    BY <2>1, <2>2 DEF Between, Awaits
  <2>4. Begun(air, <<>>)
    BY DEF Begun
  <2> QED
    BY <1>3, <2>3, <2>4 DEF Ready
<1> QED
  BY <1>1, <1>2, <1>3, <1>4, <1>5, <1>6 DEF CcchInv

\* What process_ccch makes of a burst for buffer x.
LEMMA CcchIs ==
  ASSUME CcchInv, NEW x \in Buffers, For(air, AtIn(air, fn), x), NEW b, b = air[AtIn(air, fn)],
         NEW q, q = bb[x], NEW h, h = BurstIn(air, fn)
  PROVE  \/ process_ccch(q, b) = [q |-> <<>>, m |-> <<>>] /\ missed # 0
         \/ /\ x \in Checked /\ q # <<>> => fn = (Latest(q).fn + 1) % MaxFN
            /\ process_ccch(q, b) = IF Len(q) = 3 THEN [q |-> <<>>, m |-> Append(q, h)]
                                    ELSE [q |-> Append(q, h), m |-> <<>>]
<1>1. air \in Airs /\ fn \in 0..(MaxFN - 1)
  BY DEF CcchInv
<1>2. h = Burst
  BY DEF Burst, BurstIn, Sent, At, AtIn
<1>3. /\ x \in Checked <=> b.type \in Dcch
      /\ b.type = Bm <=> b.type \notin Dcch
  BY <1>1, BurstIs, BufferIs DEF For
<1>4. CASE Follows(q, b)
  <2>1. x \in Checked /\ q # <<>> => fn = (Latest(q).fn + 1) % MaxFN
    BY <1>3, <1>4 DEF Follows
  <2> QED
    BY <1>2, <1>4, <2>1 DEF process_ccch
<1>5. CASE ~Follows(q, b)
  <2>1. x \in Checked /\ q # <<>> /\ fn # (Latest(q).fn + 1) % MaxFN
    BY <1>3, <1>5 DEF Follows
  <2>2. missed # 0
    BY <2>1 DEF CcchInv, Ready
  <2> QED
    BY <1>5, <2>2 DEF process_ccch
<1> QED
  BY <1>4, <1>5

\* What a heard burst makes of the buffers and of what is decoded.
LEMMA CcchHeard ==
  ASSUME CcchInv, NEW x \in Buffers, For(air, AtIn(air, fn), x), NEW b, b = air[AtIn(air, fn)],
         NEW q, q = bb[x], NEW left, left = process_ccch(q, b).q, NEW m, m = process_ccch(q, b).m
  PROVE  /\ left \in Seq(CBursts) /\ Holds(air, left, x)
         /\ missed = 0 => Ready(air, (fn + 1) % MaxFN, left, x)
         /\ Len(m) \in {0, 4} /\ (m # <<>> => m \in Seq(CBursts) /\ m[1] = BurstIn(air, m[1].fn) /\ For(air, AtIn(air, m[1].fn), x))
         /\ m # <<>> /\ x \in Checked =>
              \A k \in 2..4 : m[k].fn = (m[k - 1].fn + 1) % MaxFN /\ m[k].ul = m[1].ul
         /\ missed = 0 /\ b.i = 3 => try_decode(m)
<1> DEFINE a == air
           f == fn
           h == BurstIn(air, fn)
           p == Append(q, h)
<1>1. a \in Airs /\ f \in 0..(MaxFN - 1) /\ Holds(a, q, x) /\ (missed = 0 => Ready(a, f, q, x))
  BY DEF CcchInv
<1>2. h \in CBursts /\ h.i = b.i
  BY <1>1, BurstIs DEF For
<1>3. q \in Seq(CBursts) /\ Len(q) \in Nat /\ Len(q) <= 3
  BY <1>1, LenProperties DEF Holds, InRow
<1>4. /\ p \in Seq(CBursts) /\ Len(p) = Len(q) + 1 /\ p # <<>>
  <2> HIDE DEF h
  <2> QED
    BY <1>2, <1>3, AppendIs
<1>5. CASE process_ccch(q, b) = [q |-> <<>>, m |-> <<>>] /\ missed # 0
  <2>1. left = <<>> /\ m = <<>> /\ Len(left) = 0 /\ Len(m) = 0
    BY <1>5
  <2>2. Holds(air, left, x) /\ left \in Seq(CBursts)
    BY <2>1, EmptySeq DEF Holds, InRow
  <2> QED
    BY <1>5, <2>1, <2>2
<1>6. CASE /\ x \in Checked /\ q # <<>> => f = (Latest(q).fn + 1) % MaxFN
           /\ process_ccch(q, b) = IF Len(q) = 3 THEN [q |-> <<>>, m |-> p]
                                   ELSE [q |-> p, m |-> <<>>]
  <2>1. left = (IF Len(q) = 3 THEN <<>> ELSE p) /\ m = (IF Len(q) = 3 THEN p ELSE <<>>)
    <3> HIDE DEF p
    <3> QED
      BY <1>6
  <2>2. InRow(a, p, x)
    <3> HIDE DEF a, f
    <3>1. For(a, AtIn(a, f), x) /\ p = Append(q, BurstIn(a, f))
      BY DEF a, f
    <3> HIDE DEF p
    <3>2. a \in Airs /\ f \in 0..(MaxFN - 1) /\ Holds(a, q, x)
      BY <1>1
    <3>3. x \in Checked /\ q # <<>> => f = (Latest(q).fn + 1) % MaxFN
      BY <1>6
    <3> QED
      BY <3>1, <3>2, <3>3, HoldsNext
  <2>3. missed = 0 => Ready(a, (f + 1) % MaxFN, left, x)
    <3> HIDE DEF a, f
    <3>1. For(a, AtIn(a, f), x) /\ p = Append(q, BurstIn(a, f))
      BY DEF a, f
    <3> HIDE DEF p
    <3> QED
      BY <1>1, <2>1, <3>1, ReadyNext
  <2>4. CASE Len(q) = 3
    <3>1. left = <<>> /\ m = p /\ Len(p) = 4 /\ Len(left) = 0
      <4> HIDE DEF p
      <4> QED
        BY <1>4, <2>1, <2>4
    <3>2. Holds(air, left, x) /\ left \in Seq(CBursts)
      BY <3>1, EmptySeq DEF Holds, InRow
    <3>3. missed = 0 => try_decode(m)
      <4> HIDE DEF f
      <4>1. For(a, AtIn(a, f), x) /\ p = Append(q, BurstIn(a, f))
        BY DEF f
      <4> HIDE DEF p, a
      <4>2. missed = 0 => IsBlock(a, p)
        BY <1>1, <2>4, <4>1, BlockWhole
      <4> QED
        BY <3>1, <4>2 DEF try_decode, IsBlock, a
    <3> HIDE DEF p
    <3>4. m \in Seq(CBursts) /\ Len(m) \in {0, 4} /\ m[1] = BurstIn(air, m[1].fn) /\ For(air, AtIn(air, m[1].fn), x)
      BY <1>4, <2>2, <3>1 DEF InRow
    <3>5. x \in Checked => \A k \in 2..4 : m[k].fn = (m[k - 1].fn + 1) % MaxFN /\ m[k].ul = m[1].ul
      BY <2>2, <3>1 DEF InRow
    <3> QED
      BY <2>3, <3>2, <3>3, <3>4, <3>5
  <2>5. CASE Len(q) # 3
    <3>1. left = p /\ m = <<>> /\ Len(p) <= 3 /\ Len(m) = 0
      <4> HIDE DEF p
      <4>1. left = p /\ m = <<>>
        BY <2>1, <2>5
      <4>2. \A y \in Nat : y <= 3 /\ y # 3 => y + 1 <= 3
        OBVIOUS
      <4>3. Len(q) + 1 <= 3
        BY <1>3, <2>5, <4>2
      <4> QED
        BY <1>4, <4>1, <4>3
    <3>2. Holds(air, left, x) /\ left \in Seq(CBursts)
      <4> HIDE DEF p
      <4> QED
        BY <1>4, <2>2, <3>1 DEF Holds, InRow
    <3>3. missed = 0 => b.i # 3
      <4> HIDE DEF a, f
      <4>1. For(a, AtIn(a, f), x) /\ h = BurstIn(a, f)
        BY DEF a, f
      <4>2. missed = 0 => BurstIn(a, f).i = Len(q)
        BY <1>1, <4>1, ReadyMeets
      <4> QED
        BY <1>2, <2>5, <4>1, <4>2
    <3> QED
      BY <2>3, <3>1, <3>2, <3>3
  <2> QED
    BY <2>4, <2>5
<1> QED
  BY <1>5, <1>6, CcchIs

\* A frame without anything for buffer x.
LEMMA CcchPasses ==
  ASSUME CcchInv, NEW x \in Buffers, ~For(air, AtIn(air, fn), x), NEW q, q = bb[x]
  PROVE  Holds(air, q, x) /\ (missed = 0 => Ready(air, (fn + 1) % MaxFN, q, x))
<1>1. PICK a : a = air
  OBVIOUS
<1>2. PICK f : f = fn
  OBVIOUS
<1>3. /\ a \in Airs /\ f \in 0..(MaxFN - 1) /\ Holds(a, q, x) /\ (missed = 0 => Ready(a, f, q, x))
      /\ ~For(a, AtIn(a, f), x)
  BY <1>1, <1>2 DEF CcchInv
<1>4. missed = 0 => Ready(a, (f + 1) % MaxFN, q, x)
  BY <1>3, ReadyPasses
<1> QED
  BY <1>1, <1>2, <1>3, <1>4

\* The frame after this one.
LEMMA FrameNext ==
  ASSUME CcchInv
  PROVE  /\ (fn + 1) % MaxFN \in 0..(MaxFN - 1) /\ Sent = air[AtIn(air, fn)] /\ AtIn(air, fn) \in 1..Len(air)
         /\ Sent # <<>> => Sent \in OnAir /\ (BufferOf(Sent) = {} => Sent.i = 0)
<1>1. air \in Airs /\ fn \in 0..(MaxFN - 1)
  BY DEF CcchInv
<1>2. Sent = air[AtIn(air, fn)]
  BY DEF Sent, At, AtIn
<1>3. (fn + 1) % MaxFN \in 0..(MaxFN - 1) /\ AtIn(air, fn) \in 1..Len(air)
  BY <1>1, NextFrameIs
<1> QED
  BY <1>1, <1>2, <1>3, AirIs

\* A frame in which nothing is given to a buffer.
LEMMA CcchQuiet ==
  ASSUME CcchInv, UNCHANGED <<air, bb>>, fn' = (fn + 1) % MaxFN, msg' = <<>>, whole' = FALSE,
         missed' \in 0..(MaxMiss + 1), missed' = 0 => missed = 0,
         missed' = 0 => \A x \in Buffers : ~For(air, AtIn(air, fn), x)
  PROVE  CcchInv'
<1>1. /\ air' \in Airs /\ fn' \in 0..(MaxFN - 1) /\ bb' \in [Buffers -> Seq(CBursts)]
      /\ \A x \in Buffers : Holds(air', bb'[x], x)
  BY FrameNext DEF CcchInv
<1>2. Len(msg') \in {0, 4} /\ InOrder'
  BY DEF InOrder
<1>3. ASSUME missed' = 0, NEW x \in Buffers
      PROVE  Ready(air', fn', bb'[x], x)
  <2>1. PICK q : q = bb[x]
    OBVIOUS
  <2>2. missed = 0 => Ready(air, (fn + 1) % MaxFN, q, x)
    BY <1>3, <2>1, CcchPasses
  <2> QED
    BY <1>3, <2>1, <2>2
<1> QED
  BY <1>1, <1>2, <1>3 DEF CcchInv

\* A heard burst of buffer x.
LEMMA CcchTakes ==
  ASSUME CcchInv, NEW x \in Buffers, Sent # <<>>, x \in BufferOf(Sent),
         msg' = process_ccch(bb[x], Sent).m, bb' = [bb EXCEPT ![x] = process_ccch(@, Sent).q],
         whole' = (Sent.i = 3 /\ run[Sent.block] = 3), fn' = (fn + 1) % MaxFN, UNCHANGED <<air, missed>>
  PROVE  CcchInv'
<1>1. PICK b : b = Sent
  OBVIOUS
<1>2. PICK q : q = bb[x]
  OBVIOUS
<1>3. PICK left : left = process_ccch(q, b).q
  OBVIOUS
<1>4. PICK m : m = process_ccch(q, b).m
  OBVIOUS
<1>5. /\ For(air, AtIn(air, fn), x) /\ b = air[AtIn(air, fn)] /\ b \in OnAir /\ BufferOf(b) = {x}
  BY <1>1, FrameNext, BufferIs DEF For
<1>6. /\ left \in Seq(CBursts) /\ Holds(air, left, x)
      /\ missed = 0 => Ready(air, (fn + 1) % MaxFN, left, x)
      /\ Len(m) \in {0, 4} /\ (m # <<>> => m \in Seq(CBursts) /\ m[1] = BurstIn(air, m[1].fn) /\ For(air, AtIn(air, m[1].fn), x))
      /\ m # <<>> /\ x \in Checked =>
           \A k \in 2..4 : m[k].fn = (m[k - 1].fn + 1) % MaxFN /\ m[k].ul = m[1].ul
      /\ missed = 0 /\ b.i = 3 => try_decode(m)
  BY <1>2, <1>3, <1>4, <1>5, CcchHeard
<1>7. bb \in [Buffers -> Seq(CBursts)]
  BY DEF CcchInv
<1>8. /\ msg' = m /\ bb' = [bb EXCEPT ![x] = left] /\ whole' = (b.i = 3 /\ run[b.block] = 3)
  <2>1. msg' = m /\ whole' = (b.i = 3 /\ run[b.block] = 3)
    BY <1>1, <1>2, <1>4
  <2>2. bb' = [bb EXCEPT ![x] = process_ccch(bb[x], Sent).q]
    BY <1>7
  <2> QED
    BY <1>1, <1>2, <1>3, <2>1, <2>2
<1>9. /\ bb' \in [Buffers -> Seq(CBursts)] /\ bb'[x] = left
      /\ \A y \in Buffers : y # x => bb'[y] = bb[y]
  BY <1>6, <1>7, <1>8
<1>10. ASSUME NEW y \in Buffers
       PROVE  Holds(air', bb'[y], y) /\ (missed' = 0 => Ready(air', fn', bb'[y], y))
  <2>1. CASE y = x
    BY <1>6, <1>9, <2>1
  <2>2. CASE y # x
    <3>1. ~For(air, AtIn(air, fn), y)
      BY <1>5, <2>2 DEF For
    <3>2. PICK w : w = bb[y]
      OBVIOUS
    <3>3. Holds(air, w, y) /\ (missed = 0 => Ready(air, (fn + 1) % MaxFN, w, y))
      BY <3>1, <3>2, CcchPasses
    <3>4. bb'[y] = w
      BY <1>9, <2>2, <3>2
    <3> QED
      BY <3>3, <3>4
  <2> QED
    BY <2>1, <2>2
<1>11. InOrder'
  <2> SUFFICES ASSUME m # <<>>, air[AtIn(air, m[1].fn)].type # Bm
               PROVE  \A k \in 2..4 : m[k].fn = (m[k - 1].fn + 1) % MaxFN /\ m[k].ul = m[1].ul
    BY <1>8 DEF InOrder, At, AtIn
  <2>1. PICK w : w = m[1].fn
    OBVIOUS
  <2>2. w \in 0..(MaxFN - 1) /\ For(air, AtIn(air, w), x) /\ air \in Airs
    <3>1. m \in Seq(CBursts) /\ 1 \in 1..Len(m)
      BY <1>6, EmptySeq
    <3>2. m[1] \in CBursts
      BY <3>1
    <3> QED
      BY <1>6, <2>1, <3>2 DEF CBursts, CcchInv
  <2>3. air[AtIn(air, w)] \in OnAir
    BY <2>2, BurstIs DEF For
  <2>4. x \in Checked
    BY <2>1, <2>2, <2>3, BufferIs DEF For
  <2> QED
    BY <1>6, <2>4
<1>12. ASSUME missed' = 0, whole'
       PROVE  try_decode(msg)'
  <2>1. try_decode(m)
    BY <1>6, <1>8, <1>12
  <2> QED
    BY <1>8, <2>1 DEF try_decode
<1>13. /\ air' \in Airs /\ fn' \in 0..(MaxFN - 1) /\ missed' \in 0..(MaxMiss + 1) /\ Len(msg') \in {0, 4}
  BY <1>6, <1>8, FrameNext DEF CcchInv
<1> QED
  BY <1>9, <1>10, <1>11, <1>12, <1>13 DEF CcchInv

\* Signalling blocks (process_handle_burst, process_ccch): on every channel whose
\* bursts come in the order of its multiframe, no buffer overflows, what is decoded
\* are four frames in a row of one direction, and a recording that begins between
\* two blocks and misses nothing gives every block in one piece.
THEOREM BlocksInOnePiece == CcchSpec => []Lossless
<1>1. CcchInv /\ [CcchNext]_ccch_vars => CcchInv'
  <2> SUFFICES ASSUME CcchInv, [CcchNext]_ccch_vars
               PROVE  CcchInv'
    OBVIOUS
  <2>1. missed \in 0..(MaxMiss + 1) /\ MaxMiss \in Nat
    BY BurstsAssumption DEF CcchInv
  <2>2. CASE process_handle_burst
    <3>1. CASE BufferOf(Sent) = {} /\ msg' = <<>> /\ UNCHANGED bb
      <4>1. Sent.i = 0 /\ \A x \in Buffers : ~For(air, AtIn(air, fn), x)
        BY <2>2, <3>1, FrameNext DEF For, process_handle_burst
      <4>2. whole' = FALSE
        <5>1. Sent.i # 3
          BY <4>1
        <5>2. whole' = (Sent.i = 3 /\ run[Sent.block] = 3)
          BY <2>2 DEF process_handle_burst
        <5>3. ~(Sent.i = 3 /\ run[Sent.block] = 3)
          BY <5>1
        <5> QED
          BY <5>2, <5>3, Zenon
      <4> QED
        BY <2>1, <2>2, <3>1, <4>1, <4>2, CcchQuiet DEF process_handle_burst
    <3>2. ASSUME NEW x \in BufferOf(Sent), msg' = process_ccch(bb[x], Sent).m,
                 bb' = [bb EXCEPT ![x] = process_ccch(@, Sent).q]
          PROVE  CcchInv'
      <4>1. x \in Buffers
        BY <2>2, FrameNext DEF BufferOf, Buffers
      <4> QED
        BY <2>2, <3>2, <4>1, CcchTakes DEF process_handle_burst
    <3> QED
      BY <2>2, <3>1, <3>2 DEF process_handle_burst
  <2>3. CASE Miss
    <3>1. missed' = missed + 1 /\ missed < MaxMiss
      BY <2>3 DEF Miss
    <3>2. missed' \in 0..(MaxMiss + 1) /\ missed' # 0
      BY <2>1, <3>1
    <3> QED
      BY <2>3, <3>2, CcchQuiet DEF Miss
  <2>4. CASE Idle
    <3>1. \A x \in Buffers : ~For(air, AtIn(air, fn), x)
      BY <2>4, FrameNext DEF For, Idle
    <3> QED
      BY <2>1, <2>4, <3>1, CcchQuiet DEF Idle
  <2>5. CASE UNCHANGED ccch_vars
    BY <2>5 DEF ccch_vars, CcchInv, InOrder, At, try_decode
  <2> QED
    BY <2>2, <2>3, <2>4, <2>5 DEF CcchNext
<1>2. CcchInv => Lossless
  BY DEF CcchInv, Lossless, CcchTypeOK, Holds
<1> QED
  BY <1>1, <1>2, CcchStarts, PTL DEF CcchSpec

-----------------------------------------------------------------------------
(* Packet blocks.                                                          *)

\* A burst as the buffer of process_pdch holds it.
PBursts == [fn : Nat, i : 0..3, idle : BOOLEAN, cs : 1..4, flags : Seq({0, 1})]

\* Burst k of the block that began at frame f with scheme c.
BurstOf(f, c, k) == [fn |-> f + k - 1, i |-> k - 1, idle |-> FALSE, cs |-> c,
                     flags |-> SubSeq(SchemeFlags[c], 2 * (k - 1) + 1, 2 * (k - 1) + 2)]

PdchInv ==
  /\ PdchTypeOK /\ Resync
  /\ pbb \in Seq(PBursts) /\ heard \in Int /\ before \in BOOLEAN
  /\ heard <= IF Place = 0 THEN 4 ELSE Place
  /\ Place = 0 /\ heard = 4 => pbb = <<>>
  /\ Place > 0 /\ heard = Place => Len(pbb) >= Place
  /\ Place > 0 /\ heard = Place /\ before =>
       Len(pbb) = Place /\ \A k \in 1..Place : pbb[k] = BurstOf(pfn - Place, cs, k)

\* The frame number and its place in the multiframe go on together.
LEMMA NextPlace ==
  ASSUME NEW f \in 0..(Frames - 1), NEW g, g = (f + 1) % Frames
  PROVE  /\ g \in 0..(Frames - 1)
         /\ f % 13 \in 0..12 /\ g % 13 = IF f % 13 = 12 THEN 0 ELSE (f % 13) + 1
         /\ f % 13 # 12 => g = f + 1
         /\ (f + 1) % 13 = g % 13
<1>1. Frames \in Nat /\ Frames > 0 /\ Frames % 13 = 0
  BY PdchAssumption
<1>2. CASE f + 1 < Frames
  <2>1. g = f + 1
    BY <1>1, <1>2
  <2> QED
    BY <1>1, <1>2, <2>1
<1>3. CASE f + 1 = Frames
  <2>1. g = 0 /\ f % 13 = 12
    BY <1>1, <1>3
  <2> QED
    BY <1>1, <1>3, <2>1
<1> QED
  BY <1>1, <1>2, <1>3

\* The flags of the four bursts of a block are the pattern of its scheme.
LEMMA FourFlags ==
  ASSUME NEW c \in 1..4
  PROVE  /\ SubSeq(SchemeFlags[c], 1, 2) \o SubSeq(SchemeFlags[c], 3, 4)
              \o SubSeq(SchemeFlags[c], 5, 6) \o SubSeq(SchemeFlags[c], 7, 8) = SchemeFlags[c]
         /\ SchemeOf(SchemeFlags[c]) = c
<1> DEFINE s == SchemeFlags[c]
<1>1. s \in Seq({0, 1}) /\ Len(s) = 8 /\ SchemeOf(s) = c
  BY PdchAssumption
<1> HIDE DEF s
<1>2. /\ SubSeq(s, 1, 2) \in Seq({0, 1}) /\ Len(SubSeq(s, 1, 2)) = 2
      /\ SubSeq(s, 3, 4) \in Seq({0, 1}) /\ Len(SubSeq(s, 3, 4)) = 2
      /\ SubSeq(s, 5, 6) \in Seq({0, 1}) /\ Len(SubSeq(s, 5, 6)) = 2
      /\ SubSeq(s, 7, 8) \in Seq({0, 1}) /\ Len(SubSeq(s, 7, 8)) = 2
  <2>1. \A k \in 1..8 : s[k] \in {0, 1}
    BY <1>1, ElementOfSeq
  <2>2. \A a \in 1..7 : SubSeq(s, a, a + 1) \in Seq({0, 1}) /\ Len(SubSeq(s, a, a + 1)) = 2
    <3>1. TAKE a \in 1..7
    <3>2. \A k \in a..(a + 1) : s[k] \in {0, 1}
      BY <2>1
    <3> QED
      BY <3>2, SubSeqProperties
  <2> QED
    BY <2>2
<1>3. /\ \A k \in 1..2 : SubSeq(s, 1, 2)[k] = s[k]
      /\ \A k \in 1..2 : SubSeq(s, 3, 4)[k] = s[k + 2]
      /\ \A k \in 1..2 : SubSeq(s, 5, 6)[k] = s[k + 4]
      /\ \A k \in 1..2 : SubSeq(s, 7, 8)[k] = s[k + 6]
  BY <1>1
<1> DEFINE t == SubSeq(s, 1, 2) \o SubSeq(s, 3, 4) \o SubSeq(s, 5, 6) \o SubSeq(s, 7, 8)
<1>4. t \in Seq({0, 1}) /\ Len(t) = 8
  BY <1>2
<1>5. \A k \in 1..8 : t[k] = s[k]
  BY <1>2, <1>3
<1>6. t = s
  <2> HIDE DEF t
  <2> QED
    BY <1>1, <1>4, <1>5, SeqEqual
<1> QED
  BY <1>1, <1>6 DEF s

\* What the flags of one burst of the air are.
LEMMA BurstHeard ==
  ASSUME pfn \in 0..(Frames - 1), cs \in 1..4
  PROVE  /\ PdchBurst \in PBursts /\ Place \in 0..3
         /\ PdchBurst.i = Place
         /\ ~Idle13 => PdchBurst = BurstOf(pfn - Place, cs, Place + 1)
<1>1. pfn \in Nat /\ pfn % 13 \in 0..12 /\ Place \in 0..3
  BY PdchAssumption DEF Place
<1>2. SubSeq(SchemeFlags[cs], 2 * Place + 1, 2 * Place + 2) \in Seq({0, 1})
  <2>1. SchemeFlags[cs] \in Seq({0, 1}) /\ Len(SchemeFlags[cs]) = 8
    BY PdchAssumption
  <2>2. \A k \in (2 * Place + 1)..(2 * Place + 2) : SchemeFlags[cs][k] \in {0, 1}
    BY <1>1, <2>1, ElementOfSeq
  <2> QED
    BY <1>1, <2>2, SubSeqProperties
<1>3. Idle13 \in BOOLEAN
  BY DEF Idle13
<1>4. PdchBurst \in PBursts
  BY <1>1, <1>2, <1>3 DEF PdchBurst, PBursts
<1>5. ~Idle13 => PdchBurst = BurstOf(pfn - Place, cs, Place + 1)
  <2> DEFINE f == pfn - Place
             k == Place + 1
  <2>1. f + k - 1 = pfn /\ k - 1 = Place
    BY <1>1
  <2> HIDE DEF f, k
  <2>2. HAVE ~Idle13
  <2>3. Idle13 = FALSE
    BY <1>3, <2>2
  <2>4. BurstOf(f, cs, k) = [fn |-> pfn, i |-> Place, idle |-> FALSE, cs |-> cs,
                             flags |-> SubSeq(SchemeFlags[cs], 2 * Place + 1, 2 * Place + 2)]
    BY <2>1 DEF BurstOf
  <2>5. PdchBurst = BurstOf(f, cs, k)
    BY <2>3, <2>4, Zenon DEF PdchBurst
  <2> QED
    BY <2>5 DEF f, k
<1> QED
  BY <1>1, <1>4, <1>5 DEF PdchBurst

\* The buffer with a burst that is at its place, or without it.
LEMMA AlignedIs ==
  ASSUME NEW q \in Seq(PBursts), NEW b \in PBursts, Len(q) <= 3,
         \A k \in DOMAIN q : q[k].i = k - 1
  PROVE  /\ Aligned(q, b) \in Seq(PBursts)
         /\ \A k \in DOMAIN Aligned(q, b) : Aligned(q, b)[k].i = k - 1
         /\ b.i # Len(q) => Aligned(q, b) = q
         /\ b.i = Len(q) => Aligned(q, b) = Append(q, b) /\ Len(Aligned(q, b)) = Len(q) + 1
<1>1. CASE b.i # Len(q)
  BY <1>1 DEF Aligned
<1>2. CASE b.i = Len(q)
  <2>1. Aligned(q, b) = Append(q, b)
    BY <1>2 DEF Aligned
  <2>2. /\ Append(q, b) \in Seq(PBursts) /\ Len(Append(q, b)) = Len(q) + 1
        /\ \A k \in 1..Len(q) : Append(q, b)[k] = q[k]
        /\ Append(q, b)[Len(q) + 1] = b
    BY AppendProperties
  <2>3. ASSUME NEW k \in DOMAIN Append(q, b) PROVE Append(q, b)[k].i = k - 1
    <3>1. k \in 1..(Len(q) + 1) /\ Len(q) \in Nat /\ DOMAIN q = 1..Len(q)
      BY <2>2, <2>3, LenProperties
    <3>2. CASE k = Len(q) + 1
      BY <3>1, <3>2, <2>2, <1>2
    <3>3. CASE k \in 1..Len(q)
      BY <3>1, <3>3, <2>2
    <3> QED
      BY <3>1, <3>2, <3>3
  <2> QED
    BY <1>2, <2>1, <2>2, <2>3
<1> QED
  BY <1>1, <1>2

\* Four bursts give a block of a known length, or none.
LEMMA DecodedIs ==
  ASSUME NEW q \in Seq(PBursts), Len(q) = 4, NEW scheme
  PROVE  Decoded(q, scheme).len \in {0} \cup {LenOf[k] : k \in 1..4}
<1>1. CASE Decodes(q, scheme)
  <2>1. q[1] \in PBursts
    <3>1. 1 \in 1..Len(q)
      OBVIOUS
    <3> QED
      BY <3>1, ElementOfSeq
  <2>a. q[1].cs = scheme
    BY <1>1 DEF Decodes
  <2>2. scheme \in 1..4
    BY <2>1, <2>a DEF PBursts
  <2> QED
    BY <1>1, <2>2 DEF Decoded
<1>2. CASE ~Decodes(q, scheme)
  BY <1>2 DEF Decoded
<1> QED
  BY <1>1, <1>2

\* The four bursts of one block go to the decoder of the scheme it was sent with.
LEMMA BlockDecoded ==
  ASSUME NEW q, NEW f \in Nat, NEW c \in 1..4,
         \A k \in 1..4 : q[k] = BurstOf(f, c, k)
  PROVE  LET d == Decoded(q, Scheme(q))
         IN /\ d # NoBlock /\ d.scheme = d.msg[1].cs /\ d.msg = q
            /\ d.len = IF d.scheme = 1 THEN 0 ELSE LenOf[d.scheme]
<1>1. \A k \in 1..4 : /\ q[k].fn = f + k - 1 /\ q[k].cs = c /\ ~q[k].idle
                      /\ q[k].flags = SubSeq(SchemeFlags[c], 2 * (k - 1) + 1, 2 * (k - 1) + 2)
  BY DEF BurstOf
<1>2. /\ q[1].flags = SubSeq(SchemeFlags[c], 1, 2) /\ q[2].flags = SubSeq(SchemeFlags[c], 3, 4)
      /\ q[3].flags = SubSeq(SchemeFlags[c], 5, 6) /\ q[4].flags = SubSeq(SchemeFlags[c], 7, 8)
  BY <1>1
<1>3. Scheme(q) = c
  BY <1>2, FourFlags DEF Scheme
<1>4. Decodes(q, c) <=> c # 1
  BY <1>1 DEF Decodes
<1>5. LenOf[c] # 0
  BY DEF LenOf
<1>6. Decoded(q, c) = [msg |-> q, scheme |-> c, len |-> IF c = 1 THEN 0 ELSE LenOf[c]]
  BY <1>4 DEF Decoded
<1>7. Decoded(q, c).scheme # NoBlock.scheme
  BY <1>6 DEF NoBlock
<1> QED
  BY <1>1, <1>3, <1>6, <1>7

\* The invariant holds when the recording begins.
LEMMA PdchStarts == PdchInit => PdchInv
<1> SUFFICES ASSUME PdchInit PROVE PdchInv
  OBVIOUS
<1>1. pbb = <<>> /\ heard = -4 /\ pfn \in Nat /\ Place \in 0..3
  BY PdchAssumption DEF PdchInit, Place
<1>2. PdchTypeOK
  BY <1>1, PdchAssumption DEF PdchInit, PdchTypeOK, NoBlock
<1>3. Resync
  BY <1>1 DEF Resync, HeardWhole
<1>4. pbb \in Seq(PBursts) /\ heard \in Int /\ before \in BOOLEAN
  <2>1. pbb \in Seq(PBursts)
    BY <1>1
  <2>2. before = FALSE
    BY DEF PdchInit
  <2>3. before \in BOOLEAN
    BY <2>2, Zenon
  <2>4. heard \in Int
    BY <1>1
  <2> QED
    BY <2>1, <2>3, <2>4
<1>5. heard # 4 /\ (Place > 0 => heard # Place) /\ heard <= IF Place = 0 THEN 4 ELSE Place
  BY <1>1
<1> QED
  BY <1>2, <1>3, <1>4, <1>5 DEF PdchInv

\* The clock of a step.
LEMMA TickIs ==
  ASSUME pfn \in 0..(Frames - 1), cs \in 1..4, Tick
  PROVE  /\ pfn' \in 0..(Frames - 1) /\ cs' \in 1..4 /\ Place \in 0..3 /\ Place' \in 0..3
         /\ Idle13 => Place = 0 /\ Place' = 0 /\ pfn' % 13 = 0
         /\ ~Idle13 => /\ Place' = IF Place = 3 THEN 0 ELSE Place + 1
                       /\ Place # 3 => pfn' - Place' = pfn - Place /\ cs' = cs
                       /\ pfn' % 13 \in {4, 8, 12} => Place = 3
<1>1. /\ pfn' \in 0..(Frames - 1) /\ pfn % 13 \in 0..12
      /\ pfn' % 13 = IF pfn % 13 = 12 THEN 0 ELSE (pfn % 13) + 1
      /\ pfn % 13 # 12 => pfn' = pfn + 1
      /\ (pfn + 1) % 13 = pfn' % 13
  BY NextPlace DEF Tick
<1>2. cs' \in 1..4
  BY DEF Tick
<1> DEFINE p == pfn % 13
           p1 == pfn' % 13
<1>3. /\ p \in 0..12 /\ p1 = IF p = 12 THEN 0 ELSE p + 1
      /\ Place = p % 4 /\ Place' = p1 % 4 /\ (Idle13 <=> p = 12)
      /\ p1 \notin {0, 4, 8} => cs' = cs
      /\ p # 12 => pfn' = pfn + 1
  BY <1>1 DEF Place, Idle13, Tick
<1> HIDE DEF p, p1
<1>4. /\ Place \in 0..3 /\ Place' \in 0..3
      /\ Idle13 => Place = 0 /\ Place' = 0 /\ p1 = 0
      /\ ~Idle13 => /\ Place' = IF Place = 3 THEN 0 ELSE Place + 1
                    /\ Place # 3 => p1 \notin {0, 4, 8}
                    /\ p1 \in {4, 8, 12} => Place = 3
  BY <1>3
<1>5. ~Idle13 /\ Place # 3 => pfn' - Place' = pfn - Place /\ cs' = cs
  <2>1. HAVE ~Idle13 /\ Place # 3
  <2>2. Place' = Place + 1 /\ pfn' = pfn + 1 /\ cs' = cs
    BY <2>1, <1>3, <1>4
  <2>3. Place \in Int /\ pfn \in Int
    BY <1>4
  <2>4. \A a, b \in Int : (a + 1) - (b + 1) = a - b
    OBVIOUS
  <2> QED
    BY <2>2, <2>3, <2>4
<1> QED
  BY <1>1, <1>2, <1>4, <1>5 DEF p, p1

\* The buffer after a burst, and what it gave.
LEMMA PdchBuffer ==
  ASSUME PdchInv, process_pdch(Aligned(pbb, PdchBurst))
  PROVE  /\ pbb' \in Seq(PBursts) /\ Len(pbb') <= 3 /\ \A k \in DOMAIN pbb' : pbb'[k].i = k - 1
         /\ dec'.len \in {0} \cup {LenOf[k] : k \in 1..4}
         /\ Place # Len(pbb) => pbb' = pbb
         /\ Place = Len(pbb) /\ Place < 3 => pbb' = Append(pbb, PdchBurst)
         /\ Place = Len(pbb) /\ Place = 3 =>
              pbb' = <<>> /\ LET q == Append(pbb, PdchBurst) IN dec' = Decoded(q, Scheme(q))
<1> DEFINE q == Aligned(pbb, PdchBurst)
<1>1. /\ PdchBurst \in PBursts /\ Place \in 0..3 /\ PdchBurst.i = Place
      /\ pbb \in Seq(PBursts) /\ Len(pbb) <= 3 /\ Len(pbb) \in Nat
      /\ \A k \in DOMAIN pbb : pbb[k].i = k - 1
  BY BurstHeard, LenProperties DEF PdchInv, PdchTypeOK
<1>2. /\ q \in Seq(PBursts) /\ \A k \in DOMAIN q : q[k].i = k - 1
      /\ Place # Len(pbb) => q = pbb
      /\ Place = Len(pbb) => q = Append(pbb, PdchBurst) /\ Len(q) = Len(pbb) + 1
  BY <1>1, AlignedIs
<1>3. /\ Len(q) < 4 => pbb' = q /\ dec' = NoBlock
      /\ ~(Len(q) < 4) => pbb' = <<>> /\ dec' = Decoded(q, Scheme(q))
  BY DEF process_pdch, Block
<1> HIDE DEF q
<1>4. NoBlock.len \in {0} \cup {LenOf[k] : k \in 1..4}
  BY DEF NoBlock
<1>5. CASE Len(q) < 4
  BY <1>1, <1>2, <1>3, <1>4, <1>5
<1>6. CASE ~(Len(q) < 4)
  <2>1. Place = Len(pbb) /\ Place = 3 /\ Len(q) = 4
    <3>1. Place = Len(pbb)
      BY <1>1, <1>2, <1>6
    <3>2. Len(q) = Len(pbb) + 1
      BY <1>2, <3>1
    <3> QED
      BY <1>1, <1>6, <3>1, <3>2
  <2>2. dec'.len \in {0} \cup {LenOf[k] : k \in 1..4}
    BY <1>2, <1>3, <1>6, <2>1, DecodedIs
  <2>3. <<>> \in Seq(PBursts) /\ Len(<<>>) = 0 /\ DOMAIN <<>> = {}
    OBVIOUS
  <2>4. q = Append(pbb, PdchBurst)
    BY <1>2, <2>1
  <2>5. pbb' = <<>> /\ LET x == Append(pbb, PdchBurst) IN dec' = Decoded(x, Scheme(x))
    BY <1>3, <1>6, <2>4
  <2>6. pbb' \in Seq(PBursts) /\ Len(pbb') <= 3 /\ \A k \in DOMAIN pbb' : pbb'[k].i = k - 1
    BY <2>3, <2>5
  <2> QED
    BY <2>1, <2>2, <2>5, <2>6
<1> QED
  BY <1>5, <1>6

\* A burst of a block: the bursts of a block after one that was heard whole are
\* those in the buffer.
LEMMA PdchHears == PdchInv /\ PdchHear => PdchInv'
<1> SUFFICES ASSUME PdchInv, PdchHear PROVE PdchInv'
  OBVIOUS
<1>1. /\ ~Idle13 /\ process_pdch(Aligned(pbb, PdchBurst)) /\ Count(1) /\ Tick /\ skipped' = skipped
  BY DEF PdchHear
<1>2. /\ pfn \in 0..(Frames - 1) /\ cs \in 1..4 /\ skipped \in 0..PdchMaxMiss
      /\ pbb \in Seq(PBursts) /\ Len(pbb) <= 3 /\ Len(pbb) \in Nat
      /\ heard \in Int /\ before \in BOOLEAN
      /\ heard <= IF Place = 0 THEN 4 ELSE Place
      /\ Place = 0 /\ heard = 4 => pbb = <<>>
      /\ Place > 0 /\ heard = Place => Len(pbb) >= Place
      /\ Place > 0 /\ heard = Place /\ before =>
           Len(pbb) = Place /\ \A k \in 1..Place : pbb[k] = BurstOf(pfn - Place, cs, k)
  BY LenProperties DEF PdchInv, PdchTypeOK
<1>3. /\ pfn' \in 0..(Frames - 1) /\ cs' \in 1..4 /\ Place \in 0..3 /\ Place' \in 0..3
      /\ Place' = IF Place = 3 THEN 0 ELSE Place + 1
      /\ Place # 3 => pfn' - Place' = pfn - Place /\ cs' = cs
      /\ pfn' % 13 \in {4, 8, 12} => Place = 3
  BY <1>1, <1>2, TickIs
<1>4. /\ pbb' \in Seq(PBursts) /\ Len(pbb') <= 3 /\ \A k \in DOMAIN pbb' : pbb'[k].i = k - 1
      /\ dec'.len \in {0} \cup {LenOf[k] : k \in 1..4}
      /\ Place # Len(pbb) => pbb' = pbb
      /\ Place = Len(pbb) /\ Place < 3 => pbb' = Append(pbb, PdchBurst)
      /\ Place = Len(pbb) /\ Place = 3 =>
              pbb' = <<>> /\ LET q == Append(pbb, PdchBurst) IN dec' = Decoded(q, Scheme(q))
  BY <1>1, PdchBuffer
<1>5. /\ PdchBurst \in PBursts /\ PdchBurst = BurstOf(pfn - Place, cs, Place + 1)
  BY <1>1, <1>2, BurstHeard
<1>6. /\ heard' = IF Place = 0 THEN 1 ELSE heard + 1
      /\ before' = IF Place = 0 THEN heard = 4 ELSE before
  BY <1>1 DEF Count
<1>7. /\ Len(Append(pbb, PdchBurst)) = Len(pbb) + 1
      /\ \A k \in 1..Len(pbb) : Append(pbb, PdchBurst)[k] = pbb[k]
      /\ Append(pbb, PdchBurst)[Len(pbb) + 1] = PdchBurst
  BY <1>2, <1>5, AppendProperties
<1>8. PdchTypeOK'
  BY <1>1, <1>2, <1>3, <1>4 DEF PdchTypeOK
<1>9. heard' \in Int /\ before' \in BOOLEAN /\ heard' <= IF Place' = 0 THEN 4 ELSE Place'
  <2>1. before' \in BOOLEAN
    BY <1>2, <1>6
  <2>2. heard' \in Int /\ heard' <= IF Place' = 0 THEN 4 ELSE Place'
    BY <1>2, <1>3, <1>6
  <2> QED
    BY <2>1, <2>2
<1>10. Len(<<>>) = 0 /\ Len(pbb') \in Nat
  BY <1>4, LenProperties
<1>11. Place' > 0 /\ heard' = Place' => Len(pbb') >= Place'
  <2>1. HAVE Place' > 0 /\ heard' = Place'
  <2>2. Place < 3 /\ Place' = Place + 1 /\ (Place > 0 => heard = Place)
    BY <2>1, <1>2, <1>3, <1>6
  <2>3. Len(pbb) >= Place
    BY <2>2, <1>2, <1>3
  <2>4. CASE Place = Len(pbb)
    BY <2>2, <2>4, <1>4, <1>7, <1>3
  <2>5. CASE Place # Len(pbb)
    BY <2>2, <2>3, <2>5, <1>4, <1>3, <1>2
  <2> QED
    BY <2>4, <2>5
<1>12. ASSUME heard' = Place + 1, before', Place > 0 \/ pbb = <<>>
       PROVE  Place = Len(pbb) /\ \A k \in 1..(Place + 1) : Append(pbb, PdchBurst)[k] = BurstOf(pfn - Place, cs, k)
  <2>1. Place = Len(pbb) /\ \A k \in 1..Place : pbb[k] = BurstOf(pfn - Place, cs, k)
    <3>1. CASE Place = 0
      BY <1>12, <1>10, <3>1
    <3>2. CASE Place > 0
      <4>1. heard = Place /\ before
        <5>1. before
          <6>1. Place # 0
            BY <1>3, <3>2
          <6> QED
            BY <1>6, <1>12, <6>1, Zenon
        <5>2. heard + 1 = Place + 1
          BY <1>6, <1>12, <3>2
        <5>3. heard \in Int /\ Place \in Int
          BY <1>2, <1>3
        <5> QED
          BY <5>1, <5>2, <5>3
      <4> QED
        BY <1>2, <3>2, <4>1
    <3> QED
      BY <1>3, <3>1, <3>2
  <2>2. ASSUME NEW k \in 1..(Place + 1) PROVE Append(pbb, PdchBurst)[k] = BurstOf(pfn - Place, cs, k)
    <3>1. CASE k = Place + 1
      BY <3>1, <2>1, <1>7, <1>5
    <3>2. CASE k \in 1..Place
      BY <3>2, <2>1, <1>7
    <3>3. \A p \in 0..3 : \A j \in 1..(p + 1) : j = p + 1 \/ j \in 1..p
      OBVIOUS
    <3>4. k = Place + 1 \/ k \in 1..Place
      BY <1>3, <3>3
    <3> QED
      BY <3>1, <3>2, <3>4
  <2> QED
    BY <2>1, <2>2
<1>13. Place = 0 /\ before' => pbb = <<>>
  BY <1>2, <1>6
<1>14. Place' > 0 /\ heard' = Place' /\ before' =>
         Len(pbb') = Place' /\ \A k \in 1..Place' : pbb'[k] = BurstOf(pfn' - Place', cs', k)
  <2>1. HAVE Place' > 0 /\ heard' = Place' /\ before'
  <2>2. Place < 3 /\ Place' = Place + 1 /\ pfn' - Place' = pfn - Place /\ cs' = cs
    BY <2>1, <1>3
  <2>3. Place = Len(pbb) /\ \A k \in 1..(Place + 1) : Append(pbb, PdchBurst)[k] = BurstOf(pfn - Place, cs, k)
    BY <2>1, <2>2, <1>3, <1>12, <1>13
  <2>4. pbb' = Append(pbb, PdchBurst)
    BY <2>2, <2>3, <1>4
  <2> QED
    BY <2>2, <2>3, <2>4, <1>7
<1>15. Place' = 0 /\ heard' = 4 => pbb' = <<>>
  <2>1. HAVE Place' = 0 /\ heard' = 4
  <2>2. Place = 3 /\ heard = 3
    BY <2>1, <1>2, <1>3, <1>6
  <2>3. Len(pbb) = 3
    <3>1. Place > 0 /\ heard = Place
      BY <2>2
    <3>2. Len(pbb) >= Place
      BY <3>1, <1>2
    <3>3. Len(pbb) >= 3
      BY <2>2, <3>2
    <3>4. Len(pbb) <= 3 /\ Len(pbb) \in Int
      BY <1>2
    <3>5. \A n \in Int : n >= 3 /\ n <= 3 => n = 3
      OBVIOUS
    <3> QED
      BY <3>3, <3>4, <3>5
  <2> QED
    BY <2>2, <2>3, <1>4
<1>16. Resync'
  <2>1. SUFFICES ASSUME heard' = 4, pfn' % 13 \in {4, 8, 12}, before'
                 PROVE  /\ dec' # NoBlock /\ dec'.scheme = dec'.msg[1].cs /\ WholeBlock(dec.msg)'
                        /\ dec'.len = IF dec'.scheme = 1 THEN 0 ELSE LenOf[dec'.scheme]
    BY DEF Resync, HeardWhole, NoBlock, LenOf
  <2>2. Place = 3
    BY <2>1, <1>3
  <2>3. Place = Len(pbb) /\ \A k \in 1..4 : Append(pbb, PdchBurst)[k] = BurstOf(pfn - Place, cs, k)
    <3>1. heard' = Place + 1 /\ Place > 0
      BY <2>1, <2>2
    <3>2. Place = Len(pbb) /\ \A k \in 1..(Place + 1) : Append(pbb, PdchBurst)[k] = BurstOf(pfn - Place, cs, k)
      BY <2>1, <3>1, <1>12
    <3>3. 1..(Place + 1) = 1..4
      BY <2>2
    <3> QED
      BY <3>2, <3>3, Zenon
  <2>4. pfn - Place \in Nat
    <3>1. (pfn % 13) % 4 = 3
      BY <2>2 DEF Place
    <3>2. pfn \in Nat
      BY <1>2
    <3>3. pfn >= 3
      BY <3>1, <3>2
    <3> QED
      BY <2>2, <3>2, <3>3
  <2> DEFINE x == Append(pbb, PdchBurst)
             f == pfn - Place
  <2>5. dec' = Decoded(x, Scheme(x))
    BY <2>2, <2>3, <1>4
  <2> HIDE DEF x, f
  <2>6. f \in Nat /\ \A k \in 1..4 : x[k] = BurstOf(f, cs, k)
    BY <2>3, <2>4 DEF x, f
  <2>7. /\ dec' # NoBlock /\ dec'.scheme = dec'.msg[1].cs /\ dec'.msg = x
        /\ dec'.len = IF dec'.scheme = 1 THEN 0 ELSE LenOf[dec'.scheme]
    BY <1>2, <2>5, <2>6, BlockDecoded
  <2>8. pfn' = f + 4
    <3>1. pfn' = pfn + 1
      BY <1>1, <1>2, NextPlace DEF Tick, Idle13
    <3> QED
      <4>1. \A y \in Int : y + 1 = (y - 3) + 4
        OBVIOUS
      <4> QED
        BY <1>2, <2>2, <3>1, <4>1 DEF f
  <2>9. \A k \in 1..4 : x[k].fn = pfn' - 5 + k /\ ~x[k].idle
    <3>1. \A k \in 1..4 : x[k].fn = f + k - 1 /\ x[k].idle = FALSE
      BY <2>6 DEF BurstOf
    <3>2. \A k \in 1..4 : f + k - 1 = (f + 4) - 5 + k
      BY <2>6
    <3> QED
      BY <2>8, <3>1, <3>2
  <2>10. WholeBlock(dec.msg)'
    BY <2>7, <2>9 DEF WholeBlock
  <2> QED
    BY <2>7, <2>10
<1> QED
  BY <1>4, <1>8, <1>9, <1>11, <1>14, <1>15, <1>16 DEF PdchInv

\* A burst of the idle frame may stand in the buffer, where a whole block clears it.
LEMMA PdchHearsIdle == PdchInv /\ PdchHearIdle => PdchInv'
<1> SUFFICES ASSUME PdchInv, PdchHearIdle PROVE PdchInv'
  OBVIOUS
<1>1. /\ Idle13 /\ process_pdch(Aligned(pbb, PdchBurst)) /\ heard' = -4 /\ Tick
      /\ skipped' = skipped /\ before' = before
  BY DEF PdchHearIdle
<1>2. /\ pfn \in 0..(Frames - 1) /\ cs \in 1..4 /\ skipped \in 0..PdchMaxMiss /\ before \in BOOLEAN
  BY DEF PdchInv, PdchTypeOK
<1>3. pfn' \in 0..(Frames - 1) /\ cs' \in 1..4 /\ Place' = 0
  BY <1>1, <1>2, TickIs
<1>4. /\ pbb' \in Seq(PBursts) /\ Len(pbb') <= 3 /\ \A k \in DOMAIN pbb' : pbb'[k].i = k - 1
      /\ dec'.len \in {0} \cup {LenOf[k] : k \in 1..4}
  BY <1>1, PdchBuffer
<1>5. PdchTypeOK'
  BY <1>1, <1>2, <1>3, <1>4 DEF PdchTypeOK
<1>6. Resync'
  BY <1>1 DEF Resync, HeardWhole
<1> QED
  BY <1>1, <1>2, <1>3, <1>4, <1>5, <1>6 DEF PdchInv

\* A missed burst: the block is not heard whole.
LEMMA PdchMisses == PdchInv /\ PdchMiss => PdchInv'
<1> SUFFICES ASSUME PdchInv, PdchMiss PROVE PdchInv'
  OBVIOUS
<1>1. /\ ~Idle13 /\ skipped < PdchMaxMiss /\ skipped' = skipped + 1 /\ Count(-4) /\ dec' = NoBlock /\ Tick
      /\ pbb' = pbb
  BY DEF PdchMiss
<1>2. /\ pfn \in 0..(Frames - 1) /\ cs \in 1..4 /\ skipped \in 0..PdchMaxMiss
      /\ pbb \in Seq(PBursts) /\ Len(pbb) <= 3 /\ \A k \in DOMAIN pbb : pbb[k].i = k - 1
      /\ heard \in Int /\ before \in BOOLEAN /\ heard <= IF Place = 0 THEN 4 ELSE Place
  BY DEF PdchInv, PdchTypeOK
<1>3. /\ pfn' \in 0..(Frames - 1) /\ cs' \in 1..4 /\ Place \in 0..3 /\ Place' \in 0..3
      /\ Place' = IF Place = 3 THEN 0 ELSE Place + 1
  BY <1>1, <1>2, TickIs
<1>4. /\ heard' = IF Place = 0 THEN -4 ELSE heard + (-4)
      /\ before' = IF Place = 0 THEN heard = 4 ELSE before
  BY <1>1 DEF Count
<1>5. heard' \in Int /\ heard' < 0
  BY <1>2, <1>3, <1>4
<1>6. before' \in BOOLEAN
  BY <1>2, <1>4
<1>7. PdchTypeOK'
  <2>1. skipped' \in 0..PdchMaxMiss
    BY <1>1, <1>2, PdchAssumption
  <2>2. dec'.len = 0
    BY <1>1 DEF NoBlock
  <2> QED
    BY <1>1, <1>2, <1>3, <2>1, <2>2 DEF PdchTypeOK
<1>8. Resync'
  BY <1>5 DEF Resync, HeardWhole
<1>9. heard' # 4 /\ (Place' > 0 => heard' # Place') /\ heard' <= IF Place' = 0 THEN 4 ELSE Place'
  BY <1>3, <1>5
<1> QED
  BY <1>1, <1>2, <1>5, <1>6, <1>7, <1>8, <1>9 DEF PdchInv

\* The idle frame, with nothing heard in it.
LEMMA PdchPauses == PdchInv /\ PdchSilent => PdchInv'
<1> SUFFICES ASSUME PdchInv, PdchSilent PROVE PdchInv'
  OBVIOUS
<1>1. /\ Idle13 /\ dec' = NoBlock /\ Tick /\ pbb' = pbb /\ heard' = heard /\ before' = before
      /\ skipped' = skipped
  BY DEF PdchSilent
<1>2. /\ pfn \in 0..(Frames - 1) /\ cs \in 1..4 /\ skipped \in 0..PdchMaxMiss
      /\ pbb \in Seq(PBursts) /\ Len(pbb) <= 3 /\ \A k \in DOMAIN pbb : pbb[k].i = k - 1
      /\ heard \in Int /\ before \in BOOLEAN /\ heard <= IF Place = 0 THEN 4 ELSE Place
      /\ Place = 0 /\ heard = 4 => pbb = <<>>
  BY DEF PdchInv, PdchTypeOK
<1>3. pfn' \in 0..(Frames - 1) /\ cs' \in 1..4 /\ Place = 0 /\ Place' = 0 /\ pfn' % 13 = 0
  BY <1>1, <1>2, TickIs
<1>4. PdchTypeOK'
  <2>1. dec'.len = 0
    BY <1>1 DEF NoBlock
  <2> QED
    BY <1>1, <1>2, <1>3, <2>1 DEF PdchTypeOK
<1>5. Resync'
  <2>1. pfn' % 13 \notin {4, 8, 12}
    <3>1. pfn' % 13 = 0
      BY <1>3, Zenon
    <3>2. \A y : y = 0 => y \notin {4, 8, 12}
      OBVIOUS
    <3> QED
      BY <3>1, <3>2, Zenon
  <2> QED
    BY <2>1, Zenon DEF Resync, HeardWhole
<1> QED
  BY <1>1, <1>2, <1>3, <1>4, <1>5 DEF PdchInv

\* Packet blocks, whatever was missed or heard in between: a block heard whole
\* after another that was heard whole is given in one piece to the decoder of
\* its own scheme (process_pdch), for every length of the recording's clock and every pattern
\* of stealing flags that the estimate tells apart.
THEOREM PacketBlocksResync == PdchSpec => []PdchResync
<1>1. PdchInv /\ [PdchNext]_pdch_vars => PdchInv'
  <2>1. CASE PdchNext
    BY <2>1, PdchHears, PdchHearsIdle, PdchMisses, PdchPauses DEF PdchNext
  <2>2. CASE UNCHANGED pdch_vars
    BY <2>2 DEF pdch_vars, PdchInv, PdchTypeOK, Resync, HeardWhole, WholeBlock, Place
  <2> QED
    BY <2>1, <2>2
<1>2. PdchInv => PdchResync
  BY DEF PdchInv, PdchResync
<1> QED
  BY <1>1, <1>2, PdchStarts, PTL DEF PdchSpec

-----------------------------------------------------------------------------
(* Padding: the invariant.                                                 *)

RandState == [valid : BOOLEAN, ciphered : BOOLEAN, data : Seq(Octet), byte_count : Nat, rand_count : Nat]

\* What is known of one rand_state s, with the octets old seen last, the number ch
\* of octets that changed and the cipher c.
Kind(s, old, ch, c) ==
  /\ s \in RandState /\ Len(s.data) <= SdcchLen
  /\ s.rand_count <= s.byte_count /\ s.rand_count = ch
  /\ ~s.valid => s.data = <<>>
  /\ s.ciphered => c # 0
  /\ old \in [1..SdcchLen -> Octet \cup {"none"}]
  /\ \A i \in 1..SdcchLen : old[i] = IF i <= Len(s.data) THEN s.data[Len(s.data) - i + 1] ELSE "none"

Counters == [enc : Nat, enc_rand : Nat, enc_null : Nat, enc_null_rand : Nat, enc_si : Nat,
             enc_si_rand : Nat, predict : Nat, unenc : Nat, unenc_rand : Nat]

PadInv ==
  /\ cipher \in 0..2 /\ frames \in 0..MaxFrames /\ ~aborted
  /\ r \in [Kinds -> RandState] /\ changed \in [Kinds -> Nat]
  /\ seen \in [Kinds -> [1..SdcchLen -> Octet \cup {"none"}]]
  /\ \A k \in Kinds : Kind(r[k], seen[k], changed[k], cipher)
  /\ fc \in Counters /\ asked \in Nat /\ Predictable

\* The last n octets of a padding.
LEMMA EndIs ==
  ASSUME NEW q \in Seq(Octet), NEW n \in 0..Len(q)
  PROVE  /\ End(q, n) \in Seq(Octet) /\ DOMAIN End(q, n) = 1..n
         /\ \A j \in 1..n : End(q, n)[j] = q[Len(q) - n + j]
<1>1. \A i \in (Len(q) - n + 1)..Len(q) : q[i] \in Octet
  BY ElementOfSeq
<1>2. /\ End(q, n) \in Seq(Octet) /\ Len(End(q, n)) = n
      /\ \A j \in 1..n : End(q, n)[j] = q[Len(q) - n + j]
  BY <1>1, SubSeqProperties DEF End
<1> QED BY <1>2, LenProperties

\* Octets counted from the end and from the start of the part in common are as
\* many: the octets that rand_check counts are those that changed.
LEMMA SameCount ==
  ASSUME NEW s, NEW old, NEW ch, NEW c, Kind(s, old, ch, c),
         NEW data \in Seq(Octet), Len(data) <= SdcchLen
  PROVE  /\ Differs(old, data) = Diff(s, data, Common(s, data))
         /\ Differs(old, data) \in Nat /\ Differs(old, data) <= Common(s, data)
<1> DEFINE n == Common(s, data)
           S == {i \in 1..Len(data) : old[i] \notin {"none", data[Len(data) - i + 1]}}
           a == End(s.data, n)
           b == End(data, n)
           T == {i \in DOMAIN a : a[i] # b[i]}
           f == [i \in S |-> n - i + 1]
<1>0. s.data \in Seq(Octet) /\ Len(s.data) \in Nat /\ Len(data) \in Nat /\ SdcchLen \in Nat
  BY PaddingAssumption DEF Kind, RandState
<1>1. n \in Nat /\ n <= Len(s.data) /\ n <= Len(data)
  BY <1>0 DEF Common
<1> HIDE DEF n
<1>2. /\ DOMAIN a = 1..n /\ \A j \in 1..n : a[j] = s.data[Len(s.data) - n + j]
      /\ \A j \in 1..n : b[j] = data[Len(data) - n + j]
  <2>1. n \in 0..Len(s.data) /\ n \in 0..Len(data) BY <1>0, <1>1
  <2> QED BY <1>0, <2>1, EndIs
<1>3. \A i \in 1..Len(s.data) : s.data[i] \in Octet
  BY <1>0, ElementOfSeq
<1>4. \A i \in 1..Len(data) :
         old[i] = IF i <= Len(s.data) THEN s.data[Len(s.data) - i + 1] ELSE "none"
  BY <1>0 DEF Kind
<1>5. \A i \in 1..Len(data) : i \in S <=> i <= n /\ s.data[Len(s.data) - i + 1] # data[Len(data) - i + 1]
  <2> TAKE i \in 1..Len(data)
  <2>1. CASE i <= Len(s.data)
    <3>1. i <= n BY <2>1, <1>0 DEF Common, n
    <3>2. s.data[Len(s.data) - i + 1] \in Octet BY <1>3, <1>0, <2>1
    <3>3. old[i] = s.data[Len(s.data) - i + 1] /\ old[i] # "none" BY <1>4, <2>1, <3>2, PaddingAssumption
    <3> QED BY <3>1, <3>3
  <2>2. CASE ~(i <= Len(s.data))
    <3>1. old[i] = "none" BY <1>4, <2>2
    <3>2. ~(i <= n) BY <2>2, <1>0, <1>1
    <3> QED BY <3>1, <3>2
  <2> QED BY <2>1, <2>2
<1>6. \A j \in 1..n : j \in T <=> s.data[Len(s.data) - n + j] # data[Len(data) - n + j]
  BY <1>2
<1>7. S \subseteq 1..n /\ T \subseteq 1..n
  BY <1>5, <1>2, <1>1, <1>0
<1> HIDE DEF S, T
<1>8. \A i \in S : f[i] \in T
  <2> TAKE i \in S
  <2>0. i \in 1..n /\ i \in 1..Len(data) BY <1>7, <1>1, <1>0
  <2>1. s.data[Len(s.data) - i + 1] # data[Len(data) - i + 1] BY <2>0, <1>5
  <2>2. n - i + 1 \in 1..n BY <2>0, <1>1
  <2>3. Len(s.data) - n + (n - i + 1) = Len(s.data) - i + 1 /\ Len(data) - n + (n - i + 1) = Len(data) - i + 1
    <3>1. \A x, y, z \in Int : x - y + (y - z + 1) = x - z + 1 OBVIOUS
    <3>2. n \in Int /\ i \in Int /\ Len(s.data) \in Int /\ Len(data) \in Int BY <2>0, <1>1, <1>0
    <3> QED BY <3>1, <3>2
  <2> QED BY <2>1, <2>2, <2>3, <1>6
<1>9. \A t \in T : \E i \in S : f[i] = t
  <2> TAKE t \in T
  <2>1. t \in 1..n /\ s.data[Len(s.data) - n + t] # data[Len(data) - n + t] BY <1>6, <1>7
  <2>2. n - t + 1 \in 1..n /\ n - t + 1 \in 1..Len(data) BY <2>1, <1>1, <1>0
  <2>3. Len(s.data) - (n - t + 1) + 1 = Len(s.data) - n + t /\ Len(data) - (n - t + 1) + 1 = Len(data) - n + t
    BY <2>1, <1>1, <1>0
  <2>4. n - t + 1 \in S BY <2>1, <2>2, <2>3, <1>5
  <2>5. f[n - t + 1] = t BY <2>4, <2>1, <1>1
  <2> QED BY <2>4, <2>5
<1>10. f \in [S -> T] /\ \A x, y \in S : f[x] = f[y] => x = y
  <2>1. f \in [S -> T] BY <1>8
  <2>2. ASSUME NEW x \in S, NEW y \in S, f[x] = f[y] PROVE x = y
    <3>1. n - x + 1 = n - y + 1 BY <2>2
    <3>2. x \in Int /\ y \in Int BY <1>7
    <3> QED BY <3>1, <3>2, <1>1
  <2> QED BY <2>1, <2>2
<1>11. f \in Bijection(S, T)
  BY <1>10, <1>9, Fun_IsBij
<1>12. ExistsBijection(S, T)
  BY <1>11, Fun_ExistsBij
<1>13. IsFiniteSet(1..n) /\ Cardinality(1..n) = n
  BY <1>1, FS_Interval
<1>14. IsFiniteSet(S) /\ Cardinality(S) <= n
  BY <1>7, <1>13, FS_Subset
<1>15. Cardinality(S) \in Nat BY <1>14, FS_CardinalityType
<1>16. Cardinality(T) = Cardinality(S) BY <1>14, <1>12, FS_Bijection
<1> QED BY <1>14, <1>15, <1>16 DEF Differs, Diff, hamming_distance, n, S, T

\* What is kept after a padding, from the end: the padding, then what was kept.
LEMMA KeptIs ==
  ASSUME NEW s, NEW old, NEW ch, NEW c, Kind(s, old, ch, c),
         NEW data \in Seq(Octet), Len(data) \in 1..SdcchLen
  PROVE  /\ Kept(s, data) \in Seq(Octet) /\ Len(Kept(s, data)) <= SdcchLen
         /\ s.data = <<>> => Kept(s, data) = data
         /\ Note(old, data) \in [1..SdcchLen -> Octet \cup {"none"}]
         /\ \A i \in 1..SdcchLen : Note(old, data)[i] =
              IF i <= Len(Kept(s, data)) THEN Kept(s, data)[Len(Kept(s, data)) - i + 1] ELSE "none"
<1> DEFINE d == s.data
           K == Kept(s, data)
<1>0. d \in Seq(Octet) /\ Len(d) \in Nat /\ Len(data) \in Nat /\ SdcchLen \in Nat /\ Len(d) <= SdcchLen
  BY PaddingAssumption DEF Kind, RandState
<1>1. \A i \in 1..SdcchLen : old[i] = IF i <= Len(d) THEN d[Len(d) - i + 1] ELSE "none"
  BY DEF Kind
<1>2. (\A i \in 1..Len(d) : d[i] \in Octet) /\ (\A i \in 1..Len(data) : data[i] \in Octet)
  BY <1>0, ElementOfSeq
<1>3. Note(old, data) \in [1..SdcchLen -> Octet \cup {"none"}]
  <2>1. \A k \in 1..SdcchLen : k <= Len(data) => data[Len(data) - k + 1] \in Octet
    BY <1>2, <1>0
  <2>2. \A k \in 1..SdcchLen : old[k] \in Octet \cup {"none"} BY DEF Kind
  <2> QED BY <2>1, <2>2 DEF Note
<1>4. \A i \in 1..SdcchLen : Note(old, data)[i] = IF i <= Len(data) THEN data[Len(data) - i + 1] ELSE old[i]
  BY DEF Note
<1>5. CASE Len(d) >= Len(data)
  <2> DEFINE h == SubSeq(d, 1, Len(d) - Len(data))
  <2>1. K = h \o data BY <1>5 DEF Kept
  <2>2. h \in Seq(Octet) /\ Len(h) = Len(d) - Len(data) /\ \A i \in 1..(Len(d) - Len(data)) : h[i] = d[i]
    <3>1. \A i \in 1..(Len(d) - Len(data)) : d[i] \in Octet BY <1>2, <1>0
    <3>2. \A i \in 1..(Len(d) - Len(data)) : 1 + i - 1 = i OBVIOUS
    <3> HIDE DEF d
    <3>3. h \in Seq(Octet) /\ Len(h) = (IF 1 <= Len(d) - Len(data) THEN Len(d) - Len(data) - 1 + 1 ELSE 0)
          /\ \A i \in 1..(Len(d) - Len(data) - 1 + 1) : h[i] = d[1 + i - 1]
      BY <3>1, <1>0, SubSeqProperties
    <3> QED BY <3>2, <3>3, <1>0, <1>5
  <2> HIDE DEF h, d
  <2>3. h \o data \in Seq(Octet) /\ Len(h \o data) = Len(d)
        /\ \A i \in 1..Len(d) : (h \o data)[i] = IF i <= Len(h) THEN h[i] ELSE data[i - Len(h)]
    BY <2>2, <1>0, ConcatProperties
  <2> HIDE DEF K
  <2>4. K \in Seq(Octet) /\ Len(K) = Len(d) BY <2>1, <2>3
  <2>5. ASSUME NEW i \in 1..Len(d)
        PROVE  K[Len(d) - i + 1] = IF i <= Len(data) THEN data[Len(data) - i + 1] ELSE d[Len(d) - i + 1]
    <3> DEFINE j == Len(d) - i + 1
    <3>1. j \in 1..Len(d) BY <1>0
    <3>2. K[j] = IF j <= Len(h) THEN h[j] ELSE data[j - Len(h)] BY <2>1, <2>3, <3>1
    <3>3. CASE i <= Len(data)
      <4>1. ~(j <= Len(h)) /\ j - Len(h) = Len(data) - i + 1 BY <3>3, <2>2, <1>0
      <4> QED BY <4>1, <3>2, <3>3
    <3>4. CASE ~(i <= Len(data))
      <4>1. j <= Len(h) /\ j \in 1..(Len(d) - Len(data)) BY <3>4, <2>2, <1>0
      <4> QED BY <4>1, <3>2, <3>4, <2>2
    <3> QED BY <3>3, <3>4
  <2>6. \A i \in 1..SdcchLen : Note(old, data)[i] = IF i <= Len(K) THEN K[Len(K) - i + 1] ELSE "none"
    <3> TAKE i \in 1..SdcchLen
    <3>1. CASE i <= Len(d)
      BY <3>1, <2>4, <2>5, <1>4, <1>1, <1>0
    <3>2. CASE ~(i <= Len(d))
      BY <3>2, <2>4, <1>4, <1>1, <1>0, <1>5
    <3> QED BY <3>1, <3>2
  <2>7. d # <<>> BY <1>5, <1>0
  <2> QED BY <2>4, <2>6, <2>7, <1>3, <1>0 DEF K, d
<1>6. CASE ~(Len(d) >= Len(data))
  <2>1. K = data BY <1>6 DEF Kept
  <2> HIDE DEF K, d
  <2>2. \A i \in 1..SdcchLen : Note(old, data)[i] = IF i <= Len(K) THEN K[Len(K) - i + 1] ELSE "none"
    BY <2>1, <1>1, <1>4, <1>0, <1>6
  <2> QED BY <2>1, <2>2, <1>3, <1>0 DEF K, d
<1> QED BY <1>5, <1>6

\* A padding leaves what is known of its state, and does not end the program.
LEMMA CheckKeeps ==
  ASSUME NEW s, NEW old, NEW ch \in Nat, NEW c, Kind(s, old, ch, c), NEW data \in Seq(Octet),
         NEW on \in BOOLEAN, on <=> c # 0, NEW x, x = rand_check(s, data, on),
         NEW old2, old2 = IF Len(data) \in 1..SdcchLen THEN Note(old, data) ELSE old,
         NEW ch2, ch2 = IF c # 0 /\ Len(data) <= SdcchLen THEN ch + Differs(old, data) ELSE ch
  PROVE  Kind(x.s, old2, ch2, c) /\ ~x.abort /\ ch2 \in Nat
<1> DEFINE n == Common(s, data)
           d == Diff(s, data, n)
           K == Kept(s, data)
           kept == [s EXCEPT !.data = K]
<1>0. s \in RandState /\ Len(data) \in Nat /\ SdcchLen \in Nat
  BY PaddingAssumption DEF Kind
<1>00. Len(data) = 0 => data = <<>> OBVIOUS
<1>1. Len(data) <= SdcchLen => Differs(old, data) = d /\ d \in Nat /\ d <= n
  BY SameCount
<1>2. n \in Nat BY <1>0 DEF Common, RandState
<1>3. CASE data = <<>> \/ Len(data) > SdcchLen
  <2>1. x = [s |-> s, random |-> FALSE, abort |-> FALSE] BY <1>3 DEF rand_check
  <2>2. ~(Len(data) \in 1..SdcchLen) BY <1>3, <1>0
  <2>3. ASSUME data = <<>> PROVE ch2 = ch
    <3>1. n = 0 \/ n <= 0 BY <2>3, <1>0 DEF Common, RandState
    <3>2. Differs(old, data) = 0 BY <3>1, <1>1, <1>2, <2>3, <1>0
    <3>3. ch2 = ch BY <3>2
    <3> QED BY <3>3
  <2>4. ASSUME Len(data) > SdcchLen PROVE ch2 = ch
    <3>1. ch2 = ch BY <2>4, <1>0
    <3> QED BY <3>1
  <2>5. ch2 = ch /\ old2 = old BY <1>3, <2>2, <2>3, <2>4
  <2>6. x.s = s /\ x.abort = FALSE BY <2>1
  <2> QED BY <2>5, <2>6
<1>4. CASE ~(data = <<>> \/ Len(data) > SdcchLen)
  <2>0. Len(data) \in 1..SdcchLen BY <1>4, <1>0, <1>00
  <2>1. /\ K \in Seq(Octet) /\ Len(K) <= SdcchLen
        /\ s.data = <<>> => K = data
        /\ Note(old, data) \in [1..SdcchLen -> Octet \cup {"none"}]
        /\ \A i \in 1..SdcchLen : Note(old, data)[i] = IF i <= Len(K) THEN K[Len(K) - i + 1] ELSE "none"
    BY <2>0, KeptIs
  <2> HIDE DEF K, n, d
  <2>2. CASE ~s.valid
    <3>1. x = [s |-> [s EXCEPT !.valid = TRUE, !.ciphered = on, !.data = data],
               random |-> FALSE, abort |-> FALSE] BY <1>4, <2>2 DEF rand_check
    <3>2. s.data = <<>> /\ K = data BY <2>2, <2>1 DEF Kind
    <3>3. n <= 0 BY <3>2, <2>0, <1>0 DEF n, Common
    <3>4. d = 0 BY <3>3, <1>1, <1>2, <2>0
    <3>5. x.s \in RandState /\ x.s.valid /\ x.s.data = K /\ x.s.rand_count = s.rand_count
          /\ x.s.byte_count = s.byte_count /\ (x.s.ciphered => c # 0)
      <4>1. x.s = [s EXCEPT !.valid = TRUE, !.ciphered = on, !.data = data] BY <3>1
      <4>2. x.s.ciphered \in BOOLEAN /\ (x.s.ciphered => c # 0) BY <4>1, <1>0 DEF RandState
      <4> QED BY <4>1, <4>2, <3>2, <1>0 DEF RandState
    <3>6. s.rand_count <= s.byte_count /\ s.rand_count = ch BY DEF Kind
    <3>7. old2 = Note(old, data) BY <2>0
    <3>8. ch2 = ch BY <3>4, <2>0, <1>1
    <3>9. Kind(x.s, Note(old, data), ch, c) BY <3>5, <3>6, <2>1 DEF Kind
    <3>10. x.abort = FALSE BY <3>1
    <3> QED BY <3>7, <3>8, <3>9, <3>10
  <2>3. CASE s.valid /\ c # 0
    <3>1. x = [s |-> [kept EXCEPT !.ciphered = TRUE, !.rand_count = @ + d, !.byte_count = @ + n],
               random |-> d > 0, abort |-> FALSE]
      BY <1>4, <2>3 DEF rand_check, K, n, d
    <3>2. x.s \in RandState /\ x.s.valid /\ x.s.data = K /\ x.s.rand_count = s.rand_count + d
          /\ x.s.byte_count = s.byte_count + n
      <4>1. x.s = [kept EXCEPT !.ciphered = TRUE, !.rand_count = @ + d, !.byte_count = @ + n] BY <3>1
      <4>2. kept \in RandState /\ kept.valid /\ kept.data = K /\ kept.rand_count = s.rand_count
            /\ kept.byte_count = s.byte_count
        BY <2>1, <1>0, <2>3 DEF RandState
      <4> HIDE DEF kept
      <4>3. kept.rand_count + d \in Nat /\ kept.byte_count + n \in Nat
        BY <4>2, <1>1, <1>2, <2>0 DEF RandState
      <4> QED BY <4>1, <4>2, <4>3 DEF RandState
    <3>3. s.rand_count <= s.byte_count /\ s.rand_count = ch BY DEF Kind
    <3>4. s.rand_count \in Nat /\ s.byte_count \in Nat BY <1>0 DEF RandState
    <3>5. s.rand_count + d <= s.byte_count + n /\ s.rand_count + d = ch + Differs(old, data)
      BY <3>3, <3>4, <1>1, <1>2, <2>0
    <3>6. Kind(x.s, Note(old, data), ch + Differs(old, data), c)
      BY <3>2, <3>5, <2>1, <2>3 DEF Kind
    <3>7. old2 = Note(old, data) BY <2>0
    <3>8. ch2 = ch + Differs(old, data) /\ ch2 \in Nat BY <1>1, <2>0, <2>3
    <3>10. x.abort = FALSE BY <3>1
    <3> QED BY <3>6, <3>7, <3>8, <3>10
  <2>4. CASE s.valid /\ ~(c # 0)
    <3>1. x = [s |-> kept, random |-> FALSE, abort |-> s.ciphered]
      BY <1>4, <2>4 DEF rand_check, K
    <3>2. x.s \in RandState /\ x.s.valid /\ x.s.data = K /\ x.s.rand_count = s.rand_count
          /\ x.s.byte_count = s.byte_count /\ x.s.ciphered = s.ciphered
      <4>1. x.s = kept BY <3>1
      <4> QED BY <4>1, <2>1, <1>0, <2>4 DEF RandState
    <3>3. s.rand_count <= s.byte_count /\ s.rand_count = ch /\ ~s.ciphered BY <2>4 DEF Kind
    <3>4. Kind(x.s, Note(old, data), ch, c)
      BY <3>2, <3>3, <2>1 DEF Kind
    <3>7. old2 = Note(old, data) BY <2>0
    <3>8. ch2 = ch BY <2>4
    <3>10. ~x.abort BY <3>1, <3>3
    <3> QED BY <3>4, <3>7, <3>8, <3>10
  <2> QED BY <2>2, <2>3, <2>4, <1>0 DEF RandState
<1> QED BY <1>3, <1>4

\* A frame or system information whose padding is compared.
LEMMA ComparedKeeps ==
  ASSUME PadInv, NEW k \in Kinds, NEW data \in Seq(Octet), Compared(k, data), UNCHANGED cipher
  PROVE  /\ ~aborted' /\ r' \in [Kinds -> RandState] /\ changed' \in [Kinds -> Nat]
         /\ seen' \in [Kinds -> [1..SdcchLen -> Octet \cup {"none"}]]
         /\ \A j \in Kinds : Kind(r'[j], seen'[j], changed'[j], cipher)
<1> DEFINE on == cipher # 0
           x == rand_check(r[k], data, on)
           old2 == IF Len(data) \in 1..SdcchLen THEN Note(seen[k], data) ELSE seen[k]
           ch2 == IF cipher # 0 /\ Len(data) <= SdcchLen THEN changed[k] + Differs(seen[k], data) ELSE changed[k]
<1>1. /\ r \in [Kinds -> RandState] /\ changed \in [Kinds -> Nat]
      /\ seen \in [Kinds -> [1..SdcchLen -> Octet \cup {"none"}]]
      /\ \A j \in Kinds : Kind(r[j], seen[j], changed[j], cipher)
  BY DEF PadInv
<1>2. /\ changed' = [changed EXCEPT ![k] = ch2] /\ r' = [r EXCEPT ![k] = x.s] /\ aborted' = x.abort
      /\ seen' = [seen EXCEPT ![k] = old2]
  BY <1>1 DEF Compared
<1>3. Kind(x.s, old2, ch2, cipher) /\ ~x.abort /\ ch2 \in Nat
  <2>1. /\ x = rand_check(r[k], data, on) /\ on \in BOOLEAN /\ (on <=> cipher # 0)
        /\ old2 = IF Len(data) \in 1..SdcchLen THEN Note(seen[k], data) ELSE seen[k]
        /\ ch2 = IF cipher # 0 /\ Len(data) <= SdcchLen THEN changed[k] + Differs(seen[k], data) ELSE changed[k]
    OBVIOUS
  <2> HIDE DEF on, x, old2, ch2
  <2>2. Kind(r[k], seen[k], changed[k], cipher) /\ changed[k] \in Nat BY <1>1
  <2> QED BY <2>1, <2>2, CheckKeeps
<1> HIDE DEF on, x, old2, ch2
<1>4. x.s \in RandState /\ old2 \in [1..SdcchLen -> Octet \cup {"none"}]
  BY <1>3 DEF Kind
<1>5. ASSUME NEW j \in Kinds PROVE Kind(r'[j], seen'[j], changed'[j], cipher)
  <2>1. CASE j = k
    <3>1. r'[j] = x.s /\ seen'[j] = old2 /\ changed'[j] = ch2 BY <2>1, <1>1, <1>2
    <3> QED BY <3>1, <1>3
  <2>2. CASE j # k
    <3>1. r'[j] = r[j] /\ seen'[j] = seen[j] /\ changed'[j] = changed[j] BY <2>2, <1>1, <1>2
    <3> QED BY <3>1, <1>1
  <2> QED BY <2>1, <2>2
<1>6. ~aborted' BY <1>2, <1>3
<1> QED BY <1>1, <1>2, <1>3, <1>4, <1>5, <1>6

\* The counters of a frame.
LEMMA CountedKeeps ==
  ASSUME PadInv, NEW len, NEW dlen, NEW random
  PROVE  /\ Counted(fc, len, dlen, random) \in Counters /\ InClear(fc, random) \in Counters
         /\ \A g \in {Counted(fc, len, dlen, random), InClear(fc, random)} :
              g.predict - asked = (g.enc_null - g.enc_null_rand) + (g.enc_si - g.enc_si_rand)
<1> DEFINE g == Counted(fc, len, dlen, random)
           h == InClear(fc, random)
<1>1. fc \in Counters /\ asked \in Nat
      /\ fc.predict - asked = (fc.enc_null - fc.enc_null_rand) + (fc.enc_si - fc.enc_si_rand)
  BY DEF PadInv, Predictable
<1> DEFINE a == One(random)
           b1 == One(dlen = 0)
           b2 == One(dlen = 0 /\ random)
           c1 == One(dlen # 0 /\ len = SacchLen)
           c2 == One(dlen # 0 /\ len = SacchLen /\ random)
           e == One(~random /\ (dlen = 0 \/ len = SacchLen))
<1>2. a \in {0, 1} /\ b1 \in {0, 1} /\ b2 \in {0, 1} /\ c1 \in {0, 1} /\ c2 \in {0, 1} /\ e \in {0, 1}
  BY DEF One
<1>4. e = (b1 - b2) + (c1 - c2)
  BY DEF One
<1>a. g = [fc EXCEPT !.enc = @ + 1, !.enc_rand = @ + a, !.enc_null = @ + b1, !.enc_null_rand = @ + b2,
                     !.enc_si = @ + c1, !.enc_si_rand = @ + c2, !.predict = @ + e]
  BY DEF Counted
<1>b. h = [fc EXCEPT !.unenc = @ + 1, !.unenc_rand = @ + a]
  BY DEF InClear
<1> HIDE DEF g, h, a, b1, b2, c1, c2, e
<1>c. a \in Nat /\ b1 \in Nat /\ b2 \in Nat /\ c1 \in Nat /\ c2 \in Nat /\ e \in Nat
  BY <1>2
<1>d. /\ fc.enc \in Nat /\ fc.enc_rand \in Nat /\ fc.enc_null \in Nat /\ fc.enc_null_rand \in Nat
      /\ fc.enc_si \in Nat /\ fc.enc_si_rand \in Nat /\ fc.predict \in Nat /\ fc.unenc \in Nat
      /\ fc.unenc_rand \in Nat
  BY <1>1 DEF Counters
<1>e. g = [enc |-> fc.enc + 1, enc_rand |-> fc.enc_rand + a, enc_null |-> fc.enc_null + b1,
           enc_null_rand |-> fc.enc_null_rand + b2, enc_si |-> fc.enc_si + c1,
           enc_si_rand |-> fc.enc_si_rand + c2, predict |-> fc.predict + e, unenc |-> fc.unenc,
           unenc_rand |-> fc.unenc_rand]
  BY <1>a, <1>1 DEF Counters
<1>f. h = [enc |-> fc.enc, enc_rand |-> fc.enc_rand, enc_null |-> fc.enc_null,
           enc_null_rand |-> fc.enc_null_rand, enc_si |-> fc.enc_si,
           enc_si_rand |-> fc.enc_si_rand, predict |-> fc.predict, unenc |-> fc.unenc + 1,
           unenc_rand |-> fc.unenc_rand + a]
  BY <1>b, <1>1 DEF Counters
<1>3. /\ g \in Counters
      /\ g.enc_null = fc.enc_null + b1 /\ g.enc_null_rand = fc.enc_null_rand + b2
      /\ g.enc_si = fc.enc_si + c1 /\ g.enc_si_rand = fc.enc_si_rand + c2
      /\ g.predict = fc.predict + e
  BY <1>c, <1>d, <1>e DEF Counters
<1>5. g.predict - asked = (g.enc_null - g.enc_null_rand) + (g.enc_si - g.enc_si_rand)
  BY <1>1, <1>c, <1>d, <1>3, <1>4
<1>6. /\ h \in Counters /\ h.predict = fc.predict /\ h.enc_null = fc.enc_null
      /\ h.enc_null_rand = fc.enc_null_rand /\ h.enc_si = fc.enc_si /\ h.enc_si_rand = fc.enc_si_rand
  BY <1>c, <1>d, <1>f DEF Counters
<1>7. h.predict - asked = (h.enc_null - h.enc_null_rand) + (h.enc_si - h.enc_si_rand)
  BY <1>1, <1>6
<1> QED BY <1>3, <1>5, <1>6, <1>7 DEF g, h

\* A fresh state: nothing was seen.
LEMMA FreshKinds ==
  ASSUME NEW c
  PROVE  /\ Unset \in RandState /\ Kind(Unset, NoneSeen, 0, c)
         /\ rand_init_2b \in RandState /\ Kind(rand_init_2b, [i \in 1..SdcchLen |-> Fill], 0, c)
<1> DEFINE q == [i \in 1..SdcchLen |-> Fill]
<1>0. SdcchLen \in Nat /\ Fill \in Octet BY PaddingAssumption
<1>1. Unset \in RandState BY DEF Unset, RandState
<1>2. Unset.data = <<>> /\ Len(<<>>) = 0 /\ Unset.rand_count = 0 /\ Unset.byte_count = 0 /\ ~Unset.ciphered
  BY DEF Unset
<1>3. NoneSeen \in [1..SdcchLen -> Octet \cup {"none"}] /\ \A i \in 1..SdcchLen : NoneSeen[i] = "none"
  BY DEF NoneSeen
<1>4. Kind(Unset, NoneSeen, 0, c)
  BY <1>0, <1>1, <1>2, <1>3 DEF Kind
<1>5. q \in Seq(Octet) /\ Len(q) = SdcchLen /\ \A i \in 1..SdcchLen : q[i] = Fill
  BY <1>0
<1> HIDE DEF q
<1>6. /\ rand_init_2b \in RandState /\ rand_init_2b.data = q /\ rand_init_2b.valid /\ ~rand_init_2b.ciphered
      /\ rand_init_2b.rand_count = 0 /\ rand_init_2b.byte_count = 0
  <2>1. rand_init_2b = [Unset EXCEPT !.valid = TRUE, !.data = q] BY DEF rand_init_2b, q
  <2> QED BY <2>1, <1>5, <1>1, <1>2 DEF RandState
<1>7. q \in [1..SdcchLen -> Octet \cup {"none"}] BY <1>0 DEF q
<1>8. Kind(rand_init_2b, q, 0, c)
  BY <1>0, <1>5, <1>6, <1>7 DEF Kind
<1> QED BY <1>1, <1>4, <1>6, <1>8 DEF q

\* The first state, and the state after a reset, have the invariant.
LEMMA PadStarts == PadInit => PadInv
<1> SUFFICES ASSUME PadInit PROVE PadInv OBVIOUS
<1>1. /\ cipher = 0 /\ fc = NoFrames /\ asked = 0 /\ changed = [k \in Kinds |-> 0] /\ frames = 0
      /\ aborted = FALSE
  BY DEF PadInit
<1>2. cipher \in 0..2 /\ frames \in 0..MaxFrames /\ ~aborted /\ changed \in [Kinds -> Nat] /\ asked \in Nat
  BY <1>1, PaddingAssumption
<1>3. fc \in Counters /\ Predictable
  BY <1>1 DEF NoFrames, Counters, Predictable
<1> DEFINE full == [i \in 1..SdcchLen |-> Fill]
<1>4. /\ Unset \in RandState /\ Kind(Unset, NoneSeen, 0, cipher)
      /\ rand_init_2b \in RandState /\ Kind(rand_init_2b, full, 0, cipher)
  BY FreshKinds
<1>5. NoneSeen \in [1..SdcchLen -> Octet \cup {"none"}] /\ full \in [1..SdcchLen -> Octet \cup {"none"}]
  BY <1>4 DEF Kind
<1>6. CASE /\ r = [k \in Kinds |-> IF k = "si" THEN Unset ELSE rand_init_2b]
           /\ seen = [k \in Kinds |-> IF k = "si" THEN NoneSeen ELSE full]
  <2> HIDE DEF full
  <2>1. r \in [Kinds -> RandState] /\ seen \in [Kinds -> [1..SdcchLen -> Octet \cup {"none"}]]
    BY <1>4, <1>5, <1>6
  <2>2. ASSUME NEW k \in Kinds PROVE Kind(r[k], seen[k], changed[k], cipher)
    <3>1. changed[k] = 0 BY <1>1
    <3>2. CASE k = "si"
      <4>1. r[k] = Unset /\ seen[k] = NoneSeen BY <1>6, <3>2
      <4> QED BY <4>1, <3>1, <1>4
    <3>3. CASE k # "si"
      <4>1. r[k] = rand_init_2b /\ seen[k] = full BY <1>6, <3>3
      <4> QED BY <4>1, <3>1, <1>4
    <3> QED BY <3>2, <3>3
  <2> QED BY <2>1, <2>2, <1>2, <1>3 DEF PadInv
<1>7. CASE r = [k \in Kinds |-> Unset] /\ seen = [k \in Kinds |-> NoneSeen]
  <2>1. r \in [Kinds -> RandState] /\ seen \in [Kinds -> [1..SdcchLen -> Octet \cup {"none"}]]
    BY <1>4, <1>5, <1>7
  <2>2. ASSUME NEW k \in Kinds PROVE Kind(r[k], seen[k], changed[k], cipher)
    <3>1. changed[k] = 0 /\ r[k] = Unset /\ seen[k] = NoneSeen BY <1>1, <1>7
    <3> QED BY <3>1, <1>4
  <2> QED BY <2>1, <2>2, <1>2, <1>3 DEF PadInv
<1> QED BY <1>6, <1>7 DEF PadInit

\* Every step keeps the invariant.
LEMMA PadSteps == PadInv /\ [PadNext]_pad_vars => PadInv'
<1> SUFFICES ASSUME PadInv, [PadNext]_pad_vars PROVE PadInv' OBVIOUS
<1>0. /\ cipher \in 0..2 /\ frames \in 0..MaxFrames /\ ~aborted
      /\ r \in [Kinds -> RandState] /\ changed \in [Kinds -> Nat]
      /\ seen \in [Kinds -> [1..SdcchLen -> Octet \cup {"none"}]]
      /\ \A k \in Kinds : Kind(r[k], seen[k], changed[k], cipher)
      /\ fc \in Counters /\ asked \in Nat
      /\ fc.predict - asked = (fc.enc_null - fc.enc_null_rand) + (fc.enc_si - fc.enc_si_rand)
  BY DEF PadInv, Predictable
<1>f. NextFrame => frames' \in 0..MaxFrames
  BY <1>0, PaddingAssumption DEF NextFrame
<1>1. CASE update_counters
  <2>1. PICK len \in {SdcchLen, SacchLen} : \E dlen \in 0..len :
     /\ NextFrame /\ UNCHANGED <<cipher, asked>>
     /\ \/ /\ StateOf(len, dlen) = {}
           /\ fc' = IF cipher # 0 THEN Counted(fc, len, dlen, FALSE) ELSE InClear(fc, FALSE)
           /\ UNCHANGED <<r, changed, seen, aborted>>
        \/ \E k \in StateOf(len, dlen) : \E pad \in [1..(len - dlen - 1) -> Octet] :
           /\ Compared(k, pad)
           /\ LET random == rand_check(r[k], pad, cipher # 0).random
              IN fc' = IF cipher # 0 THEN Counted(fc, len, dlen, random) ELSE InClear(fc, random)
    BY <1>1 DEF update_counters
  <2>2. PICK dlen \in 0..len :
     /\ NextFrame /\ UNCHANGED <<cipher, asked>>
     /\ \/ /\ StateOf(len, dlen) = {}
           /\ fc' = IF cipher # 0 THEN Counted(fc, len, dlen, FALSE) ELSE InClear(fc, FALSE)
           /\ UNCHANGED <<r, changed, seen, aborted>>
        \/ \E k \in StateOf(len, dlen) : \E pad \in [1..(len - dlen - 1) -> Octet] :
           /\ Compared(k, pad)
           /\ LET random == rand_check(r[k], pad, cipher # 0).random
              IN fc' = IF cipher # 0 THEN Counted(fc, len, dlen, random) ELSE InClear(fc, random)
    BY <2>1
  <2>3. len \in Nat BY PaddingAssumption
  <2>4. fc' \in Counters
        /\ fc'.predict - asked = (fc'.enc_null - fc'.enc_null_rand) + (fc'.enc_si - fc'.enc_si_rand)
    <3>1. \E random : fc' = IF cipher # 0 THEN Counted(fc, len, dlen, random) ELSE InClear(fc, random)
      BY <2>2
    <3>2. PICK random : fc' = IF cipher # 0 THEN Counted(fc, len, dlen, random) ELSE InClear(fc, random)
      BY <3>1
    <3>3. fc' \in {Counted(fc, len, dlen, random), InClear(fc, random)} BY <3>2
    <3>4. /\ Counted(fc, len, dlen, random) \in Counters /\ InClear(fc, random) \in Counters
          /\ \A g \in {Counted(fc, len, dlen, random), InClear(fc, random)} :
               g.predict - asked = (g.enc_null - g.enc_null_rand) + (g.enc_si - g.enc_si_rand)
      BY CountedKeeps
    <3> QED BY <3>3, <3>4
  <2>5. CASE UNCHANGED <<r, changed, seen, aborted>>
    BY <2>2, <2>4, <2>5, <1>0, <1>f DEF PadInv, Predictable
  <2>6. CASE \E k \in StateOf(len, dlen) : \E pad \in [1..(len - dlen - 1) -> Octet] : Compared(k, pad)
    <3>1. PICK k \in StateOf(len, dlen), pad \in [1..(len - dlen - 1) -> Octet] : Compared(k, pad) BY <2>6
    <3>2. k \in Kinds BY DEF StateOf, Kinds
    <3>3. pad \in Seq(Octet)
      <4>1. CASE len - dlen - 1 \in Nat BY <4>1
      <4>2. CASE len - dlen - 1 \notin Nat
        <5>1. 1..(len - dlen - 1) = 1..0 BY <4>2, <2>3
        <5>2. pad \in [1..0 -> Octet] BY <5>1
        <5>3. \A q \in [1..0 -> Octet] : q \in Seq(Octet) OBVIOUS
        <5> QED BY <5>2, <5>3
      <4> QED BY <4>1, <4>2
    <3>4. /\ ~aborted' /\ r' \in [Kinds -> RandState] /\ changed' \in [Kinds -> Nat]
          /\ seen' \in [Kinds -> [1..SdcchLen -> Octet \cup {"none"}]]
          /\ \A j \in Kinds : Kind(r'[j], seen'[j], changed'[j], cipher)
      BY <3>1, <3>2, <3>3, <2>2, ComparedKeeps
    <3> QED BY <3>4, <2>2, <2>4, <1>0, <1>f DEF PadInv, Predictable
  <2> QED BY <2>2, <2>5, <2>6
<1>2. CASE SystemInformation
  <2>1. PICK d \in [1..SiLen -> Octet] :
          NextFrame /\ Compared("si", d) /\ UNCHANGED <<cipher, fc, asked>>
    BY <1>2 DEF SystemInformation
  <2>2. d \in Seq(Octet) /\ "si" \in Kinds BY PaddingAssumption DEF Kinds
  <2>3. /\ ~aborted' /\ r' \in [Kinds -> RandState] /\ changed' \in [Kinds -> Nat]
        /\ seen' \in [Kinds -> [1..SdcchLen -> Octet \cup {"none"}]]
        /\ \A j \in Kinds : Kind(r'[j], seen'[j], changed'[j], cipher)
    BY <2>1, <2>2, ComparedKeeps
  <2> QED BY <2>1, <2>3, <1>0, <1>f DEF PadInv, Predictable
<1>c. ASSUME NEW s, NEW old, NEW ch, NEW c, Kind(s, old, ch, c), NEW c2, c # 0 => c2 # 0
      PROVE  Kind(s, old, ch, c2)
  BY <1>c DEF Kind
<1>3. CASE SecurityModeCommand
  <2>1. NextFrame /\ cipher' \in 0..1 /\ cipher = 0 /\ UNCHANGED <<r, fc, asked, changed, seen, aborted>>
    BY <1>3 DEF SecurityModeCommand, MayStart
  <2>2. \A k \in Kinds : Kind(r[k], seen[k], changed[k], cipher') BY <2>1, <1>0, <1>c
  <2> QED BY <2>1, <2>2, <1>0, <1>f DEF PadInv, Predictable
<1>4. CASE CipherModeCommand
  <2>1. PICK start \in BOOLEAN, imeisv \in BOOLEAN :
          /\ NextFrame /\ cipher' = IF start THEN 2 ELSE cipher
          /\ LET p == One(imeisv /\ cipher' # 0 /\ fc.enc_rand = 0)
             IN fc' = [fc EXCEPT !.predict = @ + p] /\ asked' = asked + p
          /\ UNCHANGED <<r, changed, seen, aborted>>
    BY <1>4 DEF CipherModeCommand
  <2>2. \A k \in Kinds : Kind(r[k], seen[k], changed[k], cipher') BY <2>1, <1>0, <1>c
  <2>3. PICK p \in Nat : fc' = [fc EXCEPT !.predict = @ + p] /\ asked' = asked + p
    BY <2>1 DEF One
  <2>4. fc' \in Counters /\ asked' \in Nat
        /\ fc'.predict - asked' = (fc'.enc_null - fc'.enc_null_rand) + (fc'.enc_si - fc'.enc_si_rand)
    <3>0. fc.predict + p \in Nat /\ asked' \in Nat BY <2>3, <1>0 DEF Counters
    <3>1. fc' \in Counters /\ asked' \in Nat BY <2>3, <3>0, <1>0 DEF Counters
    <3>2. /\ fc'.predict = fc.predict + p /\ fc'.enc_null = fc.enc_null
          /\ fc'.enc_null_rand = fc.enc_null_rand /\ fc'.enc_si = fc.enc_si /\ fc'.enc_si_rand = fc.enc_si_rand
      BY <2>3, <1>0 DEF Counters
    <3>3. /\ fc.predict \in Nat /\ fc.enc_null \in Nat /\ fc.enc_null_rand \in Nat /\ fc.enc_si \in Nat
          /\ fc.enc_si_rand \in Nat BY <1>0 DEF Counters
    <3> QED BY <3>1, <3>2, <3>3, <2>3, <1>0
  <2>5. cipher' \in 0..2 BY <2>1, <1>0
  <2> QED BY <2>1, <2>2, <2>4, <2>5, <1>0, <1>f DEF PadInv, Predictable
<1>5. CASE session_reset
  <2>1. /\ NextFrame /\ cipher' = 0 /\ fc' = NoFrames /\ asked' = 0 /\ r' = [k \in Kinds |-> Unset]
        /\ seen' = [k \in Kinds |-> NoneSeen] /\ changed' = [k \in Kinds |-> 0] /\ UNCHANGED aborted
    BY <1>5 DEF session_reset, ResetStates
  <2>2. Unset \in RandState /\ Kind(Unset, NoneSeen, 0, cipher') BY FreshKinds
  <2>3. NoneSeen \in [1..SdcchLen -> Octet \cup {"none"}] BY <2>2 DEF Kind
  <2>4. r' \in [Kinds -> RandState] /\ seen' \in [Kinds -> [1..SdcchLen -> Octet \cup {"none"}]]
        /\ changed' \in [Kinds -> Nat]
    BY <2>1, <2>2, <2>3
  <2>5. ASSUME NEW k \in Kinds PROVE Kind(r'[k], seen'[k], changed'[k], cipher')
    <3>1. changed'[k] = 0 /\ r'[k] = Unset /\ seen'[k] = NoneSeen BY <2>1
    <3> QED BY <3>1, <2>2
  <2>6. fc' \in Counters /\ Predictable' BY <2>1 DEF NoFrames, Counters, Predictable
  <2>7. cipher' \in 0..2 /\ asked' \in Nat /\ ~aborted' BY <2>1, <1>0
  <2> QED BY <2>1, <2>4, <2>5, <2>6, <2>7, <1>f DEF PadInv
<1>6. CASE UNCHANGED pad_vars
  BY <1>6, <1>0 DEF PadInv, pad_vars, Predictable
<1> QED BY <1>1, <1>2, <1>3, <1>4, <1>5, <1>6 DEF PadNext

\* The invariant says what the run checks.
LEMMA PadMeans == PadInv => PaddingMeasured
<1> SUFFICES ASSUME PadInv PROVE PaddingMeasured OBVIOUS
<1>1. \A k \in Kinds : Kind(r[k], seen[k], changed[k], cipher) BY DEF PadInv
<1>2. PadTypeOK BY <1>1 DEF PadInv, PadTypeOK, Kind
<1>3. Remembers
  <2> SUFFICES ASSUME NEW k \in Kinds, NEW i \in 1..Len(r[k].data)
               PROVE  r[k].data[Len(r[k].data) - i + 1] = seen[k][i]
    BY DEF Remembers
  <2>1. Len(r[k].data) \in Nat /\ Len(r[k].data) <= SdcchLen /\ SdcchLen \in Nat
    BY <1>1, PaddingAssumption DEF Kind, RandState
  <2>2. i \in 1..SdcchLen BY <2>1
  <2> QED BY <2>2, <1>1 DEF Kind
<1>4. Measured BY <1>1 DEF Measured, Kind
<1> QED BY <1>2, <1>3, <1>4 DEF PadInv, PaddingMeasured, NeverAborts

\* For any octets, any lengths of frames and any sequence of frames, system
\* information, commands that change the cipher and resets.
THEOREM PaddingIsMeasured == PadSpec => []PaddingMeasured
<1> QED BY PadStarts, PadSteps, PadMeans, PTL DEF PadSpec
=============================================================================
