-------------------------- MODULE LapdmEntityProofs --------------------------
(***************************************************************************)
(* LapdmEntity: whatever the peer and layer 3 do, no null context is used, *)
(* no frame is left in a queue that nobody empties, every I frame that is  *)
(* taken is acknowledged, and SABM and DISC are supervised and at hand     *)
(* until they are answered; for any modulus, window, retries, frames and   *)
(* messages.                                                               *)
(*                                                                         *)
(* The operators of LapdCore take a link to a link.  Sound is what they    *)
(* all need and keep, Goes(d, e) that one of them led from d to e, which   *)
(* is Sound, with V(R) as it was.  There is one lemma per operator, then   *)
(* one per action.  Tried(d) says the same of a command that waits.        *)
(***************************************************************************)
EXTENDS LapdmEntity, WellFoundedInduction, NaturalsInduction, TLAPS

\* The members of struct lapd_datalink and of a frame.
Fields == {"mode", "state", "vs", "va", "vr", "retrans", "t200", "t203", "hist", "queue", "buf",
           "sent", "rcv", "err", "own_busy", "peer_busy", "cont", "chan", "ta", "tx", "up"}
FrameFields == {"t", "cmd", "pf", "ns", "nr", "more", "p", "chan", "ta"}

\* Records of these; a frame in a queue has a channel.
IsLink(d)  == d = [x \in Fields |-> d[x]]
IsFrame(f) == f = [x \in FrameFields |-> f[x]] /\ f.chan # Null /\ (~Acch => f.ta = Null)

\* The frames that wait.
Queued(d) == {d.tx[i] : i \in DOMAIN d.tx}

\* A data link with a channel, all of whose frames have one.
Sound(d) ==
  /\ IsLink(d) /\ d.state \in States /\ d.vr \in 0..(VRange - 1) /\ d.chan # Null
  /\ ~Acch => d.ta = Null
  /\ d.tx \in Seq(Queued(d)) /\ \A f \in Queued(d) : IsFrame(f)

-----------------------------------------------------------------------------
(* Sequences of frames.                                                    *)

\* The frames of a sequence are among those it is made of.
LEMMA QueuedIn ==
  ASSUME NEW S, NEW q \in Seq(S)
  PROVE  q \in Seq({q[i] : i \in DOMAIN q}) /\ \A i \in DOMAIN q : q[i] \in S
  <1>1. DOMAIN q = 1..Len(q) /\ Len(q) \in Nat /\ \A i \in 1..Len(q) : q[i] \in S
    OBVIOUS
  <1> QED BY <1>1

\* A sequence with one more frame.
LEMMA AppendIn ==
  ASSUME NEW S, NEW q \in Seq(S), NEW f
  PROVE  Append(q, f) \in Seq(S \cup {f})
  <1>1. q \in Seq(S \cup {f})
    OBVIOUS
  <1>2. f \in S \cup {f}
    OBVIOUS
  <1> QED BY <1>1, <1>2

\* A queue of good frames.
LEMMA QueueSound ==
  ASSUME NEW S, NEW q \in Seq(S), \A f \in S : IsFrame(f)
  PROVE  q \in Seq({q[i] : i \in DOMAIN q}) /\ \A f \in {q[i] : i \in DOMAIN q} : IsFrame(f)
  BY QueuedIn

-----------------------------------------------------------------------------
(* The rounds of lapd_send_i.                                              *)

\* A set of natural numbers has a least one.
LEMMA LeastNat ==
  ASSUME NEW T, T \subseteq Nat, T # {}
  PROVE  \E x \in T : \A y \in T : x <= y
  <1> DEFINE Less == {ss \in Nat \X Nat : ss[1] < ss[2]}
  <1>1. IsWellFoundedOn(Less, Nat)
    BY NatLessThanWellFounded DEF OpToRel
  <1>2. PICK x \in T : \A y \in T : ~(<<y, x>> \in Less)
    BY <1>1, WFMin
  <1>3. \A y \in T : ~(y < x)
    BY <1>2
  <1> QED BY <1>3

\* A set that has 0 and with a number below m the next one has all up to m.
LEMMA UpToAll ==
  ASSUME NEW m \in Nat, NEW S, 0 \in S, \A n \in 0..(m - 1) : n \in S => n + 1 \in S
  PROVE  0..m \subseteq S
  <1> DEFINE T == {n \in 0..m : n \notin S}
  <1>1. SUFFICES ASSUME T # {} PROVE FALSE
    OBVIOUS
  <1>2. PICK x \in T : \A y \in T : x <= y
    <2>1. T \subseteq Nat
      OBVIOUS
    <2> HIDE DEF T
    <2> QED BY <1>1, <2>1, LeastNat
  <1>3. x - 1 \in 0..(m - 1) /\ x - 1 \notin T
    BY <1>2
  <1> QED BY <1>2, <1>3

\* The rounds exist: the recursive function of lapd_send_i is one.
LEMMA RoundsExist ==
  ASSUME NEW d, NEW m \in Nat
  PROVE  \E a : a = [n \in 0..m |-> IF n = 0 THEN d ELSE SendOne(a[n - 1])]
  <1> DEFINE S == {k \in 0..m : \E a : a = [n \in 0..k |-> IF n = 0 THEN d ELSE SendOne(a[n - 1])]}
  <1>1. 0 \in S
    <2> DEFINE a == [n \in 0..0 |-> d]
    <2>1. a = [n \in 0..0 |-> IF n = 0 THEN d ELSE SendOne(a[n - 1])]
      OBVIOUS
    <2> HIDE DEF a
    <2> QED BY <2>1
  <1>2. ASSUME NEW k \in 0..(m - 1), k \in S PROVE k + 1 \in S
    <2>1. PICK a : a = [n \in 0..k |-> IF n = 0 THEN d ELSE SendOne(a[n - 1])]
      BY <1>2
    <2> DEFINE b == [n \in 0..(k + 1) |-> IF n = k + 1 THEN SendOne(a[k]) ELSE a[n]]
    <2>2. \A n \in 0..k : b[n] = a[n]
      OBVIOUS
    <2>3. ASSUME NEW n \in 0..(k + 1) PROVE b[n] = IF n = 0 THEN d ELSE SendOne(b[n - 1])
      <3>1. CASE n = k + 1
        BY <2>2, <3>1
      <3>2. CASE n # k + 1
        <4>1. n \in 0..k /\ b[n] = a[n] /\ (n # 0 => n - 1 \in 0..k)
          BY <3>2
        <4>2. n # 0 => b[n - 1] = a[n - 1]
          BY <2>2, <4>1
        <4>3. a[n] = IF n = 0 THEN d ELSE SendOne(a[n - 1])
          BY <2>1, <4>1
        <4> QED BY <4>1, <4>2, <4>3
      <3> QED BY <3>1, <3>2
    <2>4. b = [n \in 0..(k + 1) |-> IF n = 0 THEN d ELSE SendOne(b[n - 1])]
      BY <2>3
    <2>5. k + 1 \in 0..m
      OBVIOUS
    <2> HIDE DEF b
    <2> QED BY <2>4, <2>5
  <1>3. m \in S
    <2>1. 0..m \subseteq S
      <3> HIDE DEF S
      <3> QED BY <1>1, <1>2, UpToAll
    <2> HIDE DEF S
    <2> QED BY <2>1
  <1> QED BY <1>3

\* lapd_send_i is VRange rounds.
LEMMA SendRounds ==
  ASSUME NEW d, VRange \in Nat
  PROVE  \E a : a[0] = d /\ (\A n \in 1..VRange : a[n] = SendOne(a[n - 1])) /\ lapd_send_i(d) = a[VRange]
  <1> DEFINE Is(a) == a = [n \in 0..VRange |-> IF n = 0 THEN d ELSE SendOne(a[n - 1])]
             a == CHOOSE x : Is(x)
  <1>1. \E x : Is(x)
    BY RoundsExist
  <1>2. Is(a)
    BY <1>1
  <1>3. lapd_send_i(d) = a[VRange]
    BY DEF lapd_send_i
  <1> HIDE DEF a
  <1>4. a[0] = d /\ \A n \in 1..VRange : a[n] = SendOne(a[n - 1])
    BY <1>2
  <1> QED BY <1>3, <1>4

-----------------------------------------------------------------------------
(* A link goes on from d to e: it stays sound and receives no frame.       *)

Goes(d, e) == Sound(e) /\ e.vr = d.vr

\* A frame that has no channel yet.
IsRec(f) == f = [x \in FrameFields |-> f[x]]

\* What is not the state, the context, V(R) or the queue may change.
LEMMA Altered ==
  ASSUME NEW d, Sound(d), NEW e, IsLink(e), e.state \in States, e.vr \in 0..(VRange - 1),
         e.chan = d.chan, e.ta = d.ta, e.tx = d.tx \/ e.tx = <<>>
  PROVE  Sound(e)
  <1>1. CASE e.tx = d.tx
    BY <1>1 DEF Sound, Queued
  <1>2. CASE e.tx = <<>>
    <2>1. Queued(e) = {} /\ <<>> \in Seq({})
      BY <1>2 DEF Queued
    <2> QED BY <1>2, <2>1 DEF Sound
  <1> QED BY <1>1, <1>2

\* d and e have the context in common, V(R) and the queue, unless it is flushed.
Alike(d, e) ==
  /\ IsLink(e) /\ e.state \in States /\ e.chan = d.chan /\ e.ta = d.ta
  /\ e.vr = d.vr /\ (e.tx = d.tx \/ e.tx = <<>>)

\* The same for links that are Alike.
LEMMA AlikeGoes ==
  ASSUME NEW d, Sound(d), NEW e, Alike(d, e)
  PROVE  Goes(d, e)
  BY Altered DEF Alike, Goes, Sound

\* Frames are records, with the type and the number they are made with.
LEMMA FramesAre ==
  ASSUME NEW t, NEW cmd, NEW pf, NEW p, NEW nr, NEW ns, NEW h
  PROVE  /\ IsRec(Frame(t, cmd, pf, p))
         /\ IsRec(SFrame(t, cmd, pf, nr)) /\ SFrame(t, cmd, pf, nr).t = t /\ SFrame(t, cmd, pf, nr).nr = nr
         /\ IsRec(IFrame(ns, nr, pf, h)) /\ IFrame(ns, nr, pf, h).t = "I" /\ IFrame(ns, nr, pf, h).nr = nr
  BY DEF IsRec, FrameFields, Frame, SFrame, IFrame

\* A frame goes into the queue.
LEMMA TxGoes ==
  ASSUME NEW d, Sound(d), NEW f, IsRec(f)
  PROVE  /\ Goes(d, Tx(d, f)) /\ Queued(d) \subseteq Queued(Tx(d, f))
         /\ \E g \in Queued(Tx(d, f)) : g.t = f.t /\ g.nr = f.nr
         /\ \A x \in Fields \ {"tx"} : Tx(d, f)[x] = d[x]
  <1> DEFINE g == [f EXCEPT !.chan = d.chan, !.ta = d.ta]
             S == Queued(d) \cup {g}
             q == Append(d.tx, g)
             e == Tx(d, f)
  <1>1. IsFrame(g) /\ g.t = f.t /\ g.nr = f.nr
    BY DEF IsFrame, IsRec, FrameFields, Sound
  <1>2. IsLink(e) /\ e.tx = q /\ \A x \in Fields \ {"tx"} : e[x] = d[x]
    BY DEF Sound, IsLink, Fields, Tx
  <1>3. q \in Seq(S)
    BY AppendIn DEF Sound
  <1>4. \A h \in S : IsFrame(h)
    BY <1>1 DEF Sound
  <1>7. Queued(d) \subseteq {q[i] : i \in DOMAIN q} /\ g \in {q[i] : i \in DOMAIN q}
    <2>1. d.tx \in Seq(Queued(d)) /\ Queued(d) = {d.tx[i] : i \in DOMAIN d.tx}
      BY DEF Sound, Queued
    <2> DEFINE t == d.tx
    <2>2. t \in Seq(Queued(d)) /\ q = Append(t, g) /\ Queued(d) = {t[i] : i \in DOMAIN t}
      BY <2>1
    <2> HIDE DEF t, g, q
    <2>3. DOMAIN t = 1..Len(t) /\ Len(t) \in Nat /\ DOMAIN q = 1..(Len(t) + 1) /\ q[Len(t) + 1] = g /\ \A i \in 1..Len(t) : q[i] = t[i]
      BY <2>2
    <2>4. Len(t) + 1 \in DOMAIN q /\ \A i \in DOMAIN t : i \in DOMAIN q /\ q[i] = t[i]
      BY <2>3
    <2> QED BY <2>2, <2>3, <2>4
  <1> HIDE DEF q, S
  <1>5. q \in Seq({q[i] : i \in DOMAIN q}) /\ \A h \in {q[i] : i \in DOMAIN q} : IsFrame(h)
    BY <1>3, <1>4, QueueSound
  <1> HIDE DEF e, g
  <1>6. /\ e.tx \in Seq(Queued(e)) /\ \A h \in Queued(e) : IsFrame(h)
        /\ Queued(d) \subseteq Queued(e) /\ g \in Queued(e)
    BY <1>2, <1>5, <1>7 DEF Queued
  <1>8. e.state = d.state /\ e.chan = d.chan /\ e.ta = d.ta /\ e.vr = d.vr
    BY <1>2 DEF Fields
  <1>9. Goes(d, e)
    BY <1>2, <1>6, <1>8 DEF Sound, Goes
  <1> QED BY <1>1, <1>2, <1>6, <1>9 DEF e

\* The operators of LapdCore that change a field or two.
LEMMA SmallGo ==
  ASSUME NEW d, Sound(d)
  PROVE  /\ \A p : Goes(d, Up(d, p))
         /\ \A s \in States : Goes(d, newstate(d, s))
         /\ \A n : Goes(d, [d EXCEPT !.err = n])
         /\ Goes(d, mdl_error(d)) /\ Goes(d, start_t200(d)) /\ Goes(d, stop_t200(d))
         /\ Goes(d, lapd_dl_flush_send(d)) /\ Goes(d, lapd_dl_flush_hist(d)) /\ Goes(d, lapd_dl_flush_tx(d))
         /\ Goes(d, Released(d))
  <1>1. \A y : Alike(d, Up(d, y))
    BY DEF Alike, Up, IsLink, Fields, Sound
  <1>2. Goes(d, mdl_error(d))
    BY <1>1, AlikeGoes DEF mdl_error
  <1>3. \A x : Sound(x) => Alike(x, lapd_dl_flush_send(x))
    BY DEF Alike, lapd_dl_flush_send, IsLink, Fields, Sound
  <1>4. Alike(d, lapd_dl_flush_hist(d)) /\ Alike(d, lapd_dl_flush_tx(d))
    BY DEF Alike, lapd_dl_flush_hist, lapd_dl_flush_tx, IsLink, Fields, Sound
  <1>5. Alike(d, start_t200(d)) /\ Alike(d, stop_t200(d)) /\ \A n : Alike(d, [d EXCEPT !.err = n])
    BY DEF Alike, start_t200, stop_t200, IsLink, Fields, Sound
  <1>6. \A x, y : Sound(x) /\ y \in States => Alike(x, newstate(x, y))
    <2> SUFFICES ASSUME NEW x, NEW y, Sound(x), y \in States PROVE Alike(x, newstate(x, y))
      OBVIOUS
    <2> DEFINE e == newstate(x, y)
    <2>1. IsLink(e) /\ e.state = y /\ e.chan = x.chan /\ e.ta = x.ta /\ e.tx = x.tx /\ e.vr = x.vr
      BY DEF newstate, IsLink, Fields, Sound
    <2> HIDE DEF e
    <2>2. Alike(x, e)
      BY <2>1 DEF Alike
    <2> QED BY <2>2 DEF e
  <1>7. Goes(d, Released(d))
    <2>1. "IDLE" \in States
      BY DEF States
    <2> QED BY <1>3, <1>4, <1>6, <2>1, AlikeGoes DEF Goes, Released
  <1> QED BY <1>1, <1>2, <1>3, <1>4, <1>5, <1>6, <1>7, AlikeGoes

\* A frame of e that waits acknowledges everything d has received.
Answered(d, e) == \E g \in Queued(e) : Numbered(g) /\ g.nr = d.vr

\* Answers go into the queue; RR and RNR carry V(R).
LEMMA AnswersGo ==
  ASSUME NEW d, Sound(d)
  PROVE  /\ \A f : Goes(d, send_ua(d, f)) /\ Goes(d, send_dm(d, f))
         /\ \A pf, cmd : Goes(d, send_rr(d, pf, cmd)) /\ Answered(d, send_rr(d, pf, cmd))
         /\ \A pf, cmd : Goes(d, send_rnr(d, pf, cmd)) /\ Answered(d, send_rnr(d, pf, cmd))
         /\ \A pf : Goes(d, send_rej(d, pf))
  <1>1. \A t, c, q, p : IsRec(Frame(t, c, q, p))
    BY FramesAre
  <1>2. \A f : Goes(d, send_ua(d, f)) /\ Goes(d, send_dm(d, f))
    BY <1>1, TxGoes DEF send_ua, send_dm
  <1>3. ASSUME NEW t \in {"RR", "RNR", "REJ"}, NEW c, NEW pf
        PROVE  Goes(d, Tx(d, SFrame(t, c, pf, d.vr))) /\ Answered(d, Tx(d, SFrame(t, c, pf, d.vr)))
    <2> DEFINE h == SFrame(t, c, pf, d.vr)
    <2>1. IsRec(h) /\ h.t = t /\ h.nr = d.vr
      BY FramesAre
    <2> HIDE DEF h
    <2>2. Goes(d, Tx(d, h)) /\ \E g \in Queued(Tx(d, h)) : g.t = t /\ g.nr = d.vr
      BY <2>1, TxGoes
    <2> QED BY <2>2 DEF h, Numbered, Answered
  <1>4. \A pf, cmd : Goes(d, send_rr(d, pf, cmd)) /\ Answered(d, send_rr(d, pf, cmd))
    BY <1>3 DEF send_rr
  <1>5. \A pf, cmd : Goes(d, send_rnr(d, pf, cmd)) /\ Answered(d, send_rnr(d, pf, cmd))
    BY <1>3 DEF send_rnr
  <1>6. \A pf : Goes(d, send_rej(d, pf))
    <2> DEFINE no == FALSE
    <2>1. \A pf : send_rej(d, pf) = Tx(d, SFrame("REJ", no, pf, d.vr))
      BY DEF send_rej
    <2> HIDE DEF no
    <2> QED BY <1>3, <2>1
  <1> QED BY <1>2, <1>4, <1>5, <1>6

\* A round of lapd_send_i: what is sent carries V(R), and what waits stays.
Sends(d, e) ==
  /\ Goes(d, e) /\ Queued(d) \subseteq Queued(e) /\ e.state = d.state
  /\ e.vs = d.vs \/ \E g \in Queued(e) : g.t = "I" /\ g.nr = d.vr

\* The next segment is taken out of the send buffer; nothing is sent yet.
LEMMA SegmentGoes ==
  ASSUME NEW d, Sound(d)
  PROVE  LET r == Segment(d) IN Goes(d, r) /\ r.vs = d.vs /\ r.tx = d.tx /\ r.state = d.state
  <1>1. LET r == Refill(d) IN IsLink(r) /\ r.state = d.state /\ r.chan = d.chan /\ r.ta = d.ta
                              /\ r.tx = d.tx /\ r.vr = d.vr /\ r.vs = d.vs
    BY DEF Refill, IsLink, Fields, Sound
  <1> DEFINE h == Slot(d.vs)
             r == IF d.hist[h] = Null THEN Refill(d) ELSE d
             v == [p |-> <<r.buf[r.sent + 1]>>, more |-> r.sent + 1 < Len(r.buf)]
             n == r.sent + 1
             e == IF d.hist[h] # Null \/ r.buf = Null THEN r ELSE [r EXCEPT !.hist[h] = v, !.sent = n]
  <1>2. IsLink(r) /\ r.state = d.state /\ r.chan = d.chan /\ r.ta = d.ta
        /\ r.tx = d.tx /\ r.vr = d.vr /\ r.vs = d.vs
    BY <1>1 DEF Sound
  <1>3. Segment(d) = e
    BY DEF Segment
  <1> HIDE DEF r, v, n, h
  <1>4. IsLink(e) /\ e.state = d.state /\ e.chan = d.chan /\ e.ta = d.ta
        /\ e.tx = d.tx /\ e.vr = d.vr /\ e.vs = d.vs
    BY <1>2 DEF IsLink, Fields
  <1> HIDE DEF e
  <1>5. Goes(d, e)
    BY <1>4, AlikeGoes DEF Alike, Sound
  <1> QED BY <1>3, <1>4, <1>5

\* One round sends at most one I frame.
LEMMA SendOneSends ==
  ASSUME NEW d, Sound(d)
  PROVE  Sends(d, SendOne(d))
  <1> DEFINE r == Segment(d)
             h == r.hist[Slot(d.vs)]
             w == [r EXCEPT !.vs = inc_mod(@), !.t203 = @ /\ d.t200, !.t200 = TRUE]
             no == FALSE
             f == IFrame(d.vs, d.vr, no, h)
  <1>1. Goes(d, r) /\ r.vs = d.vs /\ r.tx = d.tx /\ r.state = d.state
    BY SegmentGoes
  <1>2. SendOne(d) \in {d, r, Tx(w, f)}
    BY DEF SendOne
  <1>3. Sends(d, d) /\ Sends(d, r)
    BY <1>1 DEF Sends, Goes, Queued
  <1>4. Sends(d, Tx(w, f))
    <2> HIDE DEF r, f
    <2>1. Alike(r, w) /\ w.tx = r.tx /\ w.state = r.state
      BY <1>1 DEF Alike, IsLink, Fields, Sound, Goes
    <2>2. Goes(r, w) /\ Queued(w) = Queued(d)
      BY <1>1, <2>1, AlikeGoes DEF Goes, Queued
    <2>3. IsRec(f) /\ f.t = "I" /\ f.nr = d.vr
      <3> HIDE DEF no, h
      <3> QED BY FramesAre DEF f
    <2> HIDE DEF w
    <2>4. /\ Goes(w, Tx(w, f)) /\ Queued(w) \subseteq Queued(Tx(w, f))
          /\ \E g \in Queued(Tx(w, f)) : g.t = f.t /\ g.nr = f.nr
          /\ \A x \in Fields \ {"tx"} : Tx(w, f)[x] = w[x]
      BY <2>2, <2>3, TxGoes DEF Goes
    <2>5. Tx(w, f).state = w.state
      BY <2>4 DEF Fields
    <2> QED BY <1>1, <2>1, <2>2, <2>3, <2>4, <2>5 DEF Sends, Goes
  <1> HIDE DEF w, f, r
  <1> QED BY <1>2, <1>3, <1>4

\* All the rounds of lapd_send_i.
LEMMA SendsI ==
  ASSUME NEW d, Sound(d), VRange \in Nat
  PROVE  Sends(d, lapd_send_i(d))
  <1>1. PICK a : a[0] = d /\ (\A n \in 1..VRange : a[n] = SendOne(a[n - 1])) /\ lapd_send_i(d) = a[VRange]
    BY SendRounds
  <1> DEFINE S == {n \in 0..VRange : Sends(d, a[n])}
  <1>2. 0 \in S
    BY <1>1 DEF Sends, Goes
  <1>3. ASSUME NEW n \in 0..(VRange - 1), n \in S PROVE n + 1 \in S
    <2>1. n + 1 \in 1..VRange /\ n + 1 - 1 = n /\ n + 1 \in 0..VRange
      OBVIOUS
    <2>2. a[n + 1] = SendOne(a[n])
      BY <1>1, <2>1
    <2>3. Sends(a[n], a[n + 1]) /\ Sends(d, a[n])
      BY <1>3, <2>2, SendOneSends DEF Sends, Goes
    <2>4. Sends(d, a[n + 1])
      BY <2>3 DEF Sends, Goes
    <2> QED BY <2>1, <2>4
  <1>4. 0..VRange \subseteq S
    <2> HIDE DEF S
    <2> QED BY <1>2, <1>3, UpToAll
  <1>5. VRange \in S
    BY <1>4
  <1> QED BY <1>1, <1>5

-----------------------------------------------------------------------------
(* Primitives of layer 3.                                                  *)

\* What is acknowledged leaves the history; the rest of the link stays.
LEMMA AcknowledgeGoes ==
  ASSUME NEW d, Sound(d), NEW f
  PROVE  Goes(d, lapd_acknowledge(d, f)) /\ lapd_acknowledge(d, f).state = d.state
  <1>1. PICK hist, nr, t200, t203 :
          LET r == [d EXCEPT !.hist = hist, !.va = nr, !.t200 = t200, !.t203 = t203]
          IN lapd_acknowledge(d, f) \in {r, mdl_error(r)}
    BY DEF lapd_acknowledge
  <1> DEFINE r == [d EXCEPT !.hist = hist, !.va = nr, !.t200 = t200, !.t203 = t203]
  <1>2. Alike(d, r) /\ r.state = d.state
    BY DEF Alike, IsLink, Fields, Sound
  <1>3. mdl_error(r).state = r.state
    BY <1>2 DEF mdl_error, Up, Alike, IsLink, Fields
  <1> HIDE DEF r
  <1>4. Goes(d, r) /\ Goes(r, mdl_error(r))
    BY <1>2, AlikeGoes, SmallGo DEF Goes
  <1> QED BY <1>1, <1>2, <1>3, <1>4 DEF r, Goes

\* SABM and DISC go into the history, where lapd_send_resend finds them.
LEMMA CommandGoes ==
  ASSUME NEW d, Sound(d), NEW s \in States, NEW f, IsRec(f)
  PROVE  Goes(d, Command(d, s, f))
  <1> DEFINE x == lapd_dl_flush_hist(d)
             v == [p |-> f.p, more |-> FALSE]
             y == [x EXCEPT !.hist[0] = v, !.vs = 0, !.own_busy = FALSE, !.peer_busy = FALSE, !.retrans = 0]
             z == newstate(y, s)
  <1>1. Goes(d, x)
    BY SmallGo
  <1>2. Alike(x, y)
    <2> HIDE DEF x, v
    <2> QED BY <1>1 DEF Alike, IsLink, Fields, Sound, Goes
  <1>3. Command(d, s, f) = start_t200(Tx(z, f))
    BY DEF Command
  <1> HIDE DEF y
  <1>4. Goes(d, y) /\ Goes(y, z)
    BY <1>1, <1>2, AlikeGoes, SmallGo DEF Goes
  <1> HIDE DEF z
  <1>5. Goes(z, Tx(z, f)) /\ Goes(Tx(z, f), start_t200(Tx(z, f)))
    BY <1>4, TxGoes, SmallGo DEF Goes
  <1> QED BY <1>3, <1>4, <1>5 DEF Goes

\* DL-ESTABLISH: SABM.
LEMMA EstReqGoes ==
  ASSUME NEW d, Sound(d), NEW p
  PROVE  Goes(d, lapd_est_req(d, p)) /\ Goes(d, lapd_reestablish(d))
  <1> SUFFICES ASSUME NEW q PROVE Goes(d, lapd_est_req(d, q))
    BY DEF lapd_reestablish
  <1> DEFINE yes == TRUE
             f == Frame("SABM", yes, yes, q)
             x == lapd_dl_flush_send(d)
             y == [x EXCEPT !.rcv = Null]
  <1>1. Goes(d, x)
    BY SmallGo
  <1>2. Alike(x, y)
    <2> HIDE DEF x
    <2> QED BY <1>1 DEF Alike, IsLink, Fields, Sound, Goes
  <1>3. lapd_est_req(d, q) = Command(y, "SABM_SENT", f)
    BY DEF lapd_est_req
  <1>4. IsRec(f) /\ "SABM_SENT" \in States
    <2> HIDE DEF yes
    <2> QED BY FramesAre DEF States
  <1> HIDE DEF y, f
  <1>5. Goes(d, y)
    BY <1>1, <1>2, AlikeGoes DEF Goes
  <1> QED BY <1>3, <1>4, <1>5, CommandGoes DEF Goes

\* DL-SUSPEND stops the link; DL-RESUME and DL-RECONNECT send SABM.
LEMMA SuspResGo ==
  ASSUME NEW d, Sound(d), NEW m
  PROVE  Goes(d, lapd_susp_req(d)) /\ Goes(d, lapd_res_req(d, m))
  <1>1. Goes(d, lapd_susp_req(d))
    <2> DEFINE q == IF d.buf = Null THEN d.queue ELSE <<d.buf>> \o d.queue
               x == lapd_dl_flush_tx(d)
               y == [x EXCEPT !.queue = q, !.buf = Null, !.t200 = FALSE, !.t203 = FALSE]
    <2>1. Goes(d, x)
      BY SmallGo
    <2>2. Alike(x, y)
      <3> HIDE DEF x, q
      <3> QED BY <2>1 DEF Alike, IsLink, Fields, Sound, Goes
    <2>3. lapd_susp_req(d) = Up(y, Prim("SUSP_CONF"))
      BY DEF lapd_susp_req
    <2> HIDE DEF y
    <2>4. Goes(d, y)
      BY <2>1, <2>2, AlikeGoes DEF Goes
    <2>5. Goes(y, Up(y, Prim("SUSP_CONF")))
      BY <2>4, SmallGo DEF Goes
    <2> QED BY <2>3, <2>4, <2>5 DEF Goes
  <1>2. Goes(d, lapd_res_req(d, m))
    <2> DEFINE b == IF m = <<>> THEN Null ELSE m
               y == [d EXCEPT !.buf = b, !.sent = 0, !.rcv = Null]
               yes == TRUE
               none == <<>>
               f == Frame("SABM", yes, yes, none)
    <2>1. Alike(d, y)
      <3> HIDE DEF b
      <3> QED BY DEF Alike, IsLink, Fields, Sound
    <2>2. lapd_res_req(d, m) = Command(y, "SABM_SENT", f)
      BY DEF lapd_res_req
    <2>3. IsRec(f) /\ "SABM_SENT" \in States
      <3> HIDE DEF yes, none
      <3> QED BY FramesAre DEF States
    <2> HIDE DEF y, f
    <2>4. Goes(d, y)
      BY <2>1, AlikeGoes
    <2> QED BY <2>2, <2>3, <2>4, CommandGoes DEF Goes
  <1> QED BY <1>1, <1>2

\* DL-DATA goes through the window, DL-UNIT-DATA past it.
LEMMA DataGoes ==
  ASSUME NEW d, Sound(d), NEW m, VRange \in Nat
  PROVE  Goes(d, lapd_data_req(d, m)) /\ Goes(d, lapd_udata_req(d, m))
  <1>1. Goes(d, lapd_data_req(d, m))
    <2> DEFINE q == Append(d.queue, m)
               y == [d EXCEPT !.queue = q]
    <2>1. Alike(d, y)
      <3> HIDE DEF q
      <3> QED BY DEF Alike, IsLink, Fields, Sound
    <2>2. lapd_data_req(d, m) \in {d, lapd_send_i(y)}
      BY DEF lapd_data_req
    <2> HIDE DEF y
    <2>3. Goes(d, y) /\ Goes(d, d)
      BY <2>1, AlikeGoes DEF Goes
    <2>4. Goes(y, lapd_send_i(y))
      BY <2>3, SendsI DEF Goes, Sends
    <2> QED BY <2>2, <2>3, <2>4 DEF Goes
  <1>2. Goes(d, lapd_udata_req(d, m))
    <2> DEFINE yes == TRUE
               no == FALSE
               f == Frame("UI", yes, no, m)
    <2>1. lapd_udata_req(d, m) = Tx(d, f)
      BY DEF lapd_udata_req
    <2>2. IsRec(f)
      <3> HIDE DEF yes, no
      <3> QED BY FramesAre
    <2> HIDE DEF f
    <2> QED BY <2>1, <2>2, TxGoes
  <1> QED BY <1>1, <1>2

\* DL-RELEASE: DISC, or the end at once.
LEMMA RelReqGoes ==
  ASSUME NEW d, Sound(d), NEW local
  PROVE  Goes(d, lapd_rel_req(d, local)) /\ Goes(d, lapd_rel_req_idle(d))
  <1> DEFINE yes == TRUE
             none == <<>>
             f == Frame("DISC", yes, yes, none)
             x == Released(stop_t200(d))
  <1>1. lapd_rel_req(d, local) \in {Up(x, Prim("REL_CONF")), d, Command(d, "DISC_SENT", f)}
    BY DEF lapd_rel_req
  <1>2. IsRec(f) /\ "DISC_SENT" \in States
    <2> HIDE DEF yes, none
    <2> QED BY FramesAre DEF States
  <1> HIDE DEF f
  <1>3. Goes(d, Command(d, "DISC_SENT", f))
    BY <1>2, CommandGoes
  <1>4. Goes(d, stop_t200(d)) /\ Goes(stop_t200(d), x)
    BY SmallGo DEF Goes
  <1> HIDE DEF x
  <1>5. Goes(x, Up(x, Prim("REL_CONF"))) /\ Goes(d, Up(d, Prim("REL_CONF"))) /\ Goes(d, d)
    BY <1>4, SmallGo DEF Goes
  <1> QED BY <1>1, <1>3, <1>4, <1>5 DEF Goes, lapd_rel_req_idle

\* The primitives of layer 3.
Prims == {"UDATA", "EST", "DATA", "SUSP", "RES", "RECON", "REL"}

\* No primitive changes V(R) or sends a frame without a channel.
LEMMA DlsapGoes ==
  ASSUME NEW d, Sound(d), NEW prim \in Prims, NEW m, VRange \in Nat
  PROVE  Goes(d, lapd_recv_dlsap(d, prim, m))
  <1> DEFINE local == m = <<"local">>
  <1>1. lapd_recv_dlsap(d, prim, m) \in
          {d, lapd_udata_req(d, m), lapd_est_req(d, m), lapd_data_req(d, m), lapd_susp_req(d),
           lapd_res_req(d, m), lapd_rel_req_idle(d), lapd_rel_req(d, local)}
    BY DEF lapd_recv_dlsap, Prims
  <1> HIDE DEF local
  <1>2. Goes(d, d)
    BY DEF Goes
  <1> QED BY <1>1, <1>2, EstReqGoes, SuspResGo, DataGoes, RelReqGoes

-----------------------------------------------------------------------------
(* Timers.                                                                 *)

\* Timer recovery: the last I frame again, or an enquiry, or the end.
LEMMA RecoverGoes ==
  ASSUME NEW d, Sound(d)
  PROVE  Goes(d, Recover(d))
  <1> DEFINE n == d.retrans + 1
             x == [d EXCEPT !.retrans = n]
             vs == sub_mod(x.vs, 1)
             h == x.hist[Slot(vs)]
             yes == TRUE
             f == IFrame(vs, x.vr, yes, h)
             e == mdl_error(x)
  <1>1. Alike(d, x)
    <2> HIDE DEF n
    <2> QED BY DEF Alike, IsLink, Fields, Sound
  <1>2. Recover(d) \in {start_t200(y) : y \in {Tx(x, f), send_rnr(x, yes, yes), send_rr(x, yes, yes), x}}
                       \cup {e, lapd_reestablish(e)}
    BY DEF Recover
  <1> HIDE DEF yes, h, vs
  <1>3. IsRec(f)
    <2> HIDE DEF x
    <2> QED BY FramesAre
  <1> HIDE DEF x, f
  <1>4. Goes(d, x) /\ Goes(x, x)
    BY <1>1, AlikeGoes DEF Goes
  <1>5. Goes(x, Tx(x, f)) /\ Goes(x, send_rnr(x, yes, yes)) /\ Goes(x, send_rr(x, yes, yes)) /\ Goes(x, e)
    <2>1. Sound(x)
      BY <1>4 DEF Goes
    <2>2. Goes(x, Tx(x, f))
      BY <1>3, <2>1, TxGoes
    <2>3. Goes(x, send_rnr(x, yes, yes)) /\ Goes(x, send_rr(x, yes, yes))
      BY <2>1, AnswersGo
    <2> QED BY <2>1, <2>2, <2>3, SmallGo
  <1> HIDE DEF e
  <1>6. Goes(e, lapd_reestablish(e))
    BY <1>5, EstReqGoes DEF Goes
  <1>7. \A y : Sound(y) => Goes(y, start_t200(y))
    BY SmallGo
  <1> QED BY <1>2, <1>4, <1>5, <1>6, <1>7 DEF Goes

\* SABM or DISC goes out once more, or is given up.
LEMMA RetryGoes ==
  ASSUME NEW d, Sound(d), NEW prim
  PROVE  Goes(d, RetryCommand(d, prim))
  <1> DEFINE yes == TRUE
             t == IF d.state = "SABM_SENT" THEN "SABM" ELSE "DISC"
             p == d.hist[Slot(d.vs)].p
             f == Frame(t, yes, yes, p)
             x == Tx(d, f)
             n == x.retrans + 1
             y == [x EXCEPT !.retrans = n]
             u == Up(d, Prim(prim))
  <1>1. RetryCommand(d, prim) \in {Released(mdl_error(u)), start_t200(y)}
    BY DEF RetryCommand, lapd_send_resend
  <1>2. IsRec(f)
    <2> HIDE DEF yes, t, p
    <2> QED BY FramesAre
  <1> HIDE DEF f
  <1>3. Goes(d, x)
    BY <1>2, TxGoes
  <1> HIDE DEF x
  <1>4. Alike(x, y)
    <2> HIDE DEF n
    <2> QED BY <1>3 DEF Alike, IsLink, Fields, Sound, Goes
  <1> HIDE DEF y
  <1>5. Goes(x, y) /\ Goes(y, start_t200(y))
    BY <1>3, <1>4, AlikeGoes, SmallGo DEF Goes
  <1>6. Goes(d, u)
    BY SmallGo
  <1> HIDE DEF u
  <1>7. Goes(u, mdl_error(u)) /\ Goes(mdl_error(u), Released(mdl_error(u)))
    BY <1>6, SmallGo DEF Goes
  <1> QED BY <1>1, <1>3, <1>5, <1>6, <1>7 DEF Goes

\* T200 expires, in any state.
LEMMA T200Goes ==
  ASSUME NEW d, Sound(d)
  PROVE  Goes(d, lapd_t200_cb(d))
  <1> DEFINE x == stop_t200(d)
             y == [x EXCEPT !.retrans = 0]
             z == newstate(y, "TIMER_RECOV")
  <1>1. lapd_t200_cb(d) \in {RetryCommand(x, "REL_IND"), RetryCommand(x, "REL_CONF"), Recover(z), Recover(x), x}
    BY DEF lapd_t200_cb
  <1>2. Goes(d, x)
    BY SmallGo
  <1> HIDE DEF x
  <1>3. Alike(x, y) /\ "TIMER_RECOV" \in States
    BY <1>2 DEF Alike, IsLink, Fields, Sound, Goes, States
  <1> HIDE DEF y
  <1>4. Goes(x, y) /\ Goes(y, z)
    BY <1>2, <1>3, AlikeGoes, SmallGo DEF Goes
  <1> HIDE DEF z
  <1>5. /\ Goes(x, RetryCommand(x, "REL_IND")) /\ Goes(x, RetryCommand(x, "REL_CONF"))
        /\ Goes(z, Recover(z)) /\ Goes(x, Recover(x))
    BY <1>2, <1>4, RetryGoes, RecoverGoes DEF Goes
  <1> QED BY <1>1, <1>2, <1>4, <1>5 DEF Goes

-----------------------------------------------------------------------------
(* Unnumbered and supervisory frames.                                      *)

\* The kinds of frames.
Kinds == {"SABM", "DM", "UI", "DISC", "UA", "FRMR", "RR", "RNR", "REJ", "I"}

\* SABM: a new link, or the three state variables stay.
LEMMA SabmGoes ==
  ASSUME NEW d, Sound(d), NEW f, VRange \in Nat \ {0}
  PROVE  LET e == rx_sabm(d, f)
         IN \/ Goes(d, e) /\ d.state # "IDLE"
            \/ Sound(e) /\ e.state = "MF_EST" /\ (d.state = "IDLE" \/ e.up = Append(d.up, Prim("EST_IND")))
  <1> DEFINE x == [d EXCEPT !.err = 0]
             ua == send_ua(x, f)
             dm == stop_t200(send_dm(x, f))
             me == mdl_error(x)
  <1>1. Goes(d, x)
    BY SmallGo
  <1>2. x.state = d.state /\ x.up = d.up
    BY DEF Sound, IsLink, Fields
  <1>3. /\ d.state = "IDLE" => rx_sabm(d, f) = Accept(x, f)
        /\ d.state = "MF_EST" /\ f.p = <<>> => rx_sabm(d, f) = Accept(x, f)
        /\ d.state # "IDLE" /\ ~(d.state = "MF_EST" /\ f.p = <<>>) =>
             rx_sabm(d, f) \in {me, x, ua, Up(dm, Prim("EST_IND")), send_ua(me, f)}
    BY <1>2 DEF rx_sabm
  <1> HIDE DEF x
  <1>4. Goes(x, ua) /\ Goes(x, send_dm(x, f)) /\ Goes(x, me)
    BY <1>1, AnswersGo, SmallGo DEF Goes
  <1>5. ua.up = x.up
    <2> DEFINE no == FALSE
               g == Frame("UA", no, f.pf, f.p)
    <2>1. ua = Tx(x, g)
      BY DEF send_ua
    <2>2. IsRec(g)
      <3> HIDE DEF no
      <3> QED BY FramesAre
    <2> HIDE DEF g
    <2>3. "up" \in Fields \ {"tx"} /\ Sound(x)
      BY <1>1 DEF Fields, Goes
    <2> QED BY <2>1, <2>2, <2>3, TxGoes
  <1>6. Goes(send_dm(x, f), dm)
    BY <1>4, SmallGo DEF Goes
  <1> HIDE DEF ua, me, dm
  <1>7. Goes(dm, Up(dm, Prim("EST_IND"))) /\ Goes(me, send_ua(me, f))
    BY <1>4, <1>6, AnswersGo, SmallGo DEF Goes
  <1>8. LET e == Accept(x, f) IN Sound(e) /\ e.state = "MF_EST" /\ e.up = Append(d.up, [prim |-> "EST_IND", p |-> f.p])
    <2> DEFINE h == lapd_dl_flush_hist(ua)
               w == [h EXCEPT !.vs = 0, !.vr = 0, !.va = 0]
               y == newstate(w, "MF_EST")
               c == IF x.mode = "network" /\ f.p # <<>> THEN f.p ELSE y.cont
               z == [y EXCEPT !.cont = c]
               u == [prim |-> "EST_IND", p |-> f.p]
    <2>1. Accept(x, f) = Up(z, u)
      BY DEF Accept, Establish, ua
    <2>2. Goes(ua, h) /\ h.up = ua.up
      BY <1>4, SmallGo DEF Goes, lapd_dl_flush_hist, Sound, IsLink, Fields
    <2> HIDE DEF h
    <2>3. IsLink(w) /\ w.state \in States /\ w.chan = h.chan /\ w.ta = h.ta /\ w.tx = h.tx /\ w.up = h.up /\ w.vr = 0
      BY <2>2 DEF Goes, Sound, IsLink, Fields
    <2> HIDE DEF w
    <2>4. Sound(w)
      BY <2>2, <2>3, Altered DEF Goes
    <2>5. "MF_EST" \in States
      BY DEF States
    <2>6. Sound(y) /\ y.state = "MF_EST" /\ y.up = w.up
      <3>1. Sound(y)
        BY <2>4, <2>5, SmallGo DEF Goes
      <3>2. y.state = "MF_EST" /\ y.up = w.up
        BY <2>3 DEF newstate, IsLink, Fields
      <3> QED BY <3>1, <3>2
    <2> HIDE DEF y, c
    <2>7. Alike(y, z) /\ z.state = y.state /\ z.up = y.up
      BY <2>6 DEF Alike, Sound, IsLink, Fields
    <2> HIDE DEF z, u
    <2>8. Sound(z)
      BY <2>6, <2>7, AlikeGoes DEF Goes
    <2>9. Sound(Up(z, u)) /\ Up(z, u).state = z.state /\ Up(z, u).up = Append(z.up, u)
      <3>1. Sound(Up(z, u))
        BY <2>8, SmallGo DEF Goes
      <3>2. Up(z, u).state = z.state /\ Up(z, u).up = Append(z.up, u)
        BY <2>8 DEF Up, Sound, IsLink, Fields
      <3> QED BY <3>1, <3>2
    <2> QED BY <1>2, <1>5, <2>1, <2>2, <2>3, <2>6, <2>7, <2>9 DEF u
  <1>9. f.p = <<>> => [prim |-> "EST_IND", p |-> f.p] = Prim("EST_IND")
    BY DEF Prim
  <1>10. Goes(d, x) /\ Goes(d, ua) /\ Goes(d, me) /\ Goes(d, Up(dm, Prim("EST_IND"))) /\ Goes(d, send_ua(me, f))
    BY <1>1, <1>4, <1>6, <1>7 DEF Goes
  <1> QED BY <1>3, <1>8, <1>9, <1>10

\* DM and DISC end the link, or are answered.
LEMMA DmDiscGo ==
  ASSUME NEW d, Sound(d), NEW f
  PROVE  /\ Goes(d, rx_dm(d, f)) /\ (d.state = "IDLE" => rx_dm(d, f) \in {d, mdl_error(d)})
         /\ Goes(d, rx_disc(d, f))
         /\ LET x == [lapd_dl_flush_send(lapd_dl_flush_tx(d)) EXCEPT !.err = 0]
            IN d.state = "IDLE" => rx_disc(d, f) = send_dm(x, f)
  <1>1. "IDLE" \in States
    BY DEF States
  <1>2. \A x, p : Sound(x) => Goes(x, Up(newstate(stop_t200(x), "IDLE"), p))
    <2> SUFFICES ASSUME NEW x, NEW p, Sound(x) PROVE Goes(x, Up(newstate(stop_t200(x), "IDLE"), p))
      OBVIOUS
    <2> DEFINE y == stop_t200(x)
               z == newstate(y, "IDLE")
    <2>1. Goes(x, y)
      BY SmallGo
    <2>2. Goes(y, z)
      BY <1>1, <2>1, SmallGo DEF Goes
    <2> HIDE DEF z
    <2>3. Goes(z, Up(z, p))
      BY <2>2, SmallGo DEF Goes
    <2> QED BY <2>1, <2>2, <2>3 DEF Goes, z
  <1>3. Goes(d, rx_dm(d, f)) /\ (d.state = "IDLE" => rx_dm(d, f) \in {d, mdl_error(d)})
    <2>1. /\ rx_dm(d, f) \in {d, mdl_error(d), Up(newstate(stop_t200(d), "IDLE"), Prim("REL_IND")),
                              Up(Released(stop_t200(d)), Prim("REL_CONF"))}
          /\ d.state = "IDLE" => rx_dm(d, f) \in {d, mdl_error(d)}
      BY DEF rx_dm
    <2>2. Goes(d, Up(Released(stop_t200(d)), Prim("REL_CONF"))) /\ Goes(d, mdl_error(d)) /\ Goes(d, d)
      BY SmallGo DEF Goes
    <2> QED BY <1>2, <2>1, <2>2
  <1> DEFINE y == lapd_dl_flush_send(lapd_dl_flush_tx(d))
             x == [y EXCEPT !.err = 0]
  <1>4. Goes(d, y) /\ y.state = d.state
    <2>1. Goes(d, y)
      BY SmallGo DEF Goes
    <2> QED BY <2>1 DEF lapd_dl_flush_send, lapd_dl_flush_tx, lapd_dl_flush_hist, Sound, IsLink, Fields
  <1>5. Goes(y, x) /\ x.state = y.state
    <2> HIDE DEF y
    <2>1. Goes(y, x)
      BY <1>4, SmallGo DEF Goes
    <2>2. x.state = y.state
      BY <1>4 DEF Goes, Sound, IsLink, Fields
    <2> QED BY <2>1, <2>2
  <1> DEFINE ua == send_ua(x, f)
             dm == send_dm(x, f)
  <1>6. /\ rx_disc(d, f) \in {dm, Up(newstate(stop_t200(dm), "IDLE"), Prim("REL_IND"))}
                             \cup {Up(newstate(stop_t200(ua), "IDLE"), Prim(p)) : p \in {"REL_IND", "REL_CONF"}}
        /\ d.state = "IDLE" => rx_disc(d, f) = dm
    <2>1. x.state \in States
      BY <1>5 DEF Goes, Sound
    <2>2. d.state = x.state
      BY <1>4, <1>5
    <2> QED BY <2>1, <2>2 DEF rx_disc, States, Estd
  <1> HIDE DEF x
  <1>7. Goes(d, x) /\ Goes(x, ua) /\ Goes(x, dm)
    BY <1>4, <1>5, AnswersGo DEF Goes
  <1>8. Goes(d, rx_disc(d, f))
    <2> HIDE DEF ua, dm
    <2> QED BY <1>2, <1>6, <1>7 DEF Goes
  <1> QED BY <1>3, <1>6, <1>8 DEF x

\* UA establishes a link that waits for it; UI goes to layer 3.
LEMMA UaUiGo ==
  ASSUME NEW d, Sound(d), NEW f, VRange \in Nat \ {0}
  PROVE  /\ Sound(rx_ua(d, f)) /\ (d.state # "SABM_SENT" => Goes(d, rx_ua(d, f)))
         /\ d.state = "IDLE" => rx_ua(d, f) = d
         /\ Goes(d, rx_ui(d, f)) /\ rx_ui(d, f) \in {d, Up(d, [prim |-> "UDATA_IND", p |-> f.p])}
  <1> DEFINE x == stop_t200(d)
             u == Up(x, Prim("REL_IND"))
             h == lapd_dl_flush_hist(x)
             w == [h EXCEPT !.vs = 0, !.vr = 0, !.va = 0]
             y == newstate(w, "MF_EST")
             z == lapd_send_i(y)
  <1>1. /\ rx_ua(d, f) \in {d, Released(u), Up(z, Prim("EST_CONF")), mdl_error(d), Up(Released(x), Prim("REL_CONF"))}
        /\ d.state # "SABM_SENT" => rx_ua(d, f) \in {d, mdl_error(d), Up(Released(x), Prim("REL_CONF"))}
        /\ d.state = "IDLE" => rx_ua(d, f) = d
    BY DEF rx_ua, Establish, Estd
  <1>2. Goes(d, d) /\ Goes(d, mdl_error(d)) /\ Goes(d, Up(Released(x), Prim("REL_CONF"))) /\ Goes(d, Released(u))
    <2>1. Goes(d, d) /\ Goes(d, mdl_error(d)) /\ Goes(d, x)
      BY SmallGo DEF Goes
    <2> HIDE DEF x
    <2>2. Goes(x, Released(x)) /\ Goes(x, u)
      BY <2>1, SmallGo DEF Goes
    <2>3. Goes(Released(x), Up(Released(x), Prim("REL_CONF")))
      BY <2>2, SmallGo DEF Goes
    <2> HIDE DEF u
    <2>4. Goes(u, Released(u))
      BY <2>2, SmallGo DEF Goes
    <2> QED BY <2>1, <2>2, <2>3, <2>4 DEF Goes
  <1>3. Sound(h)
    <2>1. Sound(x)
      BY SmallGo DEF Goes
    <2> HIDE DEF x
    <2> QED BY <2>1, SmallGo DEF Goes
  <1> HIDE DEF h
  <1>4. IsLink(w) /\ w.state \in States /\ w.chan = h.chan /\ w.ta = h.ta /\ w.tx = h.tx /\ w.vr = 0
    BY <1>3 DEF Sound, IsLink, Fields
  <1> HIDE DEF w
  <1>5. Sound(w) /\ "MF_EST" \in States
    BY <1>3, <1>4, Altered DEF States
  <1>6. Sound(y)
    BY <1>5, SmallGo DEF Goes
  <1> HIDE DEF y
  <1>7. Sound(z)
    BY <1>6, SendsI DEF Sends, Goes
  <1> HIDE DEF z
  <1>8. Sound(Up(z, Prim("EST_CONF")))
    BY <1>7, SmallGo DEF Goes
  <1>9. Goes(d, rx_ui(d, f)) /\ rx_ui(d, f) \in {d, Up(d, [prim |-> "UDATA_IND", p |-> f.p])}
    BY <1>2, SmallGo DEF rx_ui
  <1> HIDE DEF u, x
  <1> QED BY <1>1, <1>2, <1>8, <1>9 DEF Goes

\* RR, RNR and REJ, in a state with numbers.
LEMMA NumberedGo ==
  ASSUME NEW d, Sound(d), NEW f, VRange \in Nat
  PROVE  Goes(d, rx_rr(d, f)) /\ Goes(d, rx_rnr(d, f)) /\ Goes(d, rx_rej(d, f))
  <1> DEFINE a == lapd_acknowledge(d, f)
             yes == TRUE
             no == FALSE
  <1>1. Goes(d, a)
    BY AcknowledgeGoes
  <1>2. "MF_EST" \in States
    BY DEF States
  <1>3. \A x, v, p : Sound(x) => Goes(x, [x EXCEPT !.vs = v]) /\ Goes(x, [x EXCEPT !.peer_busy = p])
    <2> SUFFICES ASSUME NEW x, NEW v, NEW p, Sound(x)
                 PROVE  Alike(x, [x EXCEPT !.vs = v]) /\ Alike(x, [x EXCEPT !.peer_busy = p])
      BY AlikeGoes
    <2> QED BY DEF Alike, Sound, IsLink, Fields
  <1>4. \A x : Sound(x) => /\ Goes(x, stop_t200(x)) /\ Goes(x, newstate(x, "MF_EST")) /\ Goes(x, mdl_error(x))
                           /\ Goes(x, send_rr(x, yes, no)) /\ Goes(x, send_rnr(x, yes, no)) /\ Goes(x, x)
    <2> HIDE DEF yes, no
    <2> QED BY <1>2, SmallGo, AnswersGo DEF Goes
  <1>5. \A x : Sound(x) => Goes(x, Answer(x))
    <2>1. \A x : Answer(x) \in {send_rnr(x, yes, no), send_rr(x, yes, no), x}
      BY DEF Answer
    <2> HIDE DEF yes, no
    <2> QED BY <1>4, <2>1
  <1>6. \A x : Sound(x) => Goes(x, lapd_send_i(x))
    BY SendsI DEF Sends
  <1>7. Goes(d, rx_rr(d, f))
    <2> DEFINE v == [a EXCEPT !.vs = f.nr]
    <2>1. rx_rr(d, f) \in {lapd_send_i(x) : x \in {Answer(a), newstate(stop_t200(v), "MF_EST"), a}}
      BY DEF rx_rr
    <2>2. Goes(a, v)
      BY <1>1, <1>3 DEF Goes
    <2> HIDE DEF v, a
    <2>3. Goes(v, newstate(stop_t200(v), "MF_EST")) /\ Goes(a, Answer(a))
      BY <1>1, <1>4, <1>5, <2>2 DEF Goes
    <2> QED BY <1>1, <1>6, <2>1, <2>2, <2>3 DEF Goes
  <1>8. Goes(d, rx_rnr(d, f))
    <2> DEFINE b == [a EXCEPT !.peer_busy = TRUE]
               c == newstate(b, "MF_EST")
               v == [c EXCEPT !.vs = f.nr]
    <2>1. rx_rnr(d, f) \in {lapd_send_i(x) : x \in {send_rnr(b, yes, no), send_rr(b, yes, no), v, b}}
      BY DEF rx_rnr
    <2>2. Goes(a, b)
      BY <1>1, <1>3 DEF Goes
    <2> HIDE DEF b, a, yes, no
    <2>3. Goes(b, c) /\ Goes(b, send_rnr(b, yes, no)) /\ Goes(b, send_rr(b, yes, no))
      BY <1>4, <2>2 DEF Goes
    <2> HIDE DEF c
    <2>4. Goes(c, v)
      BY <1>3, <2>3 DEF Goes
    <2> HIDE DEF v
    <2> QED BY <1>1, <1>6, <2>1, <2>2, <2>3, <2>4 DEF Goes
  <1>9. Goes(d, rx_rej(d, f))
    <2> DEFINE b == [a EXCEPT !.peer_busy = FALSE, !.vs = f.nr, !.va = f.nr]
               s == stop_t200(b)
    <2>1. rx_rej(d, f) \in {lapd_send_i(x) : x \in {newstate(s, "MF_EST"), Answer(b), b, Answer(s), mdl_error(s), s}}
      BY DEF rx_rej
    <2>2. Alike(a, b)
      <3> HIDE DEF a
      <3> QED BY <1>1 DEF Goes, Alike, Sound, IsLink, Fields
    <2>3. Goes(a, b)
      BY <1>1, <2>2, AlikeGoes DEF Goes
    <2> HIDE DEF b, a
    <2>4. Goes(b, s) /\ Goes(b, Answer(b))
      BY <1>4, <1>5, <2>3 DEF Goes
    <2> HIDE DEF s
    <2>5. Goes(s, newstate(s, "MF_EST")) /\ Goes(s, Answer(s)) /\ Goes(s, mdl_error(s))
      BY <1>4, <1>5, <2>4 DEF Goes
    <2> QED BY <1>1, <1>6, <2>1, <2>3, <2>4, <2>5 DEF Goes
  <1> QED BY <1>7, <1>8, <1>9

\* FRMR, and frames that are refused.
LEMMA RefusedGoes ==
  ASSUME NEW d, Sound(d), NEW f
  PROVE  Goes(d, rx_frmr(d)) /\ Goes(d, Refused(d, f))
  <1>1. Goes(d, rx_frmr(d))
    <2> DEFINE e == mdl_error(d)
    <2>1. rx_frmr(d) \in {e, lapd_reestablish(e)}
      BY DEF rx_frmr
    <2>2. Goes(d, e)
      BY SmallGo
    <2> HIDE DEF e
    <2>3. Goes(e, lapd_reestablish(e))
      BY <2>2, EstReqGoes DEF Goes
    <2> QED BY <2>1, <2>2, <2>3 DEF Goes
  <1>2. Goes(d, Refused(d, f))
    <2> DEFINE h == lapd_dl_flush_tx(d)
               y == lapd_dl_flush_send(h)
               x == [y EXCEPT !.err = 0]
               z == [d EXCEPT !.err = 0]
    <2>1. Refused(d, f) \in {mdl_error(z), mdl_error(x), mdl_error(d)}
      BY DEF Refused
    <2>2. Goes(d, z) /\ Goes(d, mdl_error(d)) /\ Goes(d, h)
      BY SmallGo
    <2> HIDE DEF z, h
    <2>3. Goes(z, mdl_error(z)) /\ Goes(h, y)
      BY <2>2, SmallGo DEF Goes
    <2> HIDE DEF y
    <2>4. Goes(y, x)
      BY <2>3, SmallGo DEF Goes
    <2> HIDE DEF x
    <2>5. Goes(x, mdl_error(x))
      BY <2>4, SmallGo DEF Goes
    <2> QED BY <2>1, <2>2, <2>3, <2>4, <2>5 DEF Goes
  <1> QED BY <1>1, <1>2

\* Supervisory frames, in any state.
LEMMA SupervisoryGo ==
  ASSUME NEW d, Sound(d), NEW f, f.t \in {"RR", "RNR", "REJ"}, VRange \in Nat
  PROVE  Goes(d, lapd_rx_s(d, f))
  <1> DEFINE x == IF ~f.cmd /\ f.pf /\ d.state # "TIMER_RECOV" THEN mdl_error(d) ELSE d
  <1>1. Goes(d, x)
    BY SmallGo DEF Goes
  <1>2. lapd_rx_s(d, f) \in {send_dm(x, f), x, rx_rr(x, f), rx_rnr(x, f), rx_rej(x, f)}
    <2>1. x.state \in States
      BY <1>1 DEF Goes, Sound
    <2> QED BY <2>1 DEF lapd_rx_s, States, Estd
  <1> HIDE DEF x
  <1>3. Goes(x, x) /\ Goes(x, send_dm(x, f))
    BY <1>1, AnswersGo DEF Goes
  <1>4. Goes(x, rx_rr(x, f)) /\ Goes(x, rx_rnr(x, f)) /\ Goes(x, rx_rej(x, f))
    BY <1>1, NumberedGo DEF Goes
  <1> QED BY <1>1, <1>2, <1>3, <1>4 DEF Goes

-----------------------------------------------------------------------------
(* I frames.                                                               *)

\* A payload is kept or goes to layer 3.
LEMMA ReassembleGoes ==
  ASSUME NEW d, Sound(d), NEW f
  PROVE  Goes(d, Reassemble(d, f)) /\ Reassemble(d, f).state = d.state
  <1>1. PICK all, u : Reassemble(d, f) \in {[d EXCEPT !.rcv = all], Up([d EXCEPT !.rcv = Null], u)}
    BY DEF Reassemble
  <1>2. \A v : LET x == [d EXCEPT !.rcv = v] IN Alike(d, x) /\ x.state = d.state
    BY DEF Alike, Sound, IsLink, Fields
  <1> DEFINE x == [d EXCEPT !.rcv = all]
             y == [d EXCEPT !.rcv = Null]
  <1>3. Goes(d, x) /\ Goes(d, y) /\ x.state = d.state /\ y.state = d.state
    BY <1>2, AlikeGoes
  <1> HIDE DEF x, y
  <1>4. Goes(y, Up(y, u)) /\ Up(y, u).state = y.state
    <2>1. Goes(y, Up(y, u))
      BY <1>3, SmallGo DEF Goes
    <2>2. Up(y, u).state = y.state
      BY <1>3 DEF Up, Goes, Sound, IsLink, Fields
    <2> QED BY <2>1, <2>2
  <1>5. Reassemble(d, f) \in {x, Up(y, u)}
    BY <1>1 DEF x, y
  <1> QED BY <1>3, <1>4, <1>5 DEF Goes

\* A frame out of sequence.
LEMMA SequenceErrorGoes ==
  ASSUME NEW d, Sound(d), NEW f, VRange \in Nat
  PROVE  Goes(d, SequenceError(d, f))
  <1> DEFINE x == [d EXCEPT !.err = 1]
             y == [d EXCEPT !.err = 2]
             r == IF d.err # 1 THEN send_rej(x, f.pf) ELSE y
             a == lapd_acknowledge(r, f)
  <1>1. SequenceError(d, f) = lapd_send_i(a)
    BY DEF SequenceError
  <1>2. Goes(d, x) /\ Goes(d, y)
    BY SmallGo
  <1> HIDE DEF x, y
  <1>3. Goes(d, r)
    BY <1>2, AnswersGo DEF Goes
  <1> HIDE DEF r
  <1>4. Goes(r, a)
    BY <1>3, AcknowledgeGoes DEF Goes
  <1> HIDE DEF a
  <1>5. Goes(a, lapd_send_i(a))
    BY <1>4, SendsI DEF Goes, Sends
  <1> QED BY <1>1, <1>3, <1>4, <1>5 DEF Goes

\* An I frame that waits takes the acknowledgement along.
LEMMA PendingGoes ==
  ASSUME NEW d, Sound(d)
  PROVE  /\ Goes(d, update_pending_frames(d))
         /\ ~Acch /\ Waiting(d) => Answered(d, update_pending_frames(d))
  <1> DEFINE G(f) == IF IsI(f) THEN SetNr(f, d.vr) ELSE f
             t == d.tx
             q == [i \in DOMAIN t |-> G(t[i])]
             S == {G(f) : f \in Queued(d)}
             e == [d EXCEPT !.tx = q]
  <1>1. update_pending_frames(d) = e
    BY DEF update_pending_frames
  <1>2. \A f : IsFrame(f) => IsFrame(G(f))
    BY DEF IsFrame, FrameFields, SetNr
  <1>3. \A f : IsFrame(f) /\ ~Acch /\ IsI(f) => G(f).t = "I" /\ G(f).nr = d.vr
    BY DEF IsFrame, FrameFields, SetNr, IsI
  <1>4. t \in Seq(Queued(d)) /\ Queued(d) = {t[i] : i \in DOMAIN t} /\ \A f \in Queued(d) : IsFrame(f)
    BY DEF Sound, Queued
  <1>5. IsLink(e) /\ e.tx = q /\ e.state = d.state /\ e.chan = d.chan /\ e.ta = d.ta /\ e.vr = d.vr
    <2> HIDE DEF q
    <2> QED BY DEF Sound, IsLink, Fields
  <1> HIDE DEF G, t
  <1>6. q \in Seq(S)
    <2>1. DOMAIN t = 1..Len(t) /\ Len(t) \in Nat /\ \A i \in 1..Len(t) : G(t[i]) \in S
      BY <1>4
    <2> HIDE DEF S
    <2> QED BY <2>1
  <1>7. \A f \in S : IsFrame(f)
    BY <1>2, <1>4
  <1>8. \A i \in DOMAIN t : G(t[i]) \in {q[j] : j \in DOMAIN q}
    OBVIOUS
  <1> HIDE DEF q, S
  <1>9. q \in Seq({q[i] : i \in DOMAIN q}) /\ \A f \in {q[i] : i \in DOMAIN q} : IsFrame(f)
    BY <1>6, <1>7, QueueSound
  <1> HIDE DEF e
  <1>10. Queued(e) = {q[i] : i \in DOMAIN q}
    BY <1>5 DEF Queued
  <1>11. Goes(d, e)
    BY <1>5, <1>9, <1>10 DEF Goes, Sound
  <1>12. ASSUME ~Acch, Waiting(d) PROVE Answered(d, e)
    <2>1. PICK i \in DOMAIN t : IsI(t[i])
      BY <1>12 DEF Waiting, t
    <2>2. G(t[i]) \in Queued(e) /\ G(t[i]).t = "I" /\ G(t[i]).nr = d.vr
      BY <1>3, <1>4, <1>8, <1>10, <1>12, <2>1
    <2> QED BY <2>2 DEF Answered, Numbered
  <1> QED BY <1>1, <1>11, <1>12

\* A frame in sequence is acknowledged, unless the octet that is changed is the
\* timing advance of an ACCH.
LEMMA IFrameTaken ==
  ASSUME NEW d, Sound(d), NEW f, f.pf \in BOOLEAN, VRange \in Nat \ {0}
  PROVE  LET e == lapd_rx_i(d, f) IN Goes(d, e) \/ (Sound(e) /\ (~Acch => Answered(e, e)))
  <1> DEFINE v == inc_mod(d.vr)
             x == [d EXCEPT !.err = 0, !.vr = v]
             a == lapd_acknowledge(x, f)
             b == IF a.own_busy THEN a ELSE Reassemble(a, f)
             c == lapd_send_i(b)
             yes == TRUE
             no == FALSE
             rnr == send_rnr(b, f.pf, no)
             rr == send_rr(b, yes, no)
  <1>1. lapd_rx_i(d, f) \in {send_dm(d, f), d, SequenceError(d, f), lapd_send_i(rnr), lapd_send_i(rr)}
        \/ (c.vs # b.vs /\ lapd_rx_i(d, f) = c)
        \/ (Waiting(c) /\ lapd_rx_i(d, f) = update_pending_frames(c))
        \/ lapd_rx_i(d, f) = send_rr(c, no, no)
    <2>1. d.state \in States
      BY DEF Sound
    <2> QED BY <2>1 DEF lapd_rx_i, States, Estd
  <1>2. Goes(d, send_dm(d, f)) /\ Goes(d, d) /\ Goes(d, SequenceError(d, f))
    BY AnswersGo, SequenceErrorGoes DEF Goes
  <1>3. Sound(x)
    <2>2. v \in 0..(VRange - 1)
      BY DEF inc_mod, Sound
    <2> HIDE DEF v
    <2>1. IsLink(x) /\ x.state \in States /\ x.vr = v /\ x.chan = d.chan /\ x.ta = d.ta /\ x.tx = d.tx
      BY DEF Sound, IsLink, Fields
    <2> HIDE DEF x
    <2> QED BY <2>1, <2>2, Altered
  <1> HIDE DEF x
  <1>4. Sound(a)
    BY <1>3, AcknowledgeGoes DEF Goes
  <1> HIDE DEF a
  <1>5. Sound(b)
    BY <1>4, ReassembleGoes DEF Goes
  <1> HIDE DEF b, yes, no
  <1>6. Sound(rnr) /\ rnr.vr = b.vr /\ Answered(b, rnr) /\ Sound(rr) /\ rr.vr = b.vr /\ Answered(b, rr)
    BY <1>5, AnswersGo DEF Goes
  <1> HIDE DEF rnr, rr
  <1>7. ASSUME NEW r, Sound(r), r.vr = b.vr, Answered(b, r)
        PROVE  Sound(lapd_send_i(r)) /\ Answered(lapd_send_i(r), lapd_send_i(r))
    <2>1. Sends(r, lapd_send_i(r))
      BY <1>7, SendsI
    <2> QED BY <1>7, <2>1 DEF Sends, Goes, Answered
  <1>8. Sends(b, c)
    BY <1>5, SendsI
  <1> HIDE DEF c
  <1>9. Sound(c) /\ c.vr = b.vr
    BY <1>8 DEF Sends, Goes
  <1>10. c.vs # b.vs => Answered(c, c)
    BY <1>8, <1>9 DEF Sends, Answered, Numbered
  <1>11. LET u == update_pending_frames(c) IN Sound(u) /\ (~Acch /\ Waiting(c) => Answered(u, u))
    BY <1>9, PendingGoes DEF Goes, Answered
  <1>12. LET u == send_rr(c, no, no) IN Sound(u) /\ Answered(u, u)
    BY <1>9, AnswersGo DEF Goes, Answered
  <1> QED BY <1>1, <1>2, <1>6, <1>7, <1>9, <1>10, <1>11, <1>12

-----------------------------------------------------------------------------
(* Any frame.                                                              *)

\* A frame changes V(R) only when it is an I frame in sequence, which is
\* acknowledged, or when it establishes the link.
LEMMA FrameTaken ==
  ASSUME NEW d, Sound(d), NEW f, f.t \in Kinds, f.pf \in BOOLEAN, VRange \in Nat \ {0}
  PROVE  LET e == lapd_ph_data_ind(d, f)
         IN /\ Sound(e)
            /\ \/ e.vr = d.vr
               \/ d.state \notin Estd
               \/ e.up = Append(d.up, Prim("EST_IND"))
               \/ ~Acch => Answered(e, e)
  <1> DEFINE e == lapd_ph_data_ind(d, f)
  <1>1. \/ e \in {Refused(d, f), rx_dm(d, f), rx_ui(d, f), rx_disc(d, f), rx_frmr(d)}
        \/ e = rx_sabm(d, f)
        \/ e = rx_ua(d, f)
        \/ f.t \in {"RR", "RNR", "REJ"} /\ e = lapd_rx_s(d, f)
        \/ e = lapd_rx_i(d, f)
    BY DEF lapd_ph_data_ind, lapd_rx_u, Kinds
  <1> HIDE DEF e
  <1>2. CASE e \in {Refused(d, f), rx_dm(d, f), rx_ui(d, f), rx_disc(d, f), rx_frmr(d)}
    <2>1. Goes(d, e)
      BY <1>2, RefusedGoes, DmDiscGo, UaUiGo
    <2> QED BY <2>1 DEF Goes, e
  <1>3. CASE e = rx_sabm(d, f)
    <2>1. \/ Goes(d, e)
          \/ Sound(e) /\ (d.state = "IDLE" \/ e.up = Append(d.up, Prim("EST_IND")))
      BY <1>3, SabmGoes
    <2> QED BY <2>1 DEF Goes, Estd, e
  <1>4. CASE e = rx_ua(d, f)
    <2>1. Sound(e) /\ (d.state # "SABM_SENT" => Goes(d, e))
      BY <1>4, UaUiGo
    <2> QED BY <2>1 DEF Goes, Estd, e
  <1>5. CASE f.t \in {"RR", "RNR", "REJ"} /\ e = lapd_rx_s(d, f)
    BY <1>5, SupervisoryGo DEF Goes, e
  <1>6. CASE e = lapd_rx_i(d, f)
    <2>1. Goes(d, e) \/ (Sound(e) /\ (~Acch => Answered(e, e)))
      BY <1>6, IFrameTaken
    <2> QED BY <2>1 DEF Goes, e
  <1> QED BY <1>1, <1>2, <1>3, <1>4, <1>5, <1>6

\* An idle link without T200.
Still(d) == d.state = "IDLE" /\ d.t200 = FALSE

\* Errors, DM and indications leave an idle link idle.
LEMMA StillGoes ==
  ASSUME NEW d, Sound(d), Still(d), NEW f
  PROVE  Still(mdl_error(d)) /\ Still(send_dm(d, f)) /\ \A u : Still(Up(d, u))
  <1> DEFINE no == FALSE
             none == <<>>
             g == Frame("DM", no, f.pf, none)
  <1>1. send_dm(d, f) = Tx(d, g)
    BY DEF send_dm
  <1>2. IsRec(g)
    <2> HIDE DEF no, none
    <2> QED BY FramesAre
  <1> HIDE DEF g
  <1>3. "state" \in Fields \ {"tx"} /\ "t200" \in Fields \ {"tx"}
    BY DEF Fields
  <1>4. Tx(d, g).state = d.state /\ Tx(d, g).t200 = d.t200
    BY <1>2, <1>3, TxGoes
  <1>5. \A u : Up(d, u).state = d.state /\ Up(d, u).t200 = d.t200
    BY DEF Up, Sound, IsLink, Fields
  <1> QED BY <1>1, <1>4, <1>5 DEF Still, mdl_error

\* A frame for an idle link establishes it or leaves it idle, without
\* re-establishment, which LAPDm does not use.
LEMMA FrameIdle ==
  ASSUME NEW d, Sound(d), Still(d), NEW f, f.t \in Kinds, f.pf \in BOOLEAN, VRange \in Nat \ {0}, ~Reestablish
  PROVE  LET e == lapd_ph_data_ind(d, f) IN Still(e) \/ e.state = "MF_EST"
  <1> DEFINE e == lapd_ph_data_ind(d, f)
             x == [d EXCEPT !.err = 0]
             h == lapd_dl_flush_send(lapd_dl_flush_tx(d))
             y == [h EXCEPT !.err = 0]
             m == mdl_error(d)
  <1>1. d.state = "IDLE"
    BY DEF Still
  <1>2. Sound(x) /\ Still(x)
    <2>1. Sound(x)
      BY SmallGo DEF Goes
    <2>2. x.state = d.state /\ x.t200 = d.t200
      BY DEF Sound, IsLink, Fields
    <2> QED BY <2>1, <2>2 DEF Still
  <1>3. Sound(y) /\ Still(y)
    <2>1. Sound(h)
      <3>1. Sound(lapd_dl_flush_tx(d))
        BY SmallGo DEF Goes
      <3> QED BY <3>1, SmallGo DEF Goes
    <2>2. h.state = d.state /\ h.t200 = d.t200
      BY DEF lapd_dl_flush_send, lapd_dl_flush_tx, lapd_dl_flush_hist, Sound, IsLink, Fields
    <2> HIDE DEF h
    <2>3. Sound(y)
      BY <2>1, SmallGo DEF Goes
    <2>4. y.state = h.state /\ y.t200 = h.t200
      BY <2>1 DEF Sound, IsLink, Fields
    <2> QED BY <2>2, <2>3, <2>4 DEF Still
  <1>4. Still(mdl_error(x)) /\ Still(mdl_error(y)) /\ Still(m) /\ Still(send_dm(d, f)) /\ Still(send_dm(y, f))
        /\ Still(Up(d, [prim |-> "UDATA_IND", p |-> f.p]))
    BY <1>2, <1>3, StillGoes
  <1>5. \/ e \in {mdl_error(x), mdl_error(y), mdl_error(d)}
        \/ e = rx_sabm(d, f)
        \/ e \in {rx_dm(d, f), rx_ui(d, f), rx_disc(d, f), rx_ua(d, f), rx_frmr(d)}
        \/ e \in {send_dm(m, f), m, send_dm(d, f), d}
    <2>1. \/ e = Refused(d, f) \/ e = rx_sabm(d, f)
          \/ e \in {rx_dm(d, f), rx_ui(d, f), rx_disc(d, f), rx_ua(d, f), rx_frmr(d)}
          \/ e \in {lapd_rx_s(d, f), lapd_rx_i(d, f)}
      BY DEF lapd_ph_data_ind, lapd_rx_u, Kinds
    <2>2. Refused(d, f) \in {mdl_error(x), mdl_error(y), mdl_error(d)}
      BY DEF Refused
    <2>3. lapd_rx_i(d, f) \in {send_dm(d, f), d}
      BY <1>1 DEF lapd_rx_i, Estd
    <2>4. lapd_rx_s(d, f) \in {send_dm(m, f), m, send_dm(d, f), d}
      <3>1. m.state = "IDLE"
        BY <1>4 DEF Still
      <3> HIDE DEF m
      <3>2. mdl_error(d) = m
        BY DEF m
      <3> QED BY <1>1, <3>1, <3>2 DEF lapd_rx_s, Estd
    <2> QED BY <2>1, <2>2, <2>3, <2>4
  <1> HIDE DEF e
  <1>6. Still(send_dm(m, f))
    <2>1. Sound(m)
      BY SmallGo DEF Goes
    <2> QED BY <1>4, <2>1, StillGoes
  <1>7. e = rx_sabm(d, f) => e.state = "MF_EST"
    BY <1>1, SabmGoes
  <1>8. Still(rx_dm(d, f)) /\ Still(rx_ui(d, f)) /\ Still(rx_ua(d, f)) /\ Still(rx_frmr(d)) /\ Still(rx_disc(d, f))
    <2>1. rx_dm(d, f) \in {d, m} /\ rx_disc(d, f) = send_dm(y, f)
      BY <1>1, DmDiscGo
    <2>2. rx_ua(d, f) = d /\ rx_ui(d, f) \in {d, Up(d, [prim |-> "UDATA_IND", p |-> f.p])}
      BY <1>1 DEF rx_ua, rx_ui, Estd
    <2>3. rx_frmr(d) = m
      BY DEF rx_frmr
    <2> QED BY <1>4, <2>1, <2>2, <2>3
  <1> QED BY <1>4, <1>5, <1>6, <1>7, <1>8 DEF e

-----------------------------------------------------------------------------
(* The entity.                                                             *)

\* A Sound data link, but for the channel, which it may not have yet.
Whole(d) ==
  /\ IsLink(d) /\ d.state \in States /\ d.vr \in 0..(VRange - 1)
  /\ ~Acch => d.ta = Null
  /\ d.tx \in Seq(Queued(d)) /\ \A f \in Queued(d) : IsFrame(f)

\* A data link has a context, or is idle and T200 does not run.
Linked(d, k) == Whole(d) /\ d.up = <<>> /\ (k => d.chan # Null) /\ (k \/ Still(d))

\* The inductive invariant.
IInv ==
  /\ dl = [s \in Sapis |-> dl[s]]
  /\ known \in [Sapis -> BOOLEAN] /\ pending \in BOOLEAN
  /\ fault = FALSE
  /\ \A s \in Sapis : Linked(dl[s], known[s])
  /\ Direct

\* A step that only changes data link s, to d, whose frames wait or are taken.
LEMMA EnqueueStep ==
  ASSUME IInv, NEW s \in Sapis, NEW d, NEW k \in BOOLEAN, Linked(d, k),
         tx_ph_data_enqueue(s, d), known' = [known EXCEPT ![s] = k], fault' = FALSE,
         \/ d.vr = dl[s].vr \/ dl[s].state \notin Estd \/ l3' = <<Prim("EST_IND")>>
         \/ ~Acch => Answered(d, d)
  PROVE  IInv' /\ (~Acch => AcknowledgedStep)
  <1>1. Polling \in BOOLEAN /\ VRange \in Nat /\ VRange > 1 /\ pending \in BOOLEAN
    BY EntityAssumed DEF EntityAssumption, LapdAssumption, IInv
  <1> DEFINE e == [d EXCEPT !.tx = <<>>]
  <1>2. Whole(d) /\ IsLink(d) /\ d.tx \in Seq(Queued(d))
    BY DEF Linked, Whole
  <1>3. e.tx = <<>> /\ IsLink(e) /\ \A x \in Fields \ {"tx"} : e[x] = d[x]
    BY <1>2 DEF IsLink, Fields
  <1> HIDE DEF e
  <1>4. e.state = d.state /\ e.vr = d.vr /\ e.ta = d.ta /\ e.chan = d.chan /\ e.up = d.up /\ e.t200 = d.t200
    BY <1>3 DEF Fields
  <1>5. Linked(e, k)
    <2>1. Queued(e) = {} /\ <<>> \in Seq({})
      BY <1>3 DEF Queued
    <2>2. Whole(e)
      BY <1>2, <1>3, <1>4, <2>1 DEF Whole
    <2> QED BY <1>4, <2>2 DEF Linked, Still
  <1>6. PICK g : /\ dl' = [dl EXCEPT ![s] = g] /\ g \in {d, e} /\ pending' \in BOOLEAN
                 /\ ~Polling => ~pending' /\ g.tx = <<>>
                 /\ Queued(d) \subseteq Range(g.tx \o l1')
    <2>1. CASE pending \/ Polling
      <3>1. dl' = [dl EXCEPT ![s] = d] /\ l1' = <<>> /\ pending' = pending
        BY <2>1 DEF tx_ph_data_enqueue
      <3>2. Polling
        BY <1>1, <2>1 DEF IInv, Direct
      <3>3. d.tx \o <<>> = d.tx
        BY <1>2
      <3>4. Queued(d) \subseteq Range(d.tx \o l1')
        BY <3>1, <3>3 DEF Queued, Range
      <3> QED BY <1>1, <3>1, <3>2, <3>4
    <2>2. CASE ~(pending \/ Polling)
      <3>1. dl' = [dl EXCEPT ![s] = e] /\ l1' = d.tx /\ pending' = FALSE
        BY <2>2 DEF tx_ph_data_enqueue, e
      <3>2. <<>> \o d.tx = d.tx
        BY <1>2
      <3>3. Queued(d) \subseteq Range(e.tx \o l1')
        BY <1>3, <3>1, <3>2 DEF Queued, Range
      <3> QED BY <1>3, <3>1, <3>3
    <2> QED BY <2>1, <2>2
  <1>7. Linked(g, k) /\ g.vr = d.vr /\ g.state = d.state
    BY <1>4, <1>5, <1>6
  <1>8. \A r \in Sapis : dl'[r] = (IF r = s THEN g ELSE dl[r]) /\ known'[r] = (IF r = s THEN k ELSE known[r])
    BY <1>6 DEF IInv
  <1>9. IInv'
    <2>1. dl' = [r \in Sapis |-> dl'[r]] /\ known' \in [Sapis -> BOOLEAN]
      BY <1>6 DEF IInv
    <2>2. \A r \in Sapis : Linked(dl'[r], known'[r])
      BY <1>7, <1>8 DEF IInv
    <2>3. Direct'
      BY <1>1, <1>6, <1>8 DEF IInv, Direct
    <2> QED BY <1>6, <2>1, <2>2, <2>3 DEF IInv
  <1>10. ASSUME ~Acch PROVE AcknowledgedStep
    <2> SUFFICES ASSUME NEW r \in Sapis, dl[r].state \in Estd, dl'[r].vr = inc_mod(dl[r].vr),
                        l3' # <<Prim("EST_IND")>>
                 PROVE  \E f \in Range(dl'[r].tx \o l1') : Numbered(f) /\ f.nr = dl'[r].vr
      BY DEF AcknowledgedStep
    <2>1. dl[r].vr \in 0..(VRange - 1)
      BY DEF IInv, Linked, Whole
    <2>2. inc_mod(dl[r].vr) # dl[r].vr
      BY <1>1, <2>1 DEF inc_mod
    <2>3. r = s /\ dl'[r] = g
      BY <1>8, <2>2
    <2>4. Answered(d, d)
      BY <1>7, <1>10, <2>2, <2>3
    <2> QED BY <1>6, <1>7, <2>3, <2>4 DEF Answered
  <1> QED BY <1>9, <1>10

\* The same for a step that tells layer 3.
LEMMA DlsapStep ==
  ASSUME IInv, NEW s \in Sapis, NEW d, Sound(d), NEW k \in BOOLEAN, k \/ Still(d),
         send_rslms_dlsap(s, d), known' = [known EXCEPT ![s] = k], fault' = FALSE,
         \/ d.vr = dl[s].vr \/ dl[s].state \notin Estd \/ d.up = <<Prim("EST_IND")>>
         \/ ~Acch => Answered(d, d)
  PROVE  IInv' /\ (~Acch => AcknowledgedStep)
  <1> DEFINE e == [d EXCEPT !.up = <<>>]
  <1>1. l3' = d.up /\ tx_ph_data_enqueue(s, e)
    BY DEF send_rslms_dlsap
  <1>2. e.up = <<>> /\ IsLink(e) /\ e.state = d.state /\ e.vr = d.vr /\ e.ta = d.ta /\ e.chan = d.chan /\ e.tx = d.tx
        /\ e.t200 = d.t200
    BY DEF Sound, IsLink, Fields
  <1> HIDE DEF e
  <1>3. Queued(e) = Queued(d)
    BY <1>2 DEF Queued
  <1>4. Linked(e, k)
    BY <1>2, <1>3 DEF Linked, Whole, Still, Sound
  <1>5. Answered(d, d) => Answered(e, e)
    BY <1>2, <1>3 DEF Answered
  <1> QED BY <1>1, <1>2, <1>4, <1>5, EnqueueStep

\* A frame from layer 1: it leaves the link without T200 in IDLE, or establishes it
\* and then the context is known.
LEMMA PhDataStep ==
  ASSUME IInv, NEW s \in Sapis, NEW f \in Frames, NEW c \in Chans, PhData(s, f, c)
  PROVE  IInv' /\ (~Acch => AcknowledgedStep)
  <1> DEFINE t == IF Acch THEN ta ELSE Null
             x == [dl[s] EXCEPT !.chan = c, !.ta = t]
             d == lapd_ph_data_ind(x, f)
  <1>1. VRange \in Nat \ {0} /\ f.t \in Kinds /\ f.pf \in BOOLEAN /\ c # Null /\ fault = FALSE /\ ~Reestablish
    BY EntityAssumed DEF EntityAssumption, LapdAssumption, Kinds, IInv
  <1>2. Linked(dl[s], known[s]) /\ Whole(dl[s]) /\ known[s] \in BOOLEAN /\ dl[s].up = <<>>
    BY DEF IInv, Linked
  <1>3. Sound(x) /\ x.state = dl[s].state /\ x.t200 = dl[s].t200 /\ x.vr = dl[s].vr /\ x.up = <<>>
    <2>1. ~Acch => t = Null
      OBVIOUS
    <2> HIDE DEF t
    <2>2. /\ IsLink(x) /\ x.state = dl[s].state /\ x.t200 = dl[s].t200 /\ x.vr = dl[s].vr /\ x.up = <<>>
          /\ x.chan = c /\ x.ta = t /\ x.tx = dl[s].tx
      BY <1>2 DEF Whole, IsLink, Fields
    <2> HIDE DEF x
    <2>3. Queued(x) = Queued(dl[s])
      BY <2>2 DEF Queued
    <2> QED BY <1>1, <1>2, <2>1, <2>2, <2>3 DEF Whole, Sound
  <1>4. /\ send_rslms_dlsap(s, d) /\ fault' = fault
        /\ known' = [known EXCEPT ![s] = @ \/ (dl[s].state # "MF_EST" /\ d.state = "MF_EST")]
    BY DEF PhData
  <1> HIDE DEF x
  <1>5. /\ Sound(d)
        /\ d.vr = x.vr \/ x.state \notin Estd \/ d.up = Append(x.up, Prim("EST_IND")) \/ (~Acch => Answered(d, d))
        /\ Still(x) => Still(d) \/ d.state = "MF_EST"
    BY <1>1, <1>3, FrameTaken, FrameIdle
  <1> HIDE DEF d
  <1>6. PICK k \in BOOLEAN : /\ k <=> (known[s] \/ (dl[s].state # "MF_EST" /\ d.state = "MF_EST"))
                             /\ known' = [known EXCEPT ![s] = k]
    BY <1>2, <1>4 DEF IInv
  <1>7. k \/ Still(d)
    BY <1>2, <1>3, <1>5, <1>6 DEF Linked, Still
  <1>8. \/ d.vr = dl[s].vr \/ dl[s].state \notin Estd \/ d.up = <<Prim("EST_IND")>>
        \/ ~Acch => Answered(d, d)
    BY <1>3, <1>5
  <1> QED BY <1>1, <1>4, <1>5, <1>6, <1>7, <1>8, DlsapStep

\* T200 runs only where a context is known.
LEMMA T200Step ==
  ASSUME IInv, NEW s \in Sapis, T200(s)
  PROVE  IInv' /\ (~Acch => AcknowledgedStep)
  <1> DEFINE t == IF Acch THEN ta ELSE Null
             x == [dl[s] EXCEPT !.ta = t]
             d == lapd_t200_cb(x)
             k == known[s]
  <1>1. dl[s].t200 # FALSE /\ send_rslms_dlsap(s, d) /\ fault' = (fault \/ ~known[s]) /\ known' = known
    BY DEF T200
  <1>2. Linked(dl[s], known[s]) /\ Whole(dl[s]) /\ known[s] \in BOOLEAN /\ known \in [Sapis -> BOOLEAN] /\ fault = FALSE
    BY DEF IInv, Linked
  <1>3. k /\ dl[s].chan # Null
    BY <1>1, <1>2 DEF Linked, Still
  <1>4. Sound(x) /\ x.vr = dl[s].vr
    <2>1. ~Acch => t = Null
      OBVIOUS
    <2> HIDE DEF t
    <2>2. /\ IsLink(x) /\ x.state = dl[s].state /\ x.vr = dl[s].vr
          /\ x.chan = dl[s].chan /\ x.ta = t /\ x.tx = dl[s].tx
      BY <1>2 DEF Whole, IsLink, Fields
    <2> HIDE DEF x
    <2>3. Queued(x) = Queued(dl[s])
      BY <2>2 DEF Queued
    <2> QED BY <1>2, <1>3, <2>1, <2>2, <2>3 DEF Whole, Sound
  <1> HIDE DEF x
  <1>5. Sound(d) /\ d.vr = dl[s].vr
    BY <1>4, T200Goes DEF Goes
  <1> HIDE DEF d
  <1>6. fault' = FALSE /\ known' = [known EXCEPT ![s] = k]
    BY <1>1, <1>2, <1>3
  <1>7. k \in BOOLEAN
    BY <1>2
  <1> HIDE DEF k
  <1> QED BY <1>1, <1>3, <1>5, <1>6, <1>7, DlsapStep

\* Layer 1 asks for a frame: the queue of one data link gets shorter.
LEMMA PhReadyStep ==
  ASSUME IInv, PhReady
  PROVE  IInv' /\ AcknowledgedStep
  <1>1. VRange \in Nat /\ VRange > 1 /\ Polling \in BOOLEAN
    BY EntityAssumed DEF LapdAssumption, EntityAssumption
  <1>2. \A r \in Sapis : Linked(dl[r], known[r]) /\ Whole(dl[r])
    BY DEF IInv, Linked
  <1>3. \A v \in 0..(VRange - 1) : inc_mod(v) # v
    BY <1>1 DEF inc_mod
  <1>4. CASE \A s \in Sapis : dl[s].tx = <<>>
    <2>1. dl' = dl /\ known' = known /\ fault' = fault /\ pending' = FALSE
      BY <1>4 DEF PhReady
    <2>2. IInv'
      BY <2>1 DEF IInv, Direct
    <2>3. AcknowledgedStep
      BY <1>2, <1>3, <2>1 DEF AcknowledgedStep, Whole
    <2> QED BY <2>2, <2>3
  <1>5. CASE ~\A s \in Sapis : dl[s].tx = <<>>
    <2>1. \E s \in Sapis : dl[s].tx # <<>> /\ (s # last \/ \A r \in Sapis \ {s} : dl[r].tx = <<>>)
      BY <1>5
    <2>2. Turn \in Sapis /\ dl[Turn].tx # <<>>
      BY <2>1 DEF Turn
    <2>3. PICK s \in Sapis : s = Turn /\ dl[s].tx # <<>>
      BY <2>2
    <2> DEFINE q == Tail(dl[s].tx)
               e == [dl[s] EXCEPT !.tx = q]
    <2>4. dl' = [dl EXCEPT ![s] = e] /\ known' = known /\ fault' = fault /\ pending' = TRUE
      BY <1>5, <2>3 DEF PhReady
    <2>5. /\ IsLink(e) /\ e.tx = q /\ e.state = dl[s].state /\ e.vr = dl[s].vr /\ e.ta = dl[s].ta
          /\ e.chan = dl[s].chan /\ e.up = dl[s].up /\ e.t200 = dl[s].t200
      <3> HIDE DEF q
      <3> QED BY <1>2 DEF Whole, IsLink, Fields
    <2>6. q \in Seq({q[i] : i \in DOMAIN q}) /\ \A f \in {q[i] : i \in DOMAIN q} : IsFrame(f)
      <3> DEFINE t == dl[s].tx
                 S == Queued(dl[s])
      <3>1. t \in Seq(S) /\ t # <<>> /\ \A f \in S : IsFrame(f)
        BY <1>2, <2>3 DEF Whole
      <3> HIDE DEF t, S
      <3>2. Tail(t) \in Seq(S)
        BY <3>1
      <3>3. q \in Seq(S)
        BY <3>2 DEF t
      <3> HIDE DEF q
      <3> QED BY <3>1, <3>3, QueueSound
    <2> HIDE DEF e, q
    <2>7. Linked(e, known[s])
      BY <1>2, <2>5, <2>6 DEF Linked, Whole, Still, Queued
    <2>8. \A r \in Sapis : dl'[r] = IF r = s THEN e ELSE dl[r]
      BY <2>4 DEF IInv
    <2>9. IInv'
      <3>1. Polling
        BY <1>1, <2>3 DEF IInv, Direct
      <3>2. dl' = [r \in Sapis |-> dl'[r]] /\ \A r \in Sapis : Linked(dl'[r], known'[r])
        BY <1>2, <2>4, <2>7, <2>8 DEF IInv
      <3>3. Direct'
        BY <3>1 DEF Direct
      <3> QED BY <2>4, <3>2, <3>3 DEF IInv
    <2>10. AcknowledgedStep
      <3>1. \A r \in Sapis : dl'[r].vr = dl[r].vr
        BY <2>5, <2>8
      <3> QED BY <1>2, <1>3, <3>1 DEF AcknowledgedStep, Whole
    <2> QED BY <2>9, <2>10
  <1> QED BY <1>4, <1>5

\* The entity is reset: every data link is idle, and those that have a context
\* keep it.
LEMMA ResetStep ==
  ASSUME IInv, Reset
  PROVE  IInv' /\ AcknowledgedStep
  <1>1. VRange \in Nat /\ VRange > 1 /\ Polling \in BOOLEAN
    BY EntityAssumed DEF LapdAssumption, EntityAssumption
  <1>2. \A r \in Sapis : Linked(dl[r], known[r]) /\ Whole(dl[r])
    BY DEF IInv, Linked
  <1>3. \A v \in 0..(VRange - 1) : inc_mod(v) # v
    BY <1>1 DEF inc_mod
  <1>4. dl' = [s \in Sapis |-> lapd_dl_reset(dl[s])] /\ known' = known /\ fault' = fault /\ pending' = pending
    BY DEF Reset
  <1>5. ASSUME NEW r \in Sapis
        PROVE  LET e == lapd_dl_reset(dl[r])
               IN Linked(e, known[r]) /\ e.vr = dl[r].vr /\ (e.tx = dl[r].tx \/ e.tx = <<>>)
    <2>1. CASE dl[r].state = "IDLE"
      BY <1>2, <2>1 DEF lapd_dl_reset
    <2>2. CASE dl[r].state # "IDLE"
      <3> DEFINE d == dl[r]
                 x == Released(d)
                 e == [x EXCEPT !.rcv = Null, !.t200 = FALSE, !.t203 = FALSE]
      <3>1. lapd_dl_reset(d) = e
        BY <2>2 DEF lapd_dl_reset
      <3>2. Sound(d) /\ d.up = <<>>
        BY <1>2, <2>2 DEF Linked, Whole, Still, Sound
      <3> HIDE DEF d
      <3>3. Goes(d, x) /\ x.up = d.up /\ x.tx = <<>>
        <4>1. Goes(d, x)
          BY <3>2, SmallGo
        <4>2. x.up = d.up /\ x.tx = <<>>
          BY <3>2 DEF Released, lapd_dl_flush_send, lapd_dl_flush_tx, lapd_dl_flush_hist, newstate, Sound, IsLink, Fields
        <4> QED BY <4>1, <4>2
      <3>4. Released(d).state = "IDLE"
        BY <3>2 DEF Released, lapd_dl_flush_send, lapd_dl_flush_tx, lapd_dl_flush_hist, newstate, Sound, IsLink, Fields
      <3> HIDE DEF x
      <3>5. Alike(x, e) /\ e.state = x.state /\ e.up = x.up /\ e.tx = <<>> /\ e.t200 = FALSE
        BY <3>3 DEF Alike, Goes, Sound, IsLink, Fields
      <3> HIDE DEF e
      <3>6. Sound(e) /\ e.vr = d.vr
        BY <3>3, <3>5, AlikeGoes DEF Goes
      <3>7. Still(e)
        BY <3>4, <3>5 DEF Still, x
      <3>8. Linked(e, known[r])
        BY <3>2, <3>3, <3>5, <3>6, <3>7 DEF Linked, Whole, Sound
      <3> QED BY <3>1, <3>5, <3>6, <3>8 DEF d
    <2> QED BY <2>1, <2>2
  <1>6. \A r \in Sapis : Linked(dl'[r], known[r]) /\ dl'[r].vr = dl[r].vr /\ (dl'[r].tx = dl[r].tx \/ dl'[r].tx = <<>>)
    BY <1>4, <1>5
  <1>7. IInv'
    <2>1. Direct'
      BY <1>1, <1>4, <1>6 DEF IInv, Direct
    <2> QED BY <1>4, <1>6, <2>1 DEF IInv
  <1>8. AcknowledgedStep
    BY <1>2, <1>3, <1>6 DEF AcknowledgedStep, Whole
  <1> QED BY <1>7, <1>8

\* With the channel that set_lapdm_context gives it any data link is Sound, with
\* or without a context before.
LEMMA ContextSound ==
  ASSUME NEW d, Whole(d), NEW c, c # Null
  PROVE  LET e == set_lapdm_context(d, c) IN Sound(e) /\ e.vr = d.vr
  <1> DEFINE e == set_lapdm_context(d, c)
  <1>1. /\ IsLink(e) /\ e.state = d.state /\ e.vr = d.vr /\ e.chan = c /\ e.ta = d.ta /\ e.tx = d.tx
    BY DEF Whole, IsLink, Fields, set_lapdm_context
  <1> HIDE DEF e
  <1>2. Queued(e) = Queued(d)
    BY <1>1 DEF Queued
  <1>3. Sound(e) /\ e.vr = d.vr
    BY <1>1, <1>2 DEF Whole, Sound
  <1> QED BY <1>3 DEF e

\* A request of layer 3 to a data link that has, or has just got, a context.
LEMMA RequestStep ==
  ASSUME IInv, NEW s \in Sapis, NEW x, Sound(x), x.vr = dl[s].vr, NEW d, Goes(x, d),
         NEW k, k = TRUE, Request(s, d, k), fault' = FALSE
  PROVE  IInv' /\ (~Acch => AcknowledgedStep)
  <1>1. send_rslms_dlsap(s, d) /\ known' = [known EXCEPT ![s] = k]
    BY DEF Request
  <1>2. Sound(d) /\ d.vr = dl[s].vr
    BY DEF Goes
  <1>3. k \in BOOLEAN /\ (k \/ Still(d))
    OBVIOUS
  <1> QED BY <1>1, <1>2, <1>3, DlsapStep

\* DL-ESTABLISH, DL-RESUME and DL-RECONNECT set the context first.
LEMMA OpenStep ==
  ASSUME IInv, NEW s \in Sapis, NEW c \in Chans, NEW m, NEW prim \in Prims, fault' = FALSE,
         rslms_rx_rll_est_req(s, c, m) \/ rslms_rx_rll_res_req(s, c, m, prim)
  PROVE  IInv' /\ (~Acch => AcknowledgedStep)
  <1> DEFINE x == set_lapdm_context(dl[s], c)
             u == Prim("REL_IND")
             k == TRUE
  <1>1. Whole(dl[s]) /\ c # Null /\ VRange \in Nat
    BY EntityAssumed DEF IInv, Linked, EntityAssumption, LapdAssumption
  <1>2. Sound(x) /\ x.vr = dl[s].vr
    BY <1>1, ContextSound
  <1>3. \/ Request(s, Up(x, u), k)
        \/ Request(s, lapd_recv_dlsap(x, "EST", m), k)
        \/ Request(s, lapd_recv_dlsap(x, prim, m), k)
    BY DEF rslms_rx_rll_est_req, rslms_rx_rll_res_req, RelInd
  <1>4. k = TRUE
    OBVIOUS
  <1> HIDE DEF x, u, k
  <1>5. Goes(x, Up(x, u)) /\ Goes(x, lapd_recv_dlsap(x, "EST", m)) /\ Goes(x, lapd_recv_dlsap(x, prim, m))
    <2>1. Goes(x, Up(x, u))
      BY <1>2, SmallGo
    <2>2. "EST" \in Prims
      BY DEF Prims
    <2> QED BY <1>1, <1>2, <2>1, <2>2, DlsapGoes
  <1> QED BY <1>2, <1>3, <1>4, <1>5, RequestStep

\* Unit data goes out on the channel of the request: it needs no context and
\* gives none.
LEMMA UdataStep ==
  ASSUME IInv, NEW s \in Sapis, NEW c \in Chans, NEW m, fault' = FALSE,
         rslms_rx_rll_udata_req(s, c, m)
  PROVE  IInv' /\ (~Acch => AcknowledgedStep)
  <1>1. Linked(dl[s], known[s]) /\ Whole(dl[s]) /\ c # Null /\ VRange \in Nat
    BY EntityAssumed DEF IInv, Linked, EntityAssumption, LapdAssumption
  <1>2. PICK t \in Tas :
          LET u == [dl[s] EXCEPT !.chan = c, !.ta = IF Acch THEN t ELSE Null]
              d == IF Len(m) # 1 THEN dl[s] ELSE [dl[s] EXCEPT !.tx = lapd_udata_req(u, m).tx]
          IN tx_ph_data_enqueue(s, d)
    BY DEF rslms_rx_rll_udata_req
  <1> DEFINE a == IF Acch THEN t ELSE Null
             u == [dl[s] EXCEPT !.chan = c, !.ta = a]
             w == lapd_udata_req(u, m)
             q == w.tx
             e == [dl[s] EXCEPT !.tx = q]
             d == IF Len(m) # 1 THEN dl[s] ELSE e
             k == known[s]
  <1>3. tx_ph_data_enqueue(s, d)
    BY <1>2
  <1>4. Sound(u)
    <2>1. ~Acch => a = Null
      OBVIOUS
    <2> HIDE DEF a
    <2>2. IsLink(u) /\ u.state = dl[s].state /\ u.vr = dl[s].vr /\ u.chan = c /\ u.ta = a /\ u.tx = dl[s].tx
      BY <1>1 DEF Whole, IsLink, Fields
    <2> HIDE DEF u
    <2>3. Queued(u) = Queued(dl[s])
      BY <2>2 DEF Queued
    <2> QED BY <1>1, <2>1, <2>2, <2>3 DEF Whole, Sound
  <1> HIDE DEF u
  <1>5. Sound(w)
    BY <1>1, <1>4, DataGoes DEF Goes
  <1> HIDE DEF w
  <1>6. q \in Seq(Queued(w)) /\ \A f \in Queued(w) : IsFrame(f)
    BY <1>5 DEF Sound
  <1>7. /\ IsLink(e) /\ e.tx = q /\ e.state = dl[s].state /\ e.vr = dl[s].vr /\ e.ta = dl[s].ta
        /\ e.chan = dl[s].chan /\ e.up = dl[s].up /\ e.t200 = dl[s].t200
    <2> HIDE DEF q
    <2> QED BY <1>1 DEF Whole, IsLink, Fields
  <1>8. Queued(e) = Queued(w)
    BY <1>7 DEF Queued
  <1> HIDE DEF e, q
  <1>9. Linked(e, known[s])
    BY <1>1, <1>6, <1>7, <1>8 DEF Linked, Whole, Still
  <1>10. Linked(d, k) /\ d.vr = dl[s].vr
    BY <1>1, <1>7, <1>9
  <1>11. k \in BOOLEAN /\ known' = [known EXCEPT ![s] = k]
    BY DEF IInv, rslms_rx_rll_udata_req
  <1> HIDE DEF d, k
  <1> QED BY <1>3, <1>10, <1>11, EnqueueStep

\* RSL messages from layer 3: the three that use the context of the data link are
\* dropped when there is none, the others set it or do without.
LEMMA RllStep ==
  ASSUME IInv, NEW s \in Sapis, NEW t \in Msgs, NEW c \in Chans, NEW m, rslms_rx_rll(s, t, c, m)
  PROVE  IInv' /\ (~Acch => AcknowledgedStep)
  <1>1. /\ VRange \in Nat /\ VRange > 1 /\ Whole(dl[s]) /\ fault = FALSE /\ known[s] \in BOOLEAN
        /\ t \in {"UNIT_DATA_REQ", "EST_REQ", "DATA_REQ", "SUSP_REQ", "RES_REQ", "RECON_REQ", "REL_REQ",
                 "LOCAL_REL_REQ"}
    BY EntityAssumed DEF IInv, Linked, EntityAssumption, LapdAssumption
  <1>2. CASE t \in Refusable /\ ~known[s]
    <2>1. dl' = dl /\ known' = known /\ fault' = fault /\ pending' = pending
      BY <1>2 DEF rslms_rx_rll
    <2>2. IInv'
      BY <2>1 DEF IInv, Direct
    <2>3. \A v \in 0..(VRange - 1) : inc_mod(v) # v
      BY <1>1 DEF inc_mod
    <2>4. AcknowledgedStep
      BY <2>1, <2>3 DEF IInv, Linked, Whole, AcknowledgedStep
    <2> QED BY <2>2, <2>4
  <1>3. CASE ~(t \in Refusable /\ ~known[s])
    <2>1. Down(s, t, c, m) /\ fault' = (fault \/ (t \in Dereferenced /\ ~known[s]))
      BY <1>3 DEF rslms_rx_rll
    <2>2. fault' = FALSE
      BY <1>1, <1>3, <2>1 DEF Refusable, Dereferenced
    <2>3. CASE t = "UNIT_DATA_REQ"
      <3>1. rslms_rx_rll_udata_req(s, c, m)
        BY <2>1, <2>3 DEF Down
      <3> QED BY <2>2, <3>1, UdataStep
    <2>4. CASE t \in {"EST_REQ", "RES_REQ", "RECON_REQ"}
      <3>1. \/ rslms_rx_rll_est_req(s, c, m)
            \/ rslms_rx_rll_res_req(s, c, m, "RES")
            \/ rslms_rx_rll_res_req(s, c, m, "RECON")
        BY <2>1, <2>4 DEF Down
      <3>2. "RES" \in Prims /\ "RECON" \in Prims
        BY DEF Prims
      <3> QED BY <2>2, <3>1, <3>2, OpenStep
    <2>5. CASE t \in {"DATA_REQ", "SUSP_REQ", "REL_REQ", "LOCAL_REL_REQ"}
      <3> DEFINE x == dl[s]
                 k == known[s]
                 none == <<>>
                 mode == <<"local">>
      <3>1. k = TRUE
        BY <1>1, <1>3, <2>5 DEF Refusable
      <3>2. Sound(x) /\ x.vr = dl[s].vr
        BY <1>1, <3>1 DEF IInv, Linked, Whole, Sound
      <3>3. \/ Request(s, lapd_recv_dlsap(x, "DATA", m), k)
            \/ Request(s, x, k)
            \/ Request(s, lapd_recv_dlsap(x, "SUSP", none), k)
            \/ Request(s, lapd_recv_dlsap(x, "REL", none), k)
            \/ Request(s, lapd_recv_dlsap(x, "REL", mode), k)
        BY <2>1, <2>5 DEF Down
      <3> HIDE DEF x, k, none, mode
      <3>4. "DATA" \in Prims /\ "SUSP" \in Prims /\ "REL" \in Prims
        BY DEF Prims
      <3>5. /\ Goes(x, lapd_recv_dlsap(x, "DATA", m)) /\ Goes(x, x)
            /\ Goes(x, lapd_recv_dlsap(x, "SUSP", none)) /\ Goes(x, lapd_recv_dlsap(x, "REL", none))
            /\ Goes(x, lapd_recv_dlsap(x, "REL", mode))
        BY <1>1, <3>2, <3>4, DlsapGoes DEF Goes
      <3> QED BY <2>2, <3>1, <3>2, <3>3, <3>5, RequestStep
    <2> QED BY <1>1, <2>3, <2>4, <2>5
  <1> QED BY <1>2, <1>3

\* A step that leaves the data links and the queues alone.
LEMMA IdleStep ==
  ASSUME IInv, UNCHANGED <<dl, known, pending, fault>>
  PROVE  IInv' /\ AcknowledgedStep
  <1>1. VRange \in Nat /\ VRange > 1
    BY EntityAssumed DEF LapdAssumption
  <1>2. IInv'
    BY DEF IInv, Direct
  <1>3. \A v \in 0..(VRange - 1) : inc_mod(v) # v
    BY <1>1 DEF inc_mod
  <1>4. AcknowledgedStep
    BY <1>3 DEF IInv, Linked, Whole, AcknowledgedStep
  <1> QED BY <1>2, <1>4

-----------------------------------------------------------------------------
(* Commands that wait for their answer.                                    *)

\* Every DISC is a command without a payload.  Another one is refused only after
\* the history was flushed (lapd_core.c:1034), with a command that waits in it.
DiscEmpty == \A f \in Frames : f.t = "DISC" => ~Malformed(f)

\* The members that T200 needs to send a command again.
Kept == {"state", "vs", "hist", "t200", "retrans"}
Same(d, e) == \A x \in Kept : e[x] = d[x]

\* A command that waits can be sent again, and SABM will be.
Tried(d) ==
  Commanding(d) => /\ d.retrans \in 0..N200Est
                   /\ d.state = "SABM_SENT" => d.t200 = TRUE
                   /\ DiscEmpty => d.vs = 0 /\ d.hist[0] # Null

\* A link in another state has no command that waits.
LEMMA OtherwiseTried ==
  ASSUME NEW d, d.state \in {"IDLE", "MF_EST", "TIMER_RECOV"}
  PROVE  Tried(d)
  BY DEF Tried, Commanding

\* Links that have these members in common.
LEMMA SameTried ==
  ASSUME NEW d, NEW e, Same(d, e), Tried(d)
  PROVE  Tried(e)
  <1>1. e.state = d.state /\ e.vs = d.vs /\ e.hist = d.hist /\ e.t200 = d.t200 /\ e.retrans = d.retrans
    BY DEF Same, Kept
  <1> QED BY <1>1 DEF Tried, Commanding

\* What is sent and what is told to layer 3 leaves them alone.
LEMMA BesideSame ==
  ASSUME NEW d, Sound(d)
  PROVE  /\ \A u : Same(d, Up(d, u))
         /\ Same(d, mdl_error(d))
         /\ \A n : Same(d, [d EXCEPT !.err = n])
         /\ \A f : IsRec(f) => Same(d, Tx(d, f))
         /\ \A f : Same(d, send_ua(d, f)) /\ Same(d, send_dm(d, f))
         /\ \A pf, cmd : Same(d, send_rr(d, pf, cmd)) /\ Same(d, send_rnr(d, pf, cmd))
         /\ \A pf : Same(d, send_rej(d, pf))
  <1>1. \A u : Same(d, Up(d, u))
    BY DEF Up, Sound, IsLink, Fields, Same, Kept
  <1>2. \A n : Same(d, [d EXCEPT !.err = n])
    BY DEF Sound, IsLink, Fields, Same, Kept
  <1>3. \A f : IsRec(f) => Same(d, Tx(d, f))
    <2>1. Kept \subseteq Fields \ {"tx"}
      BY DEF Kept, Fields
    <2> QED BY <2>1, TxGoes DEF Same
  <1>4. \A t, c, q, p : IsRec(Frame(t, c, q, p)) /\ IsRec(SFrame(t, c, q, p))
    BY FramesAre
  <1>5. \A f : Same(d, send_ua(d, f)) /\ Same(d, send_dm(d, f))
    BY <1>3, <1>4 DEF send_ua, send_dm
  <1>6. \A pf, cmd : Same(d, send_rr(d, pf, cmd)) /\ Same(d, send_rnr(d, pf, cmd))
    BY <1>3, <1>4 DEF send_rr, send_rnr
  <1>7. \A pf : Same(d, send_rej(d, pf))
    BY <1>3, <1>4 DEF send_rej
  <1> QED BY <1>1, <1>2, <1>3, <1>5, <1>6, <1>7 DEF mdl_error

\* The state after the operators that set it, or leave it alone.
LEMMA StatesAfter ==
  ASSUME NEW d, Sound(d)
  PROVE  /\ \A s : newstate(d, s).state = s
         /\ Released(d).state = "IDLE"
         /\ stop_t200(d).state = d.state
         /\ \A v : [d EXCEPT !.vs = v].state = d.state
         /\ \A v : [d EXCEPT !.peer_busy = v].state = d.state
         /\ LET e == lapd_dl_flush_send(lapd_dl_flush_tx(d))
            IN e.state = d.state /\ e.t200 = d.t200 /\ e.retrans = d.retrans
  <1>1. \A s : newstate(d, s).state = s
    BY DEF newstate, Sound, IsLink, Fields
  <1>2. Released(d).state = "IDLE"
    BY DEF Released, lapd_dl_flush_send, lapd_dl_flush_tx, lapd_dl_flush_hist, newstate, Sound, IsLink, Fields
  <1>3. stop_t200(d).state = d.state /\ \A v : [d EXCEPT !.vs = v].state = d.state
        /\ [d EXCEPT !.peer_busy = v].state = d.state
    BY DEF stop_t200, Sound, IsLink, Fields
  <1>4. LET e == lapd_dl_flush_send(lapd_dl_flush_tx(d))
        IN e.state = d.state /\ e.t200 = d.t200 /\ e.retrans = d.retrans
    BY DEF lapd_dl_flush_send, lapd_dl_flush_tx, lapd_dl_flush_hist, Sound, IsLink, Fields
  <1> QED BY <1>1, <1>2, <1>3, <1>4

\* The history has a slot 0, the slot of V(S) = 0.
LEMMA HistSlots ==
  0 \in 0..(RangeHist - 1)
  <1> DEFINE S == {2, 4, 8, 16, 32, 64, 128}
             P(m) == m >= K + 1 /\ \A n \in S : n >= K + 1 => n >= m
  <1>1. K \in 1..127
    BY EntityAssumed DEF LapdAssumption
  <1>2. \E m \in S : P(m)
    <2>1. CASE K + 1 <= 2
      BY <1>1, <2>1
    <2>2. CASE 2 < K + 1 /\ K + 1 <= 4
      BY <1>1, <2>2
    <2>3. CASE 4 < K + 1 /\ K + 1 <= 8
      BY <1>1, <2>3
    <2>4. CASE 8 < K + 1 /\ K + 1 <= 16
      BY <1>1, <2>4
    <2>5. CASE 16 < K + 1 /\ K + 1 <= 32
      BY <1>1, <2>5
    <2>6. CASE 32 < K + 1 /\ K + 1 <= 64
      BY <1>1, <2>6
    <2>7. CASE 64 < K + 1
      BY <1>1, <2>7
    <2> QED BY <1>1, <2>1, <2>2, <2>3, <2>4, <2>5, <2>6, <2>7
  <1>3. RangeHist \in S
    BY <1>2 DEF RangeHist
  <1> QED BY <1>3

\* SABM and DISC wait in the history, with T200 running.
LEMMA CommandTried ==
  ASSUME NEW d, Sound(d), NEW s \in States, NEW f, IsRec(f), f.p \in Messages \cup {<<>>}
  PROVE  Tried(Command(d, s, f))
  <1> DEFINE x == lapd_dl_flush_hist(d)
             v == [p |-> f.p, more |-> FALSE]
             y == [x EXCEPT !.hist[0] = v, !.vs = 0, !.own_busy = FALSE, !.peer_busy = FALSE, !.retrans = 0]
             z == newstate(y, s)
  <1>1. Goes(d, x) /\ x.hist = [h \in 0..(RangeHist - 1) |-> Null]
    BY SmallGo DEF lapd_dl_flush_hist, NoHist, Sound, IsLink, Fields
  <1>2. v # Null
    BY EntityAssumed DEF EntityAssumption
  <1>3. Command(d, s, f) = start_t200(Tx(z, f))
    BY DEF Command
  <1> HIDE DEF x, v
  <1>4. Alike(x, y) /\ y.vs = 0 /\ y.retrans = 0 /\ y.hist = [x.hist EXCEPT ![0] = v]
    BY <1>1 DEF Alike, IsLink, Fields, Sound, Goes
  <1>5. [x.hist EXCEPT ![0] = v][0] = v
    BY <1>1, HistSlots
  <1> HIDE DEF y
  <1>6. Goes(x, y) /\ Goes(y, z)
    BY <1>1, <1>4, AlikeGoes, SmallGo DEF Goes
  <1>7. z.vs = y.vs /\ z.retrans = y.retrans /\ z.hist = y.hist
    BY <1>6 DEF newstate, Goes, Sound, IsLink, Fields
  <1> HIDE DEF z
  <1>8. Goes(z, Tx(z, f)) /\ Same(z, Tx(z, f))
    BY <1>6, TxGoes, BesideSame DEF Goes
  <1> DEFINE w == Tx(z, f)
  <1> HIDE DEF w
  <1>9. w.vs = z.vs /\ w.retrans = z.retrans /\ w.hist = z.hist
    BY <1>8 DEF w, Same, Kept
  <1>10. LET e == start_t200(w) IN e.t200 = TRUE /\ e.vs = w.vs /\ e.retrans = w.retrans /\ e.hist = w.hist
    BY <1>8 DEF w, start_t200, Goes, Sound, IsLink, Fields
  <1>11. N200Est \in Nat
    BY EntityAssumed DEF LapdAssumption
  <1>12. Tried(start_t200(w))
    BY <1>2, <1>4, <1>5, <1>7, <1>9, <1>10, <1>11 DEF Tried
  <1> QED BY <1>3, <1>12 DEF w

\* A step with numbers: the link goes on, and stays established.
Keeps(d, e) == Sound(e) /\ (d.state \in Estd => e.state \in Estd)

\* One step after another.
LEMMA KeepsOn ==
  ASSUME NEW a, NEW b, NEW c, Keeps(a, b), Keeps(b, c)
  PROVE  Keeps(a, c)
  BY DEF Keeps

\* The operators that steps with numbers are made of.
LEMMA SmallKeep ==
  ASSUME NEW d, Sound(d), VRange \in Nat
  PROVE  /\ Keeps(d, d) /\ Keeps(d, stop_t200(d)) /\ Keeps(d, newstate(d, "MF_EST")) /\ Keeps(d, mdl_error(d))
         /\ \A pf, cmd : Keeps(d, send_rr(d, pf, cmd)) /\ Keeps(d, send_rnr(d, pf, cmd))
         /\ \A pf : Keeps(d, send_rej(d, pf))
         /\ \A n : Keeps(d, [d EXCEPT !.err = n])
         /\ \A v : Keeps(d, [d EXCEPT !.vs = v]) /\ Keeps(d, [d EXCEPT !.peer_busy = v])
         /\ \A p, v, w : Keeps(d, [d EXCEPT !.peer_busy = p, !.vs = v, !.va = w])
         /\ \A f : Keeps(d, lapd_acknowledge(d, f)) /\ Keeps(d, Reassemble(d, f))
         /\ Keeps(d, Answer(d)) /\ Keeps(d, lapd_send_i(d)) /\ Keeps(d, update_pending_frames(d))
  <1>1. "MF_EST" \in States /\ "MF_EST" \in Estd
    BY DEF States, Estd
  <1>2. ASSUME NEW e, Goes(d, e), e.state = d.state \/ e.state = "MF_EST"
        PROVE  Keeps(d, e)
    BY <1>1, <1>2 DEF Goes, Keeps
  <1>3. ASSUME NEW e, Goes(d, e), Same(d, e)
        PROVE  Keeps(d, e)
    <2>1. e.state = d.state
      BY <1>3 DEF Same, Kept
    <2> QED BY <1>2, <1>3, <2>1
  <1>4. Keeps(d, d)
    BY DEF Keeps
  <1>5. Keeps(d, stop_t200(d)) /\ Keeps(d, newstate(d, "MF_EST"))
    BY <1>1, <1>2, SmallGo, StatesAfter
  <1>6. Keeps(d, mdl_error(d)) /\ \A n : Keeps(d, [d EXCEPT !.err = n])
    BY <1>3, SmallGo, BesideSame
  <1>7. /\ \A pf, cmd : Keeps(d, send_rr(d, pf, cmd)) /\ Keeps(d, send_rnr(d, pf, cmd))
        /\ \A pf : Keeps(d, send_rej(d, pf))
    BY <1>3, AnswersGo, BesideSame
  <1>8. \A p, v, w : /\ Keeps(d, [d EXCEPT !.vs = v]) /\ Keeps(d, [d EXCEPT !.peer_busy = v])
                     /\ Keeps(d, [d EXCEPT !.peer_busy = p, !.vs = v, !.va = w])
    <2> SUFFICES ASSUME NEW p, NEW v, NEW w
                 PROVE  /\ Keeps(d, [d EXCEPT !.vs = v]) /\ Keeps(d, [d EXCEPT !.peer_busy = v])
                        /\ Keeps(d, [d EXCEPT !.peer_busy = p, !.vs = v, !.va = w])
      OBVIOUS
    <2> DEFINE a == [d EXCEPT !.vs = v]
               b == [d EXCEPT !.peer_busy = v]
               c == [d EXCEPT !.peer_busy = p, !.vs = v, !.va = w]
    <2>1. /\ Alike(d, a) /\ Alike(d, b) /\ Alike(d, c)
          /\ a.state = d.state /\ b.state = d.state /\ c.state = d.state
      BY DEF Alike, Sound, IsLink, Fields
    <2> HIDE DEF a, b, c
    <2>2. Keeps(d, a) /\ Keeps(d, b) /\ Keeps(d, c)
      BY <1>2, <2>1, AlikeGoes
    <2> QED BY <2>2 DEF a, b, c
  <1>9. \A f : Keeps(d, lapd_acknowledge(d, f)) /\ Keeps(d, Reassemble(d, f))
    BY <1>2, AcknowledgeGoes, ReassembleGoes
  <1>10. Keeps(d, Answer(d))
    <2> DEFINE yes == TRUE
               no == FALSE
    <2>1. Answer(d) \in {send_rnr(d, yes, no), send_rr(d, yes, no), d}
      BY DEF Answer
    <2> HIDE DEF yes, no
    <2> QED BY <1>4, <1>7, <2>1
  <1>11. Keeps(d, lapd_send_i(d))
    BY <1>2, SendsI DEF Sends
  <1>12. Keeps(d, update_pending_frames(d))
    <2>1. update_pending_frames(d).state = d.state
      BY DEF update_pending_frames, Sound, IsLink, Fields
    <2> QED BY <1>2, <2>1, PendingGoes
  <1> QED BY <1>4, <1>5, <1>6, <1>7, <1>8, <1>9, <1>10, <1>11, <1>12

\* RR, RNR and REJ do not end a link.
LEMMA NumberedKeep ==
  ASSUME NEW d, Sound(d), NEW f, VRange \in Nat
  PROVE  Keeps(d, rx_rr(d, f)) /\ Keeps(d, rx_rnr(d, f)) /\ Keeps(d, rx_rej(d, f))
  <1> DEFINE a == lapd_acknowledge(d, f)
             yes == TRUE
             no == FALSE
  <1>1. Keeps(d, a) /\ Sound(a)
    BY SmallKeep DEF Keeps
  <1>2. \A x : Sound(x) => Keeps(x, lapd_send_i(x))
    BY SmallKeep
  <1>3. Keeps(d, rx_rr(d, f))
    <2> DEFINE v == [a EXCEPT !.vs = f.nr]
               t == stop_t200(v)
    <2>1. rx_rr(d, f) \in {lapd_send_i(x) : x \in {Answer(a), newstate(t, "MF_EST"), a}}
      BY DEF rx_rr
    <2> HIDE DEF a
    <2>2. Keeps(a, Answer(a)) /\ Keeps(a, v)
      BY <1>1, SmallKeep
    <2> HIDE DEF v
    <2>3. Keeps(v, t)
      BY <2>2, SmallKeep DEF Keeps
    <2> HIDE DEF t
    <2>4. Keeps(t, newstate(t, "MF_EST"))
      BY <2>3, SmallKeep DEF Keeps
    <2>5. \A x \in {Answer(a), newstate(t, "MF_EST"), a} : Keeps(d, x)
      BY <1>1, <2>2, <2>3, <2>4, KeepsOn
    <2>6. \A x \in {Answer(a), newstate(t, "MF_EST"), a} : Keeps(d, lapd_send_i(x))
      BY <1>2, <2>5 DEF Keeps
    <2> QED BY <2>1, <2>6
  <1>4. Keeps(d, rx_rnr(d, f))
    <2> DEFINE b == [a EXCEPT !.peer_busy = TRUE]
               c == newstate(b, "MF_EST")
               v == [c EXCEPT !.vs = f.nr]
    <2>1. rx_rnr(d, f) \in {lapd_send_i(x) : x \in {send_rnr(b, yes, no), send_rr(b, yes, no), v, b}}
      BY DEF rx_rnr
    <2>2. Keeps(a, b)
      <3> HIDE DEF a
      <3> QED BY <1>1, SmallKeep
    <2> HIDE DEF b, a, yes, no
    <2>3. Keeps(b, c) /\ Keeps(b, send_rnr(b, yes, no)) /\ Keeps(b, send_rr(b, yes, no))
      BY <2>2, SmallKeep DEF Keeps
    <2> HIDE DEF c
    <2>4. Keeps(c, v)
      BY <2>3, SmallKeep DEF Keeps
    <2> HIDE DEF v
    <2>5. \A x \in {send_rnr(b, yes, no), send_rr(b, yes, no), v, b} : Keeps(d, x)
      BY <1>1, <2>2, <2>3, <2>4, KeepsOn
    <2>6. \A x \in {send_rnr(b, yes, no), send_rr(b, yes, no), v, b} : Keeps(d, lapd_send_i(x))
      BY <1>2, <2>5 DEF Keeps
    <2> QED BY <2>1, <2>6
  <1>5. Keeps(d, rx_rej(d, f))
    <2> DEFINE b == [a EXCEPT !.peer_busy = FALSE, !.vs = f.nr, !.va = f.nr]
               s == stop_t200(b)
               X == {newstate(s, "MF_EST"), Answer(b), b, Answer(s), mdl_error(s), s}
    <2>1. rx_rej(d, f) \in {lapd_send_i(x) : x \in X}
      BY DEF rx_rej
    <2>2. Keeps(a, b)
      <3> HIDE DEF a
      <3> QED BY <1>1, SmallKeep
    <2> HIDE DEF b, a
    <2>3. Keeps(b, s) /\ Keeps(b, Answer(b))
      BY <2>2, SmallKeep DEF Keeps
    <2> HIDE DEF s
    <2>4. Keeps(s, newstate(s, "MF_EST")) /\ Keeps(s, Answer(s)) /\ Keeps(s, mdl_error(s))
      BY <2>3, SmallKeep DEF Keeps
    <2>5. \A x \in X : Keeps(d, x)
      BY <1>1, <2>2, <2>3, <2>4, KeepsOn
    <2>6. \A x \in X : Keeps(d, lapd_send_i(x))
      BY <1>2, <2>5 DEF Keeps
    <2> HIDE DEF X
    <2> QED BY <2>1, <2>6
  <1> QED BY <1>3, <1>4, <1>5

\* Nor does an I frame.
LEMMA IFrameKeeps ==
  ASSUME NEW d, Sound(d), NEW f, f.pf \in BOOLEAN, VRange \in Nat \ {0}, d.state \in Estd
  PROVE  lapd_rx_i(d, f).state \in Estd
  <1> DEFINE v == inc_mod(d.vr)
             x == [d EXCEPT !.err = 0, !.vr = v]
             a == lapd_acknowledge(x, f)
             b == IF a.own_busy THEN a ELSE Reassemble(a, f)
             c == lapd_send_i(b)
             yes == TRUE
             no == FALSE
             rnr == send_rnr(b, f.pf, no)
             rr == send_rr(b, yes, no)
  <1>1. lapd_rx_i(d, f) \in {SequenceError(d, f), lapd_send_i(rnr), lapd_send_i(rr), c,
                             update_pending_frames(c), send_rr(c, no, no)}
    BY DEF lapd_rx_i, Estd
  <1>2. Keeps(d, SequenceError(d, f))
    <2> DEFINE p == [d EXCEPT !.err = 1]
               q == [d EXCEPT !.err = 2]
               r == IF d.err # 1 THEN send_rej(p, f.pf) ELSE q
               k == lapd_acknowledge(r, f)
    <2>1. SequenceError(d, f) = lapd_send_i(k)
      BY DEF SequenceError
    <2>2. Keeps(d, p) /\ Keeps(d, q)
      BY SmallKeep
    <2> HIDE DEF p, q
    <2>3. Keeps(p, send_rej(p, f.pf))
      BY <2>2, SmallKeep DEF Keeps
    <2>4. Keeps(d, r)
      BY <2>2, <2>3, KeepsOn
    <2> HIDE DEF r
    <2>5. Keeps(r, k)
      BY <2>4, SmallKeep DEF Keeps
    <2> HIDE DEF k
    <2>6. Keeps(k, lapd_send_i(k))
      BY <2>5, SmallKeep DEF Keeps
    <2> QED BY <2>1, <2>4, <2>5, <2>6, KeepsOn
  <1>3. Keeps(d, x)
    <2>2. v \in 0..(VRange - 1)
      BY DEF inc_mod, Sound
    <2> HIDE DEF v
    <2>1. IsLink(x) /\ x.state = d.state /\ x.vr = v /\ x.chan = d.chan /\ x.ta = d.ta /\ x.tx = d.tx
      BY DEF Sound, IsLink, Fields
    <2> HIDE DEF x
    <2>3. d.state \in States
      BY DEF Sound
    <2> QED BY <2>1, <2>2, <2>3, Altered DEF Keeps
  <1> HIDE DEF x
  <1>4. Keeps(x, a)
    BY <1>3, SmallKeep DEF Keeps
  <1> HIDE DEF a
  <1>5. Keeps(a, b)
    BY <1>4, SmallKeep DEF Keeps
  <1> HIDE DEF b, yes, no
  <1>6. Keeps(d, b)
    BY <1>3, <1>4, <1>5, KeepsOn
  <1>7. Keeps(b, rnr) /\ Keeps(b, rr) /\ Keeps(b, c)
    BY <1>6, SmallKeep DEF Keeps
  <1> HIDE DEF rnr, rr, c
  <1>8. /\ Keeps(rnr, lapd_send_i(rnr)) /\ Keeps(rr, lapd_send_i(rr))
        /\ Keeps(c, update_pending_frames(c)) /\ Keeps(c, send_rr(c, no, no))
    BY <1>7, SmallKeep DEF Keeps
  <1>9. Keeps(d, lapd_rx_i(d, f))
    BY <1>1, <1>2, <1>6, <1>7, <1>8, KeepsOn
  <1> QED BY <1>9 DEF Keeps

\* A frame: a command that waits is answered, or waits on.
LEMMA FrameTried ==
  ASSUME NEW d, Sound(d), Tried(d), NEW f \in Frames, f.t \in Kinds, f.pf \in BOOLEAN,
         VRange \in Nat \ {0}, ~Reestablish
  PROVE  Tried(lapd_ph_data_ind(d, f))
  <1> DEFINE e == lapd_ph_data_ind(d, f)
  <1>1. \/ Malformed(f) /\ e = Refused(d, f)
        \/ e = rx_sabm(d, f) \/ e = rx_dm(d, f) \/ e = rx_ui(d, f) \/ e = rx_disc(d, f) \/ e = rx_ua(d, f)
        \/ e = rx_frmr(d)
        \/ f.t \in {"RR", "RNR", "REJ"} /\ e = lapd_rx_s(d, f)
        \/ e = lapd_rx_i(d, f)
    BY DEF lapd_ph_data_ind, lapd_rx_u, Kinds
  <1> HIDE DEF e
  <1>2. d.state \in States
    BY DEF Sound
  <1>3. ASSUME NEW x, Sound(x), Tried(x)
        PROVE  /\ Tried(mdl_error(x)) /\ Tried(send_ua(x, f)) /\ Tried(send_dm(x, f))
               /\ \A u : Tried(Up(x, u))
    BY <1>3, BesideSame, SameTried
  <1>4. CASE Malformed(f) /\ e = Refused(d, f)
    <2> DEFINE y == lapd_dl_flush_send(lapd_dl_flush_tx(d))
               x == [y EXCEPT !.err = 0]
               z == [d EXCEPT !.err = 0]
    <2>1. Refused(d, f) \in {mdl_error(z), mdl_error(d)} \/ (f.t = "DISC" /\ Refused(d, f) = mdl_error(x))
      BY DEF Refused
    <2>2. Sound(z) /\ Tried(z)
      BY SmallGo, BesideSame, SameTried DEF Goes
    <2>3. f.t = "DISC" => ~DiscEmpty
      BY <1>4 DEF DiscEmpty
    <2>4. Sound(y) /\ y.state = d.state /\ y.t200 = d.t200 /\ y.retrans = d.retrans
      <3>1. Sound(lapd_dl_flush_tx(d))
        BY SmallGo DEF Goes
      <3> QED BY <3>1, SmallGo, StatesAfter DEF Goes
    <2>5. f.t = "DISC" => Tried(y)
      <3> HIDE DEF y
      <3> QED BY <2>3, <2>4 DEF Tried, Commanding
    <2> HIDE DEF y, z
    <2>6. Sound(x) /\ Same(y, x)
      BY <2>4, SmallGo, BesideSame DEF Goes
    <2> HIDE DEF x
    <2>7. f.t = "DISC" => Tried(mdl_error(x))
      BY <1>3, <2>5, <2>6, SameTried
    <2> QED BY <1>3, <1>4, <2>1, <2>2, <2>7 DEF e
  <1>5. CASE e = rx_sabm(d, f)
    <2> DEFINE x == [d EXCEPT !.err = 0]
               dm == send_dm(x, f)
               st == stop_t200(dm)
               me == mdl_error(x)
               b == rx_sabm(d, f)
    <2>1. Sound(x) /\ Tried(x) /\ x.state = d.state
      <3>1. Sound(x) /\ Same(d, x)
        BY SmallGo, BesideSame DEF Goes
      <3> QED BY <3>1, SameTried DEF Same, Kept
    <2>2. \/ b.state = "MF_EST" /\ (d.state = "IDLE" \/ (d.state = "MF_EST" /\ f.p = <<>>))
          \/ b \in {me, x, send_ua(x, f), send_ua(me, f)}
          \/ d.state = "DISC_SENT" /\ b = Up(st, Prim("EST_IND"))
      <3>1. \/ d.state = "IDLE" \/ (d.state = "MF_EST" /\ f.p = <<>>)
            \/ b \in {me, x, send_ua(x, f), send_ua(me, f)}
            \/ d.state = "DISC_SENT" /\ b = Up(st, Prim("EST_IND"))
        BY <2>1 DEF rx_sabm
      <3>2. ASSUME d.state = "IDLE" \/ (d.state = "MF_EST" /\ f.p = <<>>)
            PROVE  b.state = "MF_EST"
        <4> DEFINE ua == send_ua(x, f)
                   h == lapd_dl_flush_hist(ua)
                   w == [h EXCEPT !.vs = 0, !.vr = 0, !.va = 0]
                   y == newstate(w, "MF_EST")
                   c == IF x.mode = "network" /\ f.p # <<>> THEN f.p ELSE y.cont
                   z == [y EXCEPT !.cont = c]
                   u == [prim |-> "EST_IND", p |-> f.p]
        <4>1. b = Up(z, u)
          <5>1. b = Accept(x, f)
            BY <2>1, <3>2 DEF rx_sabm
          <5> QED BY <5>1 DEF Accept, Establish
        <4>2. Sound(ua)
          BY <2>1, AnswersGo DEF Goes
        <4> HIDE DEF x, ua, c, u
        <4>3. IsLink(h)
          BY <4>2, SmallGo DEF Goes, Sound
        <4> HIDE DEF h
        <4>4. IsLink(w)
          BY <4>3 DEF IsLink, Fields
        <4> HIDE DEF w
        <4>5. IsLink(y) /\ y.state = "MF_EST"
          BY <4>4 DEF newstate, IsLink, Fields
        <4> HIDE DEF y
        <4>6. IsLink(z) /\ z.state = "MF_EST"
          BY <4>5 DEF IsLink, Fields
        <4> HIDE DEF z
        <4>7. Up(z, u).state = "MF_EST"
          BY <4>6 DEF Up, IsLink, Fields
        <4> HIDE DEF b
        <4> QED BY <4>1, <4>7
      <3> HIDE DEF b, x, me, st
      <3> QED BY <3>1, <3>2
    <2> HIDE DEF x
    <2>3. Sound(me) /\ Tried(me) /\ Sound(dm) /\ Tried(dm)
      BY <1>3, <2>1, SmallGo, AnswersGo DEF Goes
    <2>4. Tried(send_ua(x, f)) /\ Tried(send_ua(me, f))
      <3> HIDE DEF me
      <3> QED BY <1>3, <2>1, <2>3
    <2>5. ASSUME d.state = "DISC_SENT"
          PROVE  Tried(Up(st, Prim("EST_IND")))
      <3>1. dm.state = "DISC_SENT"
        <4>1. Same(x, dm)
          BY <2>1, BesideSame
        <4> QED BY <2>1, <2>5, <4>1 DEF Same, Kept
      <3> HIDE DEF dm
      <3>2. Sound(st) /\ st.state = "DISC_SENT" /\ st.retrans = dm.retrans /\ st.vs = dm.vs /\ st.hist = dm.hist
        <4>1. Sound(st)
          BY <2>3, SmallGo DEF Goes
        <4>2. st.state = dm.state /\ st.retrans = dm.retrans /\ st.vs = dm.vs /\ st.hist = dm.hist
          BY <2>3 DEF stop_t200, Sound, IsLink, Fields
        <4> QED BY <3>1, <4>1, <4>2
      <3>3. Tried(st)
        BY <2>3, <3>1, <3>2 DEF Tried, Commanding
      <3> HIDE DEF st
      <3> QED BY <1>3, <3>2, <3>3
    <2>6. b.state = "MF_EST" => Tried(b)
      BY OtherwiseTried
    <2> HIDE DEF b, me, st
    <2>7. Tried(b)
      BY <2>1, <2>2, <2>3, <2>4, <2>5, <2>6
    <2> QED BY <1>5, <2>7 DEF b, e
  <1>6. \A x, u : Sound(x) => /\ Tried(Up(newstate(stop_t200(x), "IDLE"), u)) /\ Tried(Up(Released(stop_t200(x)), u))
                              /\ Tried(Released(Up(stop_t200(x), u)))
    <2> SUFFICES ASSUME NEW x, NEW u, Sound(x)
                 PROVE  /\ Tried(Up(newstate(stop_t200(x), "IDLE"), u)) /\ Tried(Up(Released(stop_t200(x)), u))
                        /\ Tried(Released(Up(stop_t200(x), u)))
      OBVIOUS
    <2> DEFINE y == stop_t200(x)
    <2>1. Sound(y) /\ "IDLE" \in States
      BY SmallGo DEF Goes, States
    <2> HIDE DEF y
    <2>2. /\ Sound(newstate(y, "IDLE")) /\ newstate(y, "IDLE").state = "IDLE"
          /\ Sound(Released(y)) /\ Released(y).state = "IDLE" /\ Sound(Up(y, u))
      <3>1. Sound(newstate(y, "IDLE")) /\ Sound(Released(y)) /\ Sound(Up(y, u))
        BY <2>1, SmallGo DEF Goes
      <3>2. newstate(y, "IDLE").state = "IDLE" /\ Released(y).state = "IDLE"
        BY <2>1, StatesAfter
      <3> QED BY <3>1, <3>2
    <2>3. Tried(newstate(y, "IDLE")) /\ Tried(Released(y)) /\ Released(Up(y, u)).state = "IDLE"
      BY <2>2, OtherwiseTried, StatesAfter
    <2>4. Tried(Released(Up(y, u)))
      BY <2>3, OtherwiseTried
    <2>5. Tried(Up(newstate(y, "IDLE"), u)) /\ Tried(Up(Released(y), u))
      BY <1>3, <2>2, <2>3
    <2> QED BY <2>4, <2>5 DEF y
  <1>7. CASE e = rx_dm(d, f)
    <2>1. rx_dm(d, f) \in {d, mdl_error(d), Up(newstate(stop_t200(d), "IDLE"), Prim("REL_IND")),
                           Up(Released(stop_t200(d)), Prim("REL_CONF"))}
      BY DEF rx_dm
    <2>2. Tried(rx_dm(d, f))
      BY <1>3, <1>6, <2>1
    <2> QED BY <1>7, <2>2 DEF e
  <1>8. CASE e = rx_ui(d, f) \/ e = rx_frmr(d)
    <2>1. rx_ui(d, f) \in {d, Up(d, [prim |-> "UDATA_IND", p |-> f.p])} /\ rx_frmr(d) = mdl_error(d)
      BY DEF rx_ui, rx_frmr
    <2>2. Tried(rx_ui(d, f)) /\ Tried(rx_frmr(d))
      BY <1>3, <2>1
    <2> QED BY <1>8, <2>2 DEF e
  <1>9. CASE e = rx_disc(d, f)
    <2> DEFINE y == lapd_dl_flush_send(lapd_dl_flush_tx(d))
               x == [y EXCEPT !.err = 0]
               ua == send_ua(x, f)
               dm == send_dm(x, f)
    <2>1. Sound(y) /\ y.state = d.state
      <3>1. Sound(lapd_dl_flush_tx(d))
        BY SmallGo DEF Goes
      <3> QED BY <3>1, SmallGo, StatesAfter DEF Goes
    <2>2. Sound(x) /\ x.state = d.state
      <3> HIDE DEF y
      <3>1. Sound(x) /\ Same(y, x)
        BY <2>1, SmallGo, BesideSame DEF Goes
      <3> QED BY <2>1, <3>1 DEF Same, Kept
    <2>3. \/ rx_disc(d, f) \in {Up(newstate(stop_t200(dm), "IDLE"), Prim("REL_IND"))}
                               \cup {Up(newstate(stop_t200(ua), "IDLE"), Prim(p)) : p \in {"REL_IND", "REL_CONF"}}
          \/ d.state = "IDLE" /\ rx_disc(d, f) = dm
      BY <1>2, <2>2 DEF rx_disc, States, Estd
    <2> HIDE DEF x
    <2>4. Sound(ua) /\ Sound(dm) /\ Same(x, dm)
      BY <2>2, AnswersGo, BesideSame DEF Goes
    <2>5. d.state = "IDLE" => Tried(dm)
      BY <2>2, <2>4, OtherwiseTried DEF Same, Kept
    <2> HIDE DEF ua, dm
    <2>6. Tried(rx_disc(d, f))
      BY <1>6, <2>3, <2>4, <2>5
    <2> QED BY <1>9, <2>6 DEF e
  <1>10. CASE e = rx_ua(d, f)
    <2> DEFINE x == stop_t200(d)
               h == lapd_dl_flush_hist(x)
               w == [h EXCEPT !.vs = 0, !.vr = 0, !.va = 0]
               y == newstate(w, "MF_EST")
               z == lapd_send_i(y)
    <2>1. rx_ua(d, f) \in {d, Released(Up(x, Prim("REL_IND"))), Up(z, Prim("EST_CONF")), mdl_error(d),
                           Up(Released(x), Prim("REL_CONF"))}
      BY DEF rx_ua, Establish, Estd
    <2>2. Sound(h)
      <3>1. Sound(x)
        BY SmallGo DEF Goes
      <3> HIDE DEF x
      <3> QED BY <3>1, SmallGo DEF Goes
    <2> HIDE DEF h
    <2>3. IsLink(w) /\ w.state \in States /\ w.chan = h.chan /\ w.ta = h.ta /\ w.tx = h.tx /\ w.vr = 0
      BY <2>2 DEF Sound, IsLink, Fields
    <2> HIDE DEF w
    <2>4. Sound(w) /\ "MF_EST" \in States
      BY <2>2, <2>3, Altered DEF States
    <2>5. Sound(y) /\ y.state = "MF_EST"
      <3>1. Sound(y)
        BY <2>4, SmallGo DEF Goes
      <3>2. y.state = "MF_EST"
        BY <2>4, StatesAfter
      <3> QED BY <3>1, <3>2
    <2> HIDE DEF y
    <2>6. Sound(z) /\ z.state = "MF_EST"
      BY <2>5, SendsI DEF Sends, Goes
    <2> HIDE DEF z
    <2>7. Tried(Up(z, Prim("EST_CONF")))
      BY <1>3, <2>6, OtherwiseTried
    <2>8. Tried(rx_ua(d, f))
      BY <1>3, <1>6, <2>1, <2>7
    <2> QED BY <1>10, <2>8 DEF e
  <1>11. CASE f.t \in {"RR", "RNR", "REJ"} /\ e = lapd_rx_s(d, f)
    <2> DEFINE x == IF ~f.cmd /\ f.pf /\ d.state # "TIMER_RECOV" THEN mdl_error(d) ELSE d
    <2>1. Sound(x) /\ Tried(x) /\ x.state = d.state
      <3>1. Sound(mdl_error(d)) /\ Same(d, mdl_error(d))
        BY SmallGo, BesideSame DEF Goes
      <3>2. mdl_error(d).state = d.state
        BY <3>1 DEF Same, Kept
      <3> QED BY <1>3, <3>1, <3>2
    <2>2. \/ lapd_rx_s(d, f) \in {send_dm(x, f), x}
          \/ x.state \in Estd /\ lapd_rx_s(d, f) \in {rx_rr(x, f), rx_rnr(x, f), rx_rej(x, f)}
      BY <1>2, <1>11, <2>1 DEF lapd_rx_s, States, Estd
    <2> HIDE DEF x
    <2>3. x.state \in Estd => Tried(rx_rr(x, f)) /\ Tried(rx_rnr(x, f)) /\ Tried(rx_rej(x, f))
      BY <2>1, NumberedKeep, OtherwiseTried DEF Keeps, Estd
    <2>4. Tried(lapd_rx_s(d, f))
      BY <1>3, <2>1, <2>2, <2>3
    <2> QED BY <1>11, <2>4 DEF e
  <1>12. CASE e = lapd_rx_i(d, f)
    <2>1. d.state \in Estd \/ lapd_rx_i(d, f) \in {send_dm(d, f), d}
      BY <1>2 DEF lapd_rx_i, States, Estd
    <2>2. d.state \in Estd => Tried(lapd_rx_i(d, f))
      BY IFrameKeeps, OtherwiseTried DEF Estd
    <2>3. Tried(lapd_rx_i(d, f))
      BY <1>3, <2>1, <2>2
    <2> QED BY <1>12, <2>3 DEF e
  <1> QED BY <1>1, <1>4, <1>5, <1>7, <1>8, <1>9, <1>10, <1>11, <1>12

\* A release sends DISC or ends the link; the latter drops the command that waits.
LEMMA RelTried ==
  ASSUME NEW d, Sound(d), Tried(d), VRange \in Nat
  PROVE  /\ \A local : Tried(lapd_rel_req(d, local))
         /\ Tried(lapd_rel_req_idle(d))
         /\ \A m : Tried(lapd_recv_dlsap(d, "REL", m))
  <1>1. Tried(lapd_rel_req_idle(d))
    BY BesideSame, SameTried DEF lapd_rel_req_idle
  <1>2. ASSUME NEW local
        PROVE  Tried(lapd_rel_req(d, local))
    <2> DEFINE f == Frame("DISC", TRUE, TRUE, <<>>)
               x == Released(stop_t200(d))
               u == Prim("REL_CONF")
    <2>1. lapd_rel_req(d, local) \in {Up(x, u), d, Command(d, "DISC_SENT", f)}
      BY DEF lapd_rel_req
    <2>2. IsRec(f) /\ f.p \in Messages \cup {<<>>} /\ "DISC_SENT" \in States
      BY FramesAre DEF Frame, States
    <2> HIDE DEF f
    <2>3. Tried(Command(d, "DISC_SENT", f))
      BY <2>2, CommandTried
    <2>4. Sound(stop_t200(d))
      BY SmallGo DEF Goes
    <2>5. Sound(x)
      BY <2>4, SmallGo DEF Goes
    <2>6. x.state = "IDLE"
      BY <2>4, StatesAfter
    <2> HIDE DEF x, u
    <2>7. Tried(Up(x, u))
      BY <2>5, <2>6, OtherwiseTried, BesideSame, SameTried
    <2> QED BY <2>1, <2>3, <2>7
  <1>3. ASSUME NEW m
        PROVE  Tried(lapd_recv_dlsap(d, "REL", m))
    <2> DEFINE local == m = <<"local">>
    <2>1. lapd_recv_dlsap(d, "REL", m) \in {d, lapd_rel_req_idle(d), lapd_rel_req(d, local)}
      BY DEF lapd_recv_dlsap
    <2> HIDE DEF local
    <2> QED BY <1>1, <1>2, <2>1
  <1> QED BY <1>1, <1>2, <1>3

\* Primitives of layer 3: no command is forgotten.
LEMMA DlsapTried ==
  ASSUME NEW d, Sound(d), Tried(d), NEW prim \in Prims, NEW m \in Messages \cup {<<>>}, VRange \in Nat
  PROVE  Tried(lapd_recv_dlsap(d, prim, m))
  <1> DEFINE local == m = <<"local">>
  <1>1. \/ lapd_recv_dlsap(d, prim, m) \in
             {d, lapd_udata_req(d, m), lapd_est_req(d, m), lapd_res_req(d, m), lapd_rel_req_idle(d),
              lapd_rel_req(d, local)}
        \/ d.state \in Estd /\ lapd_recv_dlsap(d, prim, m) \in {lapd_data_req(d, m), lapd_susp_req(d)}
    BY DEF lapd_recv_dlsap, Prims, l2downstate
  <1> HIDE DEF local
  <1>2. Tried(lapd_udata_req(d, m)) /\ Tried(lapd_rel_req_idle(d))
    <2> DEFINE yes == TRUE
               no == FALSE
               f == Frame("UI", yes, no, m)
    <2>1. lapd_udata_req(d, m) = Tx(d, f)
      BY DEF lapd_udata_req
    <2>2. IsRec(f)
      <3> HIDE DEF yes, no
      <3> QED BY FramesAre
    <2> HIDE DEF f
    <2> QED BY <2>1, <2>2, BesideSame, SameTried DEF lapd_rel_req_idle
  <1>3. \A t, p : LET f == Frame(t, TRUE, TRUE, p) IN IsRec(f) /\ f.p = p
    BY FramesAre DEF Frame
  <1>4. "SABM_SENT" \in States /\ "DISC_SENT" \in States
    BY DEF States
  <1>5. Tried(lapd_est_req(d, m))
    <2> DEFINE f == Frame("SABM", TRUE, TRUE, m)
               x == lapd_dl_flush_send(d)
               y == [x EXCEPT !.rcv = Null]
    <2>1. Goes(d, x)
      BY SmallGo
    <2>2. lapd_est_req(d, m) = Command(y, "SABM_SENT", f)
      BY DEF lapd_est_req
    <2> HIDE DEF x
    <2>3. Alike(x, y)
      BY <2>1 DEF Alike, IsLink, Fields, Sound, Goes
    <2> HIDE DEF y
    <2>4. Sound(y)
      BY <2>1, <2>3, AlikeGoes DEF Goes
    <2>5. IsRec(f) /\ f.p \in Messages \cup {<<>>}
      BY <1>3
    <2> HIDE DEF f
    <2> QED BY <1>4, <2>2, <2>4, <2>5, CommandTried
  <1>6. Tried(lapd_res_req(d, m))
    <2> DEFINE b == IF m = <<>> THEN Null ELSE m
               y == [d EXCEPT !.buf = b, !.sent = 0, !.rcv = Null]
               f == Frame("SABM", TRUE, TRUE, <<>>)
    <2>1. lapd_res_req(d, m) = Command(y, "SABM_SENT", f)
      BY DEF lapd_res_req
    <2> HIDE DEF b
    <2>2. Alike(d, y)
      BY DEF Alike, IsLink, Fields, Sound
    <2> HIDE DEF y
    <2>3. Sound(y)
      BY <2>2, AlikeGoes DEF Goes
    <2>4. IsRec(f) /\ f.p \in Messages \cup {<<>>}
      BY <1>3
    <2> HIDE DEF f
    <2> QED BY <1>4, <2>1, <2>3, <2>4, CommandTried
  <1>7. Tried(lapd_rel_req(d, local))
    BY RelTried
  <1>8. d.state \in Estd => Tried(lapd_data_req(d, m))
    <2> DEFINE q == Append(d.queue, m)
               y == [d EXCEPT !.queue = q]
    <2>1. lapd_data_req(d, m) \in {d, lapd_send_i(y)}
      BY DEF lapd_data_req
    <2> HIDE DEF q
    <2>2. Alike(d, y) /\ y.state = d.state
      BY DEF Alike, IsLink, Fields, Sound
    <2> HIDE DEF y
    <2>3. Sound(y)
      BY <2>2, AlikeGoes DEF Goes
    <2>4. lapd_send_i(y).state = d.state
      BY <2>2, <2>3, SendsI DEF Sends
    <2>5. d.state \in Estd => Tried(lapd_send_i(y))
      BY <2>4, OtherwiseTried DEF Estd
    <2> QED BY <2>1, <2>5
  <1>9. d.state \in Estd => Tried(lapd_susp_req(d))
    <2> DEFINE q == IF d.buf = Null THEN d.queue ELSE <<d.buf>> \o d.queue
               x == lapd_dl_flush_tx(d)
               y == [x EXCEPT !.queue = q, !.buf = Null, !.t200 = FALSE, !.t203 = FALSE]
               u == Prim("SUSP_CONF")
    <2>1. lapd_susp_req(d) = Up(y, u)
      BY DEF lapd_susp_req
    <2>2. IsLink(x) /\ x.state = d.state
      BY DEF lapd_dl_flush_tx, lapd_dl_flush_hist, Sound, IsLink, Fields
    <2> HIDE DEF x, q, u
    <2>3. IsLink(y) /\ y.state = d.state
      BY <2>2 DEF IsLink, Fields
    <2> HIDE DEF y
    <2>4. Up(y, u).state = d.state
      BY <2>3 DEF Up, IsLink, Fields
    <2> QED BY <2>1, <2>4, OtherwiseTried DEF Estd
  <1> QED BY <1>1, <1>2, <1>5, <1>6, <1>7, <1>8, <1>9

\* T200: a command goes out once more and waits on, or is given up.
LEMMA T200Tried ==
  ASSUME NEW d, Sound(d), Tried(d), ~Reestablish
  PROVE  Tried(lapd_t200_cb(d))
  <1> DEFINE x == stop_t200(d)
  <1>1. N200Est \in Nat
    BY EntityAssumed DEF LapdAssumption
  <1>2. Sound(x)
    BY SmallGo DEF Goes
  <1>3. x.state = d.state /\ x.retrans = d.retrans /\ x.vs = d.vs /\ x.hist = d.hist
    BY DEF stop_t200, Sound, IsLink, Fields
  <1>4. ASSUME Commanding(d), NEW prim
        PROVE  Tried(RetryCommand(x, prim))
    <2> HIDE DEF x
    <2> DEFINE t == IF x.state = "SABM_SENT" THEN "SABM" ELSE "DISC"
               p == x.hist[Slot(x.vs)].p
               f == Frame(t, TRUE, TRUE, p)
               w == Tx(x, f)
               n == w.retrans + 1
               y == [w EXCEPT !.retrans = n]
               u == Up(x, Prim(prim))
    <2>1. \/ RetryCommand(x, prim) = Released(mdl_error(u))
          \/ ~(x.retrans >= N200Est) /\ RetryCommand(x, prim) = start_t200(y)
      BY DEF RetryCommand, lapd_send_resend
    <2>2. Tried(Released(mdl_error(u)))
      <3>1. Sound(u)
        BY <1>2, SmallGo DEF Goes
      <3> HIDE DEF u
      <3>2. Sound(mdl_error(u))
        BY <3>1, SmallGo DEF Goes
      <3>3. Released(mdl_error(u)).state = "IDLE"
        BY <3>2, StatesAfter
      <3> QED BY <3>3, OtherwiseTried
    <2>3. ASSUME ~(x.retrans >= N200Est)
          PROVE  Tried(start_t200(y))
      <3>1. IsRec(f)
        <4> HIDE DEF t, p
        <4> QED BY FramesAre
      <3> HIDE DEF f
      <3>2. Sound(w) /\ Same(x, w)
        BY <1>2, <3>1, TxGoes, BesideSame DEF Goes
      <3> HIDE DEF w
      <3>3. w.state = d.state /\ w.retrans = d.retrans /\ w.vs = d.vs /\ w.hist = d.hist
        BY <1>3, <3>2 DEF Same, Kept
      <3>4. d.retrans \in 0..N200Est
        BY <1>4 DEF Tried
      <3>5. n \in 0..N200Est
        BY <1>1, <1>3, <2>3, <3>3, <3>4
      <3> HIDE DEF n
      <3>6. IsLink(y) /\ y.state = w.state /\ y.retrans = n /\ y.vs = w.vs /\ y.hist = w.hist
        BY <3>2 DEF Sound, IsLink, Fields
      <3> HIDE DEF y
      <3>7. LET z == start_t200(y) IN /\ z.t200 = TRUE /\ z.state = y.state /\ z.retrans = n
                                      /\ z.vs = y.vs /\ z.hist = y.hist
        BY <3>6 DEF start_t200, IsLink, Fields
      <3> DEFINE z == start_t200(y)
      <3>8. z.t200 = TRUE /\ z.retrans = n /\ z.vs = d.vs /\ z.hist = d.hist
        BY <3>3, <3>6, <3>7
      <3> HIDE DEF z
      <3>9. Tried(z)
        BY <1>4, <3>5, <3>8 DEF Tried
      <3> QED BY <3>9 DEF z
    <2> QED BY <2>1, <2>2, <2>3
  <1>5. ASSUME NEW y, Sound(y), y.state = "TIMER_RECOV"
        PROVE  Tried(Recover(y))
    <2> DEFINE n == y.retrans + 1
               v == [y EXCEPT !.retrans = n]
               vs == sub_mod(v.vs, 1)
               h == v.hist[Slot(vs)]
               yes == TRUE
               f == IFrame(vs, v.vr, yes, h)
    <2>1. Recover(y) \in {start_t200(w) : w \in {Tx(v, f), send_rnr(v, yes, yes), send_rr(v, yes, yes), v}}
                         \cup {mdl_error(v)}
      BY DEF Recover
    <2>2. IsRec(f)
      <3> HIDE DEF v, yes, h, vs
      <3> QED BY FramesAre
    <2> HIDE DEF n
    <2>3. Alike(y, v) /\ v.state = "TIMER_RECOV"
      BY <1>5 DEF Alike, IsLink, Fields, Sound
    <2> HIDE DEF v, f, yes
    <2>4. Sound(v)
      BY <1>5, <2>3, AlikeGoes DEF Goes
    <2>5. \A w \in {Tx(v, f), send_rnr(v, yes, yes), send_rr(v, yes, yes), v} : Sound(w)
      BY <2>2, <2>4, TxGoes, AnswersGo DEF Goes
    <2>6. \A w \in {Tx(v, f), send_rnr(v, yes, yes), send_rr(v, yes, yes), mdl_error(v)} : Same(v, w)
      BY <2>2, <2>4, BesideSame
    <2>7. \A w \in {Tx(v, f), send_rnr(v, yes, yes), send_rr(v, yes, yes), mdl_error(v), v} : w.state = "TIMER_RECOV"
      BY <2>3, <2>6 DEF Same, Kept
    <2>8. \A w : Sound(w) => start_t200(w).state = w.state
      BY DEF start_t200, Sound, IsLink, Fields
    <2>9. Recover(y).state = "TIMER_RECOV"
      BY <2>1, <2>5, <2>7, <2>8
    <2> QED BY <2>9, OtherwiseTried
  <1> DEFINE y == [x EXCEPT !.retrans = 0]
             z == newstate(y, "TIMER_RECOV")
  <1>6. Sound(z) /\ z.state = "TIMER_RECOV"
    <2> HIDE DEF x
    <2>1. Alike(x, y) /\ "TIMER_RECOV" \in States
      BY <1>2 DEF Alike, IsLink, Fields, Sound, States
    <2> HIDE DEF y
    <2>2. Sound(y)
      BY <1>2, <2>1, AlikeGoes DEF Goes
    <2>3. Sound(z)
      BY <2>1, <2>2, SmallGo DEF Goes
    <2>4. z.state = "TIMER_RECOV"
      BY <2>2, StatesAfter
    <2> QED BY <2>3, <2>4
  <1>7. \/ Commanding(d) /\ lapd_t200_cb(d) \in {RetryCommand(x, "REL_IND"), RetryCommand(x, "REL_CONF")}
        \/ lapd_t200_cb(d) = Recover(z)
        \/ x.state = "TIMER_RECOV" /\ lapd_t200_cb(d) = Recover(x)
        \/ ~Commanding(x) /\ lapd_t200_cb(d) = x
    <2>1. x.state = d.state
      BY <1>3
    <2> QED BY <2>1 DEF lapd_t200_cb, Commanding
  <1>8. ~Commanding(x) => Tried(x)
    BY DEF Tried
  <1> HIDE DEF x, z
  <1> QED BY <1>2, <1>4, <1>5, <1>6, <1>7, <1>8

-----------------------------------------------------------------------------
(* The steps of the entity, once more for commands.                        *)

AllTried == \A s \in Sapis : Tried(dl[s])

\* A data link becomes d, and its frames wait or are taken.
LEMMA EnqueueTried ==
  ASSUME IInv, AllTried, NEW s \in Sapis, NEW d, IsLink(d), Tried(d), tx_ph_data_enqueue(s, d)
  PROVE  AllTried'
  <1> DEFINE e == [d EXCEPT !.tx = <<>>]
  <1>1. Same(d, e)
    BY DEF IsLink, Fields, Same, Kept
  <1>2. dl' = [dl EXCEPT ![s] = d] \/ dl' = [dl EXCEPT ![s] = e]
    BY DEF tx_ph_data_enqueue
  <1>3. Tried(e)
    <2> HIDE DEF e
    <2> QED BY <1>1, SameTried
  <1> HIDE DEF e
  <1>4. \A r \in Sapis : dl'[r] \in {d, e, dl[r]}
    BY <1>2 DEF IInv
  <1> QED BY <1>3, <1>4 DEF AllTried

\* The same for a step that tells layer 3.
LEMMA RslTried ==
  ASSUME IInv, AllTried, NEW s \in Sapis, NEW d, Sound(d), Tried(d), send_rslms_dlsap(s, d)
  PROVE  AllTried'
  <1> DEFINE e == [d EXCEPT !.up = <<>>]
  <1>1. IsLink(e) /\ Same(d, e)
    BY DEF Sound, IsLink, Fields, Same, Kept
  <1>2. tx_ph_data_enqueue(s, e)
    BY DEF send_rslms_dlsap
  <1> HIDE DEF e
  <1>3. Tried(e)
    BY <1>1, SameTried
  <1> QED BY <1>1, <1>2, <1>3, EnqueueTried

\* A frame from layer 1, and T200.
LEMMA BelowTried ==
  ASSUME IInv, AllTried, NEW s \in Sapis, NEW f \in Frames, NEW c \in Chans, PhData(s, f, c)
  PROVE  AllTried'
  <1> DEFINE t == IF Acch THEN ta ELSE Null
             x == [dl[s] EXCEPT !.chan = c, !.ta = t]
             d == lapd_ph_data_ind(x, f)
  <1>1. VRange \in Nat \ {0} /\ f.t \in Kinds /\ f.pf \in BOOLEAN /\ c # Null /\ ~Reestablish
    BY EntityAssumed DEF EntityAssumption, LapdAssumption, Kinds
  <1>2. Whole(dl[s]) /\ Tried(dl[s])
    BY DEF IInv, Linked, AllTried
  <1>3. send_rslms_dlsap(s, d)
    BY DEF PhData
  <1>4. ~Acch => t = Null
    OBVIOUS
  <1> HIDE DEF t
  <1>5. /\ IsLink(x) /\ x.state = dl[s].state /\ x.vr = dl[s].vr /\ x.chan = c /\ x.ta = t /\ x.tx = dl[s].tx
        /\ Same(dl[s], x)
    BY <1>2 DEF Whole, IsLink, Fields, Same, Kept
  <1> HIDE DEF x
  <1>6. Queued(x) = Queued(dl[s])
    BY <1>5 DEF Queued
  <1>7. Sound(x)
    BY <1>1, <1>2, <1>4, <1>5, <1>6 DEF Whole, Sound
  <1>8. Tried(x)
    BY <1>2, <1>5, SameTried
  <1>9. Sound(d) /\ Tried(d)
    BY <1>1, <1>7, <1>8, FrameTaken, FrameTried
  <1> HIDE DEF d
  <1> QED BY <1>3, <1>9, RslTried

\* T200 runs only where a context is known.
LEMMA TimerTried ==
  ASSUME IInv, AllTried, NEW s \in Sapis, T200(s)
  PROVE  AllTried'
  <1> DEFINE t == IF Acch THEN ta ELSE Null
             x == [dl[s] EXCEPT !.ta = t]
             d == lapd_t200_cb(x)
  <1>1. dl[s].t200 # FALSE /\ send_rslms_dlsap(s, d)
    BY DEF T200
  <1>2. Linked(dl[s], known[s]) /\ Whole(dl[s]) /\ Tried(dl[s]) /\ ~Reestablish
    BY EntityAssumed DEF IInv, Linked, AllTried, EntityAssumption
  <1>3. dl[s].chan # Null
    BY <1>1, <1>2 DEF Linked, Still
  <1>4. ~Acch => t = Null
    OBVIOUS
  <1> HIDE DEF t
  <1>5. /\ IsLink(x) /\ x.state = dl[s].state /\ x.vr = dl[s].vr /\ x.chan = dl[s].chan /\ x.ta = t
        /\ x.tx = dl[s].tx /\ Same(dl[s], x)
    BY <1>2 DEF Whole, IsLink, Fields, Same, Kept
  <1> HIDE DEF x
  <1>6. Queued(x) = Queued(dl[s])
    BY <1>5 DEF Queued
  <1>7. Sound(x)
    BY <1>2, <1>3, <1>4, <1>5, <1>6 DEF Whole, Sound
  <1>8. Tried(x)
    BY <1>2, <1>5, SameTried
  <1>9. Sound(d) /\ Tried(d)
    BY <1>2, <1>7, <1>8, T200Goes, T200Tried DEF Goes
  <1> HIDE DEF d
  <1> QED BY <1>1, <1>9, RslTried

\* Layer 1 takes a frame, or the entity is reset.
LEMMA ReadyResetTried ==
  ASSUME IInv, AllTried, PhReady \/ Reset
  PROVE  AllTried'
  <1>1. \A r \in Sapis : Whole(dl[r]) /\ Tried(dl[r])
    BY DEF IInv, Linked, AllTried
  <1>2. CASE PhReady
    <2>1. dl' = dl \/ \E s : dl' = [dl EXCEPT ![s].tx = Tail(@)]
      BY <1>2 DEF PhReady
    <2>2. CASE dl' = dl
      BY <2>2 DEF AllTried
    <2>3. CASE \E s : dl' = [dl EXCEPT ![s].tx = Tail(@)]
      <3>1. PICK s : dl' = [dl EXCEPT ![s].tx = Tail(@)]
        BY <2>3
      <3> DEFINE q == Tail(dl[s].tx)
                 e == [dl[s] EXCEPT !.tx = q]
      <3>2. dl' = [dl EXCEPT ![s] = e]
        BY <3>1
      <3>3. \A r \in Sapis : dl'[r] = dl[r] \/ (r = s /\ dl'[r] = e)
        BY <3>2 DEF IInv
      <3> HIDE DEF q
      <3>4. s \in Sapis => Same(dl[s], e)
        BY <1>1 DEF Whole, IsLink, Fields, Same, Kept
      <3> HIDE DEF e
      <3>5. s \in Sapis => Tried(e)
        BY <1>1, <3>4, SameTried
      <3> QED BY <1>1, <3>3, <3>5 DEF AllTried
    <2> QED BY <2>1, <2>2, <2>3
  <1>3. CASE Reset
    <2>1. dl' = [s \in Sapis |-> lapd_dl_reset(dl[s])]
      BY <1>3 DEF Reset
    <2>2. ASSUME NEW r \in Sapis PROVE Tried(lapd_dl_reset(dl[r]))
      <3> DEFINE d == dl[r]
                 x == Released(d)
                 e == [x EXCEPT !.rcv = Null, !.t200 = FALSE, !.t203 = FALSE]
      <3>1. lapd_dl_reset(d) = d \/ lapd_dl_reset(d) = e
        BY DEF lapd_dl_reset
      <3>2. IsLink(d)
        BY <1>1 DEF Whole
      <3> HIDE DEF d
      <3>3. IsLink(x) /\ x.state = "IDLE"
        BY <3>2 DEF Released, lapd_dl_flush_send, lapd_dl_flush_tx, lapd_dl_flush_hist, newstate, IsLink, Fields
      <3> HIDE DEF x
      <3>4. e.state = "IDLE"
        BY <3>3 DEF IsLink, Fields
      <3> HIDE DEF e
      <3>5. Tried(e)
        BY <3>4, OtherwiseTried
      <3>6. Tried(d)
        BY <1>1 DEF d
      <3> QED BY <3>1, <3>5, <3>6 DEF d
    <2> QED BY <2>1, <2>2 DEF AllTried
  <1> QED BY <1>2, <1>3

\* RSL messages from layer 3.
LEMMA RllTried ==
  ASSUME IInv, AllTried, NEW s \in Sapis, NEW t \in Msgs, NEW c \in Chans, NEW m \in Messages,
         rslms_rx_rll(s, t, c, m)
  PROVE  AllTried'
  <1>1. /\ VRange \in Nat /\ Whole(dl[s]) /\ Tried(dl[s]) /\ known[s] \in BOOLEAN /\ c # Null
        /\ t \in {"UNIT_DATA_REQ", "EST_REQ", "DATA_REQ", "SUSP_REQ", "RES_REQ", "RECON_REQ", "REL_REQ",
                 "LOCAL_REL_REQ"}
    BY EntityAssumed DEF IInv, Linked, EntityAssumption, LapdAssumption, AllTried
  <1>2. CASE t \in Refusable /\ ~known[s]
    BY <1>2 DEF rslms_rx_rll, AllTried
  <1>3. CASE ~(t \in Refusable /\ ~known[s])
    <2>1. Down(s, t, c, m)
      BY <1>3 DEF rslms_rx_rll
    <2>2. CASE t = "UNIT_DATA_REQ"
      <3>1. \E q : tx_ph_data_enqueue(s, dl[s]) \/ tx_ph_data_enqueue(s, [dl[s] EXCEPT !.tx = q])
        BY <2>1, <2>2 DEF Down, rslms_rx_rll_udata_req
      <3>2. PICK q : tx_ph_data_enqueue(s, dl[s]) \/ tx_ph_data_enqueue(s, [dl[s] EXCEPT !.tx = q])
        BY <3>1
      <3> DEFINE e == [dl[s] EXCEPT !.tx = q]
      <3>3. IsLink(dl[s]) /\ IsLink(e) /\ Same(dl[s], e)
        BY <1>1 DEF Whole, IsLink, Fields, Same, Kept
      <3>4. tx_ph_data_enqueue(s, dl[s]) \/ tx_ph_data_enqueue(s, e)
        BY <3>2
      <3> HIDE DEF e
      <3>5. Tried(e)
        BY <1>1, <3>3, SameTried
      <3> QED BY <1>1, <3>3, <3>4, <3>5, EnqueueTried
    <2>3. CASE t \in {"EST_REQ", "RES_REQ", "RECON_REQ"}
      <3> DEFINE x == set_lapdm_context(dl[s], c)
                 u == Prim("REL_IND")
      <3>1. \/ send_rslms_dlsap(s, Up(x, u))
            \/ \E prim \in {"EST", "RES", "RECON"} : send_rslms_dlsap(s, lapd_recv_dlsap(x, prim, m))
        BY <2>1, <2>3 DEF Down, rslms_rx_rll_est_req, rslms_rx_rll_res_req, RelInd, Request
      <3>2. Sound(x) /\ Same(dl[s], x)
        <4>1. Sound(x)
          BY <1>1, ContextSound
        <4>2. Same(dl[s], x)
          BY <1>1 DEF set_lapdm_context, Whole, IsLink, Fields, Same, Kept
        <4> QED BY <4>1, <4>2
      <3> HIDE DEF x, u
      <3>3. Tried(x)
        BY <1>1, <3>2, SameTried
      <3>4. Sound(Up(x, u)) /\ Tried(Up(x, u))
        BY <3>2, <3>3, SmallGo, BesideSame, SameTried DEF Goes
      <3>5. \A prim \in {"EST", "RES", "RECON"} :
              Sound(lapd_recv_dlsap(x, prim, m)) /\ Tried(lapd_recv_dlsap(x, prim, m))
        BY <1>1, <3>2, <3>3, DlsapGoes, DlsapTried DEF Prims, Goes
      <3> QED BY <3>1, <3>4, <3>5, RslTried
    <2>4. CASE t \in {"DATA_REQ", "SUSP_REQ", "REL_REQ", "LOCAL_REL_REQ"}
      <3> DEFINE x == dl[s]
                 none == <<>>
                 mode == <<"local">>
      <3>1. \/ send_rslms_dlsap(s, lapd_recv_dlsap(x, "DATA", m))
            \/ send_rslms_dlsap(s, x)
            \/ send_rslms_dlsap(s, lapd_recv_dlsap(x, "SUSP", none))
            \/ send_rslms_dlsap(s, lapd_recv_dlsap(x, "REL", none))
            \/ send_rslms_dlsap(s, lapd_recv_dlsap(x, "REL", mode))
        BY <2>1, <2>4 DEF Down, Request
      <3>2. Sound(x) /\ Tried(x)
        BY <1>1, <1>3, <2>4 DEF IInv, Linked, Whole, Sound, Refusable
      <3>3. none \in Messages \cup {<<>>}
        OBVIOUS
      <3> HIDE DEF x, none, mode
      <3>4. "DATA" \in Prims /\ "SUSP" \in Prims /\ "REL" \in Prims
        BY DEF Prims
      <3>5. /\ Sound(lapd_recv_dlsap(x, "DATA", m)) /\ Tried(lapd_recv_dlsap(x, "DATA", m))
            /\ Sound(lapd_recv_dlsap(x, "SUSP", none)) /\ Tried(lapd_recv_dlsap(x, "SUSP", none))
            /\ Sound(lapd_recv_dlsap(x, "REL", none)) /\ Tried(lapd_recv_dlsap(x, "REL", none))
        BY <1>1, <3>2, <3>3, <3>4, DlsapGoes, DlsapTried DEF Goes
      <3>6. Sound(lapd_recv_dlsap(x, "REL", mode)) /\ Tried(lapd_recv_dlsap(x, "REL", mode))
        BY <1>1, <3>2, <3>4, DlsapGoes, RelTried DEF Goes
      <3> QED BY <3>1, <3>2, <3>5, <3>6, RslTried
    <2> QED BY <1>1, <2>2, <2>3, <2>4
  <1> QED BY <1>2, <1>3

\* Every step of the entity.
LEMMA EveryStepTried ==
  ASSUME IInv, AllTried, [EntityNext]_entity_vars
  PROVE  AllTried'
  <1>1. Active \subseteq Sapis
    BY EntityAssumed DEF EntityAssumption
  <1>2. CASE PhReady \/ Reset
    BY <1>2, ReadyResetTried
  <1>3. CASE PhDataBad \/ PhCommon \/ UNCHANGED entity_vars
    BY <1>3 DEF PhDataBad, PhCommon, entity_vars, AllTried
  <1>4. CASE \E s \in Active : T200(s)
    BY <1>1, <1>4, TimerTried
  <1>5. CASE \E s \in Active : \E f \in Frames, c \in Chans : PhData(s, f, c)
    BY <1>1, <1>5, BelowTried
  <1>6. CASE \E s \in Active : \E t \in Msgs, c \in Chans, m \in Messages : rslms_rx_rll(s, t, c, m)
    BY <1>1, <1>6, RllTried
  <1> QED BY <1>2, <1>3, <1>4, <1>5, <1>6 DEF EntityNext

\* No command waits at the start.
LEMMA StartsTried ==
  ASSUME lapdm_entity_init
  PROVE  AllTried
  <1>1. \A s \in Sapis : dl[s].state = "IDLE"
    BY DEF lapdm_entity_init, lapd_dl_init
  <1> QED BY <1>1, OtherwiseTried DEF AllTried

\* What AllTried says of the numbers and of T200.
LEMMA TriedSupervised ==
  ASSUME AllTried
  PROVE  EstSupervised
  <1>1. N200Est \in Nat
    BY EntityAssumed DEF LapdAssumption
  <1>2. ASSUME NEW s \in Sapis
        PROVE  /\ dl[s].state = "SABM_SENT" => dl[s].t200
               /\ Commanding(dl[s]) => dl[s].retrans <= N200Est
    <2>1. Tried(dl[s])
      BY DEF AllTried
    <2>2. dl[s].state = "SABM_SENT" => dl[s].t200
      BY <2>1 DEF Tried, Commanding
    <2>3. Commanding(dl[s]) => dl[s].retrans <= N200Est
      BY <1>1, <2>1 DEF Tried
    <2> QED BY <2>2, <2>3
  <1> QED BY <1>2 DEF EstSupervised

-----------------------------------------------------------------------------
(* The theorems.                                                           *)

\* The entity starts without contexts and with nothing to send.
LEMMA StartsSound ==
  ASSUME lapdm_entity_init
  PROVE  IInv
  <1> DEFINE d == lapd_dl_init(Mode)
  <1>1. VRange \in Nat /\ VRange > 1
    BY EntityAssumed DEF LapdAssumption
  <1>2. /\ IsLink(d) /\ d.state = "IDLE" /\ d.vr = 0 /\ d.ta = Null /\ d.tx = <<>> /\ d.up = <<>>
        /\ d.t200 = FALSE
    <2> DEFINE none == <<>>
               h == NoHist
               no == FALSE
    <2>1. d = [mode |-> Mode, state |-> "IDLE", vs |-> 0, va |-> 0, vr |-> 0,
               retrans |-> 0, t200 |-> no, t203 |-> no, hist |-> h,
               queue |-> none, buf |-> Null, sent |-> 0, rcv |-> Null, err |-> 0,
               own_busy |-> no, peer_busy |-> no, cont |-> Null,
               chan |-> Null, ta |-> Null, tx |-> none, up |-> none]
      BY DEF lapd_dl_init
    <2>2. none = <<>> /\ no = FALSE
      OBVIOUS
    <2> HIDE DEF d, none, h, no
    <2>3. IsLink(d)
      BY <2>1 DEF IsLink, Fields
    <2> QED BY <2>1, <2>2, <2>3
  <1>3. dl = [s \in Sapis |-> d] /\ known = [s \in Sapis |-> FALSE] /\ pending = FALSE /\ fault = FALSE
    BY DEF lapdm_entity_init
  <1> HIDE DEF d
  <1>4. Queued(d) = {} /\ <<>> \in Seq({})
    BY <1>2 DEF Queued
  <1>5. Whole(d) /\ Still(d)
    BY <1>1, <1>2, <1>4 DEF Whole, Still, States
  <1>6. \A s \in Sapis : dl[s] = d /\ known[s] = FALSE
    BY <1>3
  <1>7. \A s \in Sapis : Linked(dl[s], known[s])
    BY <1>2, <1>5, <1>6 DEF Linked
  <1>8. Direct
    BY <1>2, <1>3, <1>6 DEF Direct
  <1> QED BY <1>3, <1>7, <1>8 DEF IInv

\* Every step of the entity, for each action in turn.
LEMMA EveryStep ==
  ASSUME IInv, [EntityNext]_entity_vars
  PROVE  IInv' /\ (~Acch => AcknowledgedStep)
  <1>1. Active \subseteq Sapis
    BY EntityAssumed DEF EntityAssumption
  <1>2. CASE PhReady
    BY <1>2, PhReadyStep
  <1>3. CASE Reset
    BY <1>3, ResetStep
  <1>4. CASE PhDataBad \/ PhCommon \/ UNCHANGED entity_vars
    <2>1. UNCHANGED <<dl, known, pending, fault>>
      BY <1>4 DEF PhDataBad, PhCommon, entity_vars
    <2> QED BY <2>1, IdleStep
  <1>5. CASE \E s \in Active : T200(s)
    BY <1>1, <1>5, T200Step
  <1>6. CASE \E s \in Active : \E f \in Frames, c \in Chans : PhData(s, f, c)
    BY <1>1, <1>6, PhDataStep
  <1>7. CASE \E s \in Active : \E t \in Msgs, c \in Chans, m \in Messages : rslms_rx_rll(s, t, c, m)
    BY <1>1, <1>7, RllStep
  <1> QED BY <1>2, <1>3, <1>4, <1>5, <1>6, <1>7 DEF EntityNext

\* HasContext follows: a link without a context is idle, and every frame that
\* waits was made by one that has a channel.
LEMMA ContextFollows ==
  ASSUME IInv
  PROVE  HasContext
  <1>1. ASSUME NEW s \in Sapis
        PROVE  /\ dl[s].state # "IDLE" => known[s] /\ dl[s].chan # Null
               /\ \A i \in DOMAIN dl[s].tx : dl[s].tx[i].chan # Null
    BY DEF IInv, Linked, Whole, Still, Queued, IsFrame
  <1> QED BY <1>1 DEF IInv, HasContext

\* Whatever frames the peer sends and whatever layer 3 asks for, in any order:
\* a data link of LAPDm that is not idle knows its context, every frame that
\* waits has a channel, and no message and no T200 meets a null context.
THEOREM ContextKnown ==
  EntitySpec => []HasContext
  <1>1. lapdm_entity_init => IInv
    BY StartsSound
  <1>2. IInv /\ [EntityNext]_entity_vars => IInv'
    BY EveryStep
  <1>3. IInv => HasContext
    BY ContextFollows
  <1> QED BY <1>1, <1>2, <1>3, PTL DEF EntitySpec

\* Without LAPDM_ENT_F_POLLING_ONLY no frame is ever left in a queue, where
\* it would stay until layer 1 asks.
THEOREM NothingWaits ==
  EntitySpec => []Direct
  <1>1. lapdm_entity_init => IInv
    BY StartsSound
  <1>2. IInv /\ [EntityNext]_entity_vars => IInv'
    BY EveryStep
  <1>3. IInv => Direct
    BY DEF IInv
  <1> QED BY <1>1, <1>2, <1>3, PTL DEF EntitySpec

\* An I frame that lapd_rx_i takes is acknowledged with the new V(R): by RR or
\* RNR, by an I frame that lapd_send_i sends, or by an I frame that waits and
\* that update_pending_frames changes.  On the ACCH the last of these changes
\* the wrong octet, so the theorem is about the other channels.
THEOREM FramesAcknowledged ==
  ASSUME ~Acch
  PROVE  EntitySpec => Acknowledged
  <1>1. lapdm_entity_init => IInv
    BY StartsSound
  <1>2. IInv /\ [EntityNext]_entity_vars => IInv' /\ [AcknowledgedStep]_entity_vars
    BY EveryStep
  <1> QED BY <1>1, <1>2, PTL DEF EntitySpec, Acknowledged

\* Whatever frames the peer sends and whatever layer 3 asks for: T200 runs as long
\* as a data link waits for the answer to SABM, and neither SABM nor DISC is
\* repeated more than N200Est times (lapd_t200_cb).
THEOREM EstablishmentSupervised ==
  EntitySpec => []EstSupervised
  <1>1. lapdm_entity_init => IInv /\ AllTried
    BY StartsSound, StartsTried
  <1>2. IInv /\ AllTried /\ [EntityNext]_entity_vars => IInv' /\ AllTried'
    BY EveryStep, EveryStepTried
  <1>3. AllTried => EstSupervised
    BY TriedSupervised
  <1> QED BY <1>1, <1>2, <1>3, PTL DEF EntitySpec

\* SABM or DISC that waits for its answer is in the history when T200 expires,
\* where lapd_send_resend takes it from without a check, if every DISC that comes
\* is well formed: lapd_rx_u flushes the history before it looks at the length.
THEOREM CommandsKept ==
  ASSUME DiscEmpty
  PROVE  EntitySpec => []CommandKept
  <1>1. lapdm_entity_init => IInv /\ AllTried
    BY StartsSound, StartsTried
  <1>2. IInv /\ AllTried /\ [EntityNext]_entity_vars => IInv' /\ AllTried'
    BY EveryStep, EveryStepTried
  <1>3. AllTried => CommandKept
    BY TriedSupervised DEF AllTried, Tried, CommandKept
  <1> QED BY <1>1, <1>2, <1>3, PTL DEF EntitySpec
=============================================================================
