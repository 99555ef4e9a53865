------------------------------ MODULE LapdCore ------------------------------
(***************************************************************************)
(* A LAPD data link entity (lapd_core.c): what each frame from layer 1,    *)
(* each primitive from layer 3 and each timer does to struct               *)
(* lapd_datalink.  Every function of the file that changes the link is an  *)
(* operator from the link to the link; what it gives to layer 1            *)
(* (send_ph_data_req) is appended to tx, the queue tx_queue of frames that *)
(* layer 1 has not taken; what it gives to layer 3 (send_dlsap) to up.     *)
(* LapdLink joins two of them.                                             *)
(*                                                                         *)
(* Lengths are counted in segments of N201 octets.                         *)
(***************************************************************************)
EXTENDS Integers, Sequences, SequencesExt, FiniteSets

CONSTANTS
  VRange,       \* v_range: 8 in LAPDm, 128 in LAPD
  K,            \* k: the window
  N200,         \* n200
  N200Est,      \* n200_est_rel
  Reestablish,  \* reestablish: FALSE in LAPDm
  UseT203,      \* t203 is not 0: FALSE in LAPDm
  MaxF,         \* maxf, in segments
  Short,        \* the segments of less than N201 octets
  Null

LapdAssumption ==
  /\ VRange \in {2, 4, 8, 16, 32, 64, 128}
  /\ K \in 1..(VRange - 1)
  /\ N200 \in Nat \ {0} /\ N200Est \in Nat \ {0}
  /\ Reestablish \in BOOLEAN /\ UseT203 \in BOOLEAN
  /\ MaxF \in Nat \ {0}

States == {"IDLE", "SABM_SENT", "DISC_SENT", "MF_EST", "TIMER_RECOV"}

-----------------------------------------------------------------------------
(* Frames (struct lapd_msg_ctx).  A payload is a sequence of segments: the *)
(* information field of an I frame holds one, that of SABM and UA the      *)
(* message of contention resolution, the empty sequence is length 0.       *)

Frame(t, cmd, pf, p) ==
  [t |-> t, cmd |-> cmd, pf |-> pf, ns |-> 0, nr |-> 0, more |-> FALSE, p |-> p,
   chan |-> Null, ta |-> Null]

SFrame(t, cmd, pf, nr) == [Frame(t, cmd, pf, <<>>) EXCEPT !.nr = nr]

IFrame(ns, nr, pf, h) ==
  [Frame("I", TRUE, pf, h.p) EXCEPT !.ns = ns, !.nr = nr, !.more = h.more]

\* Arithmetic on sequence numbers; the ranges are powers of 2.
inc_mod(x) == (x + 1) % VRange
sub_mod(x, y) == (x - y) % VRange

\* range_hist: the smallest power of 2 above K.
RangeHist == CHOOSE m \in {2, 4, 8, 16, 32, 64, 128} :
                /\ m >= K + 1
                /\ \A n \in {2, 4, 8, 16, 32, 64, 128} : n >= K + 1 => n >= m
Slot(v) == v % RangeHist

-----------------------------------------------------------------------------
(* The link.  buf and sent are send_buffer and send_out, cont is cont_res. *)
(* Boolean t200 and t203: the timer is pending.  chan and ta are what      *)
(* LAPDm puts before a frame: the channel of the message context and, on   *)
(* an ACCH, the timing advance of the entity; both are Null in LAPD.       *)

NoHist == [h \in 0..(RangeHist - 1) |-> Null]

lapd_dl_init(mode) ==
  [mode |-> mode, state |-> "IDLE", vs |-> 0, va |-> 0, vr |-> 0,
   retrans |-> 0, t200 |-> FALSE, t203 |-> FALSE, hist |-> NoHist,
   queue |-> <<>>, buf |-> Null, sent |-> 0, rcv |-> Null, err |-> 0,
   own_busy |-> FALSE, peer_busy |-> FALSE, cont |-> Null,
   chan |-> Null, ta |-> Null, tx |-> <<>>, up |-> <<>>]

Tx(d, f)   == [d EXCEPT !.tx = Append(@, [f EXCEPT !.chan = d.chan, !.ta = d.ta])]
Up(d, p)   == [d EXCEPT !.up = Append(@, p)]
Prim(p)    == [prim |-> p, p |-> <<>>]
mdl_error(d) == Up(d, Prim("MDL_ERROR"))

lapd_dl_flush_send(d) == [d EXCEPT !.queue = <<>>, !.buf = Null]
lapd_dl_flush_hist(d) == [d EXCEPT !.hist = NoHist]

\* Frames that layer 1 has not taken (tx_queue) are flushed too.
lapd_dl_flush_tx(d) == [lapd_dl_flush_hist(d) EXCEPT !.tx = <<>>]

start_t200(d) == [d EXCEPT !.t200 = TRUE]
stop_t200(d)  == [d EXCEPT !.t200 = FALSE]

\* T203 runs only in MF_EST, and so does the content of contention resolution.
newstate(d, s) ==
  LET leave == d.state = "MF_EST" /\ s # "MF_EST"
      enter == d.state # "MF_EST" /\ s = "MF_EST"
  IN [d EXCEPT !.state = s,
               !.t203 = ~leave /\ (@ \/ (enter /\ UseT203)),
               !.cont = IF leave THEN Null ELSE @]

\* Back to IDLE with nothing left to send.
Released(d) == newstate(lapd_dl_flush_send(lapd_dl_flush_tx(d)), "IDLE")

lapd_dl_reset(d) ==
  IF d.state = "IDLE" THEN d
  ELSE [Released(d) EXCEPT !.rcv = Null, !.t200 = FALSE, !.t203 = FALSE]

send_ua(d, f) == Tx(d, Frame("UA", FALSE, f.pf, f.p))
send_dm(d, f) == Tx(d, Frame("DM", FALSE, f.pf, <<>>))
send_rr(d, pf, cmd)  == Tx(d, SFrame("RR", cmd, pf, d.vr))
send_rnr(d, pf, cmd) == Tx(d, SFrame("RNR", cmd, pf, d.vr))
send_rej(d, pf)      == Tx(d, SFrame("REJ", FALSE, pf, d.vr))

-----------------------------------------------------------------------------
(* Sending I frames.                                                       *)

\* The message in the send buffer is sent: take the next one, if any.
Refill(d) ==
  IF d.buf # Null /\ d.sent < Len(d.buf) THEN d
  ELSE IF d.queue = <<>> THEN [d EXCEPT !.buf = Null, !.sent = 0]
  ELSE [d EXCEPT !.buf = Head(d.queue), !.queue = Tail(@), !.sent = 0]

Window(d) == d.vs = (d.va + K) % VRange

\* A new segment goes into the history; one that is there is sent again.
Segment(d) ==
  LET h == Slot(d.vs)
      r == IF d.hist[h] = Null THEN Refill(d) ELSE d
      s == r.sent + 1
  IN IF d.hist[h] # Null \/ r.buf = Null THEN r
     ELSE [r EXCEPT !.hist[h] = [p |-> <<r.buf[s]>>, more |-> s < Len(r.buf)],
                    !.sent = s]

\* One round of lapd_send_i.
SendOne(d) ==
  LET r == Segment(d)
  IN IF d.peer_busy \/ d.state = "TIMER_RECOV" \/ Window(d) THEN d
     ELSE IF r.hist[Slot(d.vs)] = Null THEN r
     ELSE Tx([r EXCEPT !.vs = inc_mod(@),
                       !.t203 = @ /\ d.t200,
                       !.t200 = TRUE],
             IFrame(d.vs, d.vr, FALSE, r.hist[Slot(d.vs)]))

\* At most VRange frames go out, then the window is closed.
lapd_send_i(d) ==
  LET after[n \in 0..VRange] == IF n = 0 THEN d ELSE SendOne(after[n - 1])
  IN after[VRange]

\* The slots of the frames before N(R) are freed.  Outside timer recovery
\* T200 is stopped, and started again for what is still outstanding.
lapd_acknowledge(d, f) ==
  LET rej   == f.t = "REJ"
      acked == {Slot((d.va + i) % VRange) : i \in 0..(sub_mod(f.nr, d.va) - 1)}
      hist  == [h \in DOMAIN d.hist |-> IF h \in acked THEN Null ELSE d.hist[h]]
      reset == d.state # "TIMER_RECOV" /\ (rej <=> f.nr = d.va)
      wrong == /\ d.state # "TIMER_RECOV"
               /\ sub_mod(f.nr, d.va) > sub_mod(d.vs, d.va)
      t200  == IF reset THEN ~rej /\ hist[Slot(d.vs - 1)] # Null ELSE d.t200
      r     == [d EXCEPT !.hist = hist, !.va = f.nr, !.t200 = t200,
                         !.t203 = ~t200 /\ UseT203 /\ d.state = "MF_EST"]
  IN IF wrong THEN mdl_error(r) ELSE r

-----------------------------------------------------------------------------
(* Primitives from layer 3.  A DL-DATA request carries a message, that is  *)
(* its segments, a DL-ESTABLISH request a payload.                         *)

\* Faulty variant of Command: V(S) stays, so that T200 sends what is there.
CommandKeepVs(d, s, f) ==
  start_t200(Tx(newstate([lapd_dl_flush_hist(d) EXCEPT
                             !.hist[0] = [p |-> f.p, more |-> FALSE],
                             !.own_busy = FALSE, !.peer_busy = FALSE, !.retrans = 0], s), f))

\* Send SABM or DISC and wait for the answer.
Command(d, s, f) ==
  start_t200(Tx(newstate([lapd_dl_flush_hist(d) EXCEPT
                             !.hist[0] = [p |-> f.p, more |-> FALSE],
                             !.vs = 0, !.own_busy = FALSE, !.peer_busy = FALSE,
                             !.retrans = 0], s), f))

lapd_est_req(d, p) ==
  Command([lapd_dl_flush_send(d) EXCEPT !.rcv = Null],
          "SABM_SENT", Frame("SABM", TRUE, TRUE, p))

lapd_reestablish(d) == lapd_est_req(d, <<>>)

lapd_data_req(d, m) ==
  IF m = <<>> THEN d ELSE lapd_send_i([d EXCEPT !.queue = Append(@, m)])

lapd_udata_req(d, p) == Tx(d, Frame("UI", TRUE, FALSE, p))

lapd_susp_req(d) ==
  LET q == IF d.buf = Null THEN d.queue ELSE <<d.buf>> \o d.queue
  IN Up([lapd_dl_flush_tx(d) EXCEPT !.queue = q, !.buf = Null,
                                      !.t200 = FALSE, !.t203 = FALSE],
        Prim("SUSP_CONF"))

\* Resume or reconnect: the message given goes first, the queue is kept.
lapd_res_req(d, m) ==
  Command([d EXCEPT !.buf = IF m = <<>> THEN Null ELSE m, !.sent = 0, !.rcv = Null],
          "SABM_SENT", Frame("SABM", TRUE, TRUE, <<>>))

lapd_rel_req(d, local) ==
  IF local THEN Up(Released(stop_t200(d)), Prim("REL_CONF"))
  ELSE IF d.state = "DISC_SENT" THEN d
  ELSE Command(d, "DISC_SENT", Frame("DISC", TRUE, TRUE, <<>>))

lapd_rel_req_idle(d) == Up(d, Prim("REL_CONF"))

\* The states in which each primitive is handled (l2downstatelist).
Estd == {"MF_EST", "TIMER_RECOV"}
l2downstate(prim) ==
  CASE prim = "UDATA" -> States
    [] prim = "EST"   -> {"IDLE"}
    [] prim = "DATA"  -> Estd
    [] prim = "SUSP"  -> Estd
    [] prim = "RES"   -> Estd
    [] prim = "RECON" -> {"IDLE"} \cup Estd
    [] prim = "REL"   -> States

\* A primitive for another state is dropped.
lapd_recv_dlsap(d, prim, m) ==
  LET local == m = <<"local">>
  IN IF d.state \notin l2downstate(prim) THEN d
     ELSE CASE prim = "UDATA" -> lapd_udata_req(d, m)
            [] prim = "EST"   -> lapd_est_req(d, m)
            [] prim = "DATA"  -> lapd_data_req(d, m)
            [] prim = "SUSP"  -> lapd_susp_req(d)
            [] prim \in {"RES", "RECON"} -> lapd_res_req(d, m)
            [] prim = "REL"   -> IF d.state = "IDLE" THEN lapd_rel_req_idle(d)
                                 ELSE lapd_rel_req(d, local)

-----------------------------------------------------------------------------
(* Frames from layer 1.  Supervisory and unnumbered frames of the wrong    *)
(* kind (command or response) or with an unexpected payload are reported.  *)

\* The field of SABM, UI and UA is no longer than N201, that is one segment.
MalformedU(f) ==
  \/ f.t \in {"SABM", "UI", "DISC"} /\ ~f.cmd
  \/ f.t \in {"DM", "UA"} /\ f.cmd
  \/ f.t \in {"SABM", "UI", "UA", "DISC"} /\ f.more
  \/ f.t \in {"SABM", "UI", "UA"} /\ Len(f.p) > 1
  \/ f.t = "DISC" /\ f.p # <<>>

MalformedS(f) == f.p # <<>> \/ f.more

\* Only the last segment of a message, sent without the M bit, may be short.
MalformedI(f) == ~f.cmd \/ Len(f.p) # 1 \/ (f.more /\ f.p[1] \in Short)

Malformed(f) ==
  CASE f.t \in {"RR", "RNR", "REJ"} -> MalformedS(f)
    [] f.t = "I" -> MalformedI(f)
    [] OTHER -> MalformedU(f)

\* What is done before a frame is found to be malformed.
Refused(d, f) ==
  mdl_error(CASE f.t = "SABM" -> [d EXCEPT !.err = 0]
              [] f.t = "DISC" -> [lapd_dl_flush_send(lapd_dl_flush_tx(d)) EXCEPT !.err = 0]
              [] OTHER -> d)

\* The three state variables start at 0.
Establish(d) ==
  newstate([lapd_dl_flush_hist(d) EXCEPT !.vs = 0, !.vr = 0, !.va = 0], "MF_EST")

\* SABM in IDLE, or in MF_EST without content: a new link.
Accept(d, f) ==
  LET e == Establish(send_ua(d, f))
      c == IF d.mode = "network" /\ f.p # <<>> THEN f.p ELSE e.cont
  IN Up([e EXCEPT !.cont = c], [prim |-> "EST_IND", p |-> f.p])

rx_sabm(d0, f) ==
  LET d == [d0 EXCEPT !.err = 0]
  IN CASE d.state = "IDLE" -> Accept(d, f)
       [] d.state = "MF_EST" ->
            IF f.p = <<>> THEN Accept(d, f)
            ELSE IF d.cont = Null THEN mdl_error(d)
            ELSE IF d.mode = "network" /\ d.cont # f.p THEN d
            ELSE send_ua(d, f)
       [] d.state = "DISC_SENT" -> Up(stop_t200(send_dm(d, f)), Prim("EST_IND"))
       [] OTHER -> send_ua(IF d.hist[0] # Null /\ d.hist[0].p # <<>>
                           THEN mdl_error(d) ELSE d, f)

rx_dm(d, f) ==
  CASE ~f.pf -> d
    [] f.pf /\ d.state \in {"SABM_SENT", "TIMER_RECOV"} ->
         Up(newstate(stop_t200(d), "IDLE"), Prim("REL_IND"))
    [] f.pf /\ d.state = "MF_EST" -> mdl_error(d)
    [] f.pf /\ d.state = "DISC_SENT" -> Up(Released(stop_t200(d)), Prim("REL_CONF"))
    [] OTHER -> d

rx_ui(d, f) ==
  IF f.p = <<>> THEN d ELSE Up(d, [prim |-> "UDATA_IND", p |-> f.p])

rx_disc(d0, f) ==
  LET d == [lapd_dl_flush_send(lapd_dl_flush_tx(d0)) EXCEPT !.err = 0]
      e(prim) == Up(newstate(stop_t200(send_ua(d, f)), "IDLE"), Prim(prim))
  IN CASE d.state = "IDLE" -> send_dm(d, f)
       [] d.state = "SABM_SENT" ->
            Up(newstate(stop_t200(send_dm(d, f)), "IDLE"), Prim("REL_IND"))
       [] d.state \in Estd -> e("REL_IND")
       [] d.state = "DISC_SENT" -> e("REL_CONF")

\* UA answers SABM or DISC; with contention resolution it must bring the
\* message of SABM back.
rx_ua(d, f) ==
  LET s == d.hist[0].p
  IN CASE ~f.pf -> d
       [] f.pf /\ d.state = "SABM_SENT" ->
            IF s # <<>> /\ s # f.p
            THEN Released(Up(stop_t200(d), Prim("REL_IND")))
            ELSE Up(lapd_send_i(Establish(stop_t200(d))), Prim("EST_CONF"))
       [] f.pf /\ d.state \in Estd -> mdl_error(d)
       [] f.pf /\ d.state = "DISC_SENT" -> Up(Released(stop_t200(d)), Prim("REL_CONF"))
       [] OTHER -> d

rx_frmr(d) == IF Reestablish THEN lapd_reestablish(mdl_error(d)) ELSE mdl_error(d)

lapd_rx_u(d, f) ==
  CASE f.t = "SABM" -> rx_sabm(d, f)
    [] f.t = "DM"   -> rx_dm(d, f)
    [] f.t = "UI"   -> rx_ui(d, f)
    [] f.t = "DISC" -> rx_disc(d, f)
    [] f.t = "UA"   -> rx_ua(d, f)
    [] f.t = "FRMR" -> rx_frmr(d)

\* What answers a poll.  In a sequence error condition the REJ was the answer.
Answer(d) ==
  IF d.own_busy THEN send_rnr(d, TRUE, FALSE)
  ELSE IF d.err = 0 THEN send_rr(d, TRUE, FALSE) ELSE d

rx_rr(d, f) ==
  LET a == lapd_acknowledge(d, f)
  IN lapd_send_i(
       CASE f.cmd /\ f.pf -> Answer(a)
         [] ~f.cmd /\ f.pf /\ a.state = "TIMER_RECOV" ->
              newstate(stop_t200([a EXCEPT !.vs = f.nr]), "MF_EST")
         [] OTHER -> a)

rx_rnr(d, f) ==
  LET a == [lapd_acknowledge(d, f) EXCEPT !.peer_busy = TRUE]
  IN lapd_send_i(
       CASE f.cmd /\ f.pf -> IF a.own_busy THEN send_rnr(a, TRUE, FALSE)
                             ELSE send_rr(a, TRUE, FALSE)
         [] ~f.cmd /\ f.pf /\ a.state = "TIMER_RECOV" ->
              [newstate(a, "MF_EST") EXCEPT !.vs = f.nr]
         [] OTHER -> a)

rx_rej(d, f) ==
  LET a     == [lapd_acknowledge(d, f) EXCEPT !.peer_busy = FALSE,
                                              !.vs = f.nr, !.va = f.nr]
      final == ~f.cmd /\ f.pf
      t     == a.state = "TIMER_RECOV"
  IN lapd_send_i(
       CASE t /\ final  -> newstate(stop_t200(a), "MF_EST")
         [] t /\ ~final -> IF f.cmd /\ f.pf THEN Answer(a) ELSE a
         [] ~t /\ f.cmd /\ f.pf -> Answer(stop_t200(a))
         [] ~t /\ final -> mdl_error(stop_t200(a))
         [] OTHER -> stop_t200(a))

lapd_rx_s(d0, f) ==
  LET d == IF ~f.cmd /\ f.pf /\ d0.state # "TIMER_RECOV" THEN mdl_error(d0) ELSE d0
  IN CASE d.state = "IDLE" -> IF f.pf THEN send_dm(d, f) ELSE d
       [] d.state \in {"SABM_SENT", "DISC_SENT"} -> d
       [] d.state \in Estd /\ f.t = "RR"  -> rx_rr(d, f)
       [] d.state \in Estd /\ f.t = "RNR" -> rx_rnr(d, f)
       [] d.state \in Estd /\ f.t = "REJ" -> rx_rej(d, f)

\* The segment goes to layer 3, with those before it when it is the last one.
\* What exceeds MaxF is left out.
Reassemble(d, f) ==
  LET r   == IF d.rcv = Null THEN <<>> ELSE d.rcv
      all == IF Len(r) + 1 > MaxF THEN r ELSE r \o f.p
  IN IF f.more THEN [d EXCEPT !.rcv = all]
     ELSE Up([d EXCEPT !.rcv = Null],
             [prim |-> "DATA_IND", p |-> IF d.rcv = Null THEN f.p ELSE all])

\* An I frame out of sequence: the first one is answered by REJ.
SequenceError(d, f) ==
  LET r == IF d.err # 1 THEN send_rej([d EXCEPT !.err = 1], f.pf)
           ELSE [d EXCEPT !.err = 2]
  IN lapd_send_i(lapd_acknowledge(r, f))

\* Faulty variant of InSequence: a frame that was already received passes.
InSequenceOrBefore(d, f) == f.ns \in {d.vr, sub_mod(d.vr, 1)}

InSequence(d, f) == f.ns = d.vr

\* Faulty variant of update_pending_frames: the frame keeps its N(R).
update_pending_framesKeep(d) == d

\* An I frame that waits for layer 1 (tx_queue) can carry the acknowledgement.
\* The second octet of the frame is taken for its control field; on an ACCH it
\* is the timing advance, and an even one looks like an I frame.
IsI(f) == IF f.ta = Null THEN f.t = "I" ELSE f.ta % 2 = 0
Waiting(d) == \E i \in DOMAIN d.tx : IsI(d.tx[i])
SetNr(f, nr) == IF f.ta = Null THEN [f EXCEPT !.nr = nr]
                ELSE [f EXCEPT !.ta = (@ % 32) + 32 * (nr % 8)]
update_pending_frames(d) ==
  [d EXCEPT !.tx = [i \in DOMAIN d.tx |-> IF IsI(d.tx[i]) THEN SetNr(d.tx[i], d.vr)
                                          ELSE d.tx[i]]]

\* The frame is answered by the next I frame, one that waits, or RR or RNR.
lapd_rx_i(d, f) ==
  LET a == lapd_acknowledge([d EXCEPT !.err = 0, !.vr = inc_mod(@)], f)
      b == IF a.own_busy THEN a ELSE Reassemble(a, f)
      c == lapd_send_i(b)
  IN CASE d.state = "IDLE" -> IF f.pf THEN send_dm(d, f) ELSE d
       [] d.state \in {"SABM_SENT", "DISC_SENT"} -> d
       [] d.state \in Estd /\ ~InSequence(d, f) -> SequenceError(d, f)
       [] d.state \in Estd /\ InSequence(d, f) ->
            IF b.own_busy THEN lapd_send_i(send_rnr(b, f.pf, FALSE))
            ELSE IF f.pf THEN lapd_send_i(send_rr(b, TRUE, FALSE))
            ELSE IF c.vs # b.vs THEN c
            ELSE IF Waiting(c) THEN update_pending_frames(c)
            ELSE send_rr(c, FALSE, FALSE)

lapd_ph_data_ind(d, f) ==
  LET unnumbered == {"SABM", "DM", "UI", "DISC", "UA", "FRMR"}
  IN IF Malformed(f) THEN Refused(d, f)
     ELSE CASE f.t \in unnumbered -> lapd_rx_u(d, f)
            [] f.t \in {"RR", "RNR", "REJ"} -> lapd_rx_s(d, f)
            [] f.t = "I" -> lapd_rx_i(d, f)

-----------------------------------------------------------------------------
(* Timers.                                                                 *)

lapd_send_resend(d) ==
  Tx(d, Frame(IF d.state = "SABM_SENT" THEN "SABM" ELSE "DISC", TRUE, TRUE,
              d.hist[Slot(d.vs)].p))

\* SABM or DISC is not answered: once more, or give up.
RetryCommand(d, prim) ==
  IF d.retrans >= N200Est THEN Released(mdl_error(Up(d, Prim(prim))))
  ELSE start_t200([lapd_send_resend(d) EXCEPT !.retrans = @ + 1])

\* Timer recovery: the last I frame, or a supervisory frame, with P = 1.
Recover(d0) ==
  LET d  == [d0 EXCEPT !.retrans = @ + 1]
      vs == sub_mod(d.vs, 1)
      h  == d.hist[Slot(vs)]
  IN IF d.retrans < N200
     THEN start_t200(CASE h # Null   -> Tx(d, IFrame(vs, d.vr, TRUE, h))
                       [] h = Null /\ d.own_busy -> send_rnr(d, TRUE, TRUE)
                       [] h = Null /\ ~d.own_busy /\ d.err = 0 -> send_rr(d, TRUE, TRUE)
                       [] OTHER -> d)
     ELSE IF Reestablish THEN lapd_reestablish(mdl_error(d)) ELSE mdl_error(d)

lapd_t200_cb(d0) ==
  LET d == stop_t200(d0)
  IN CASE d.state = "SABM_SENT" -> RetryCommand(d, "REL_IND")
       [] d.state = "DISC_SENT" -> RetryCommand(d, "REL_CONF")
       [] d.state = "MF_EST"    -> Recover(newstate([d EXCEPT !.retrans = 0], "TIMER_RECOV"))
       [] d.state = "TIMER_RECOV" -> Recover(d)
       [] OTHER -> d

lapd_t203_cb(d0) ==
  LET d == newstate([d0 EXCEPT !.retrans = 0, !.t203 = FALSE], "TIMER_RECOV")
  IN IF d0.state # "MF_EST" THEN [d0 EXCEPT !.t203 = FALSE]
     ELSE start_t200(IF d.own_busy THEN send_rnr(d, TRUE, TRUE) ELSE send_rr(d, TRUE, TRUE))
=============================================================================
