------------------------------ MODULE BssgpFc ------------------------------
(***************************************************************************)
(* Downlink flow control of BSSGP on the SGSN (gprs_bssgp.c): the leaky    *)
(* bucket of a mobile, whose output is the leaky bucket of its BVC, whose  *)
(* output is the network service.  The delay of the timer is computed from *)
(* the wrong list element (line 590), so it expires at any time.           *)
(***************************************************************************)
EXTENDS Integers, Sequences

CONSTANTS
  Settings,    \* what FLOW-CONTROL-BVC may say: [size, rate], octets and octets/s
  Lens,        \* lengths of LLC PDUs
  MaxDepth,    \* max_queue_depth
  MaxPdus,     \* bound: LLC PDUs offered
  MaxElapsed   \* bound: centiseconds since the last PDU

ASSUME FcAssumption ==
  /\ Settings \subseteq [size : Nat, rate : Nat]
  /\ Lens \subseteq Nat \ {0} /\ MaxDepth \in Nat /\ MaxPdus \in Nat /\ MaxElapsed \in Nat

VARIABLES
  fc,       \* the two buckets, and where PDUs ended: sent, freed or lost
  offered   \* number of PDUs offered so far

fc_vars == <<fc, offered>>

Fcs == {"ms", "bvc"}

bssgp_fc_init(s) ==
  [size |-> s.size, rate |-> s.rate, counter |-> 0, elapsed |-> 0, queue |-> <<>>,
   timer |-> FALSE]

Predicted(c, len) == c.counter + len - c.elapsed * (c.rate \div 100)

\* A bucket that leaked empty passes every PDU.
NeedsQueueing(c, len) == Predicted(c, len) >= len /\ Predicted(c, len) > c.size

\* The PDU passes: the counter is stored only when the bucket is not empty.
Passed(c, len) ==
  [c EXCEPT !.counter = IF Predicted(c, len) < len THEN @ ELSE Predicted(c, len),
            !.elapsed = 0]

fc_queue_timer_cfg(s, f) ==
  IF s[f].queue # <<>> /\ s[f].rate # 0 THEN [s EXCEPT ![f].timer = TRUE] ELSE s

\* A full queue refuses the PDU, and nobody frees it.
fc_enqueue(s, f, p) ==
  IF Len(s[f].queue) >= MaxDepth THEN [s EXCEPT !.lost = @ \cup {p.id}]
  ELSE fc_queue_timer_cfg([s EXCEPT ![f].queue = Append(@, p)], f)

In(s, f, p, Out(_, _)) ==
  IF p.len > s[f].size THEN [s EXCEPT !.freed = @ \cup {p.id}]
  ELSE IF NeedsQueueing(s[f], p.len) THEN fc_enqueue(s, f, p)
  ELSE Out([s EXCEPT ![f] = Passed(@, p.len)], p)

\* The output of the BVC's bucket, and that of a mobile's.
_bssgp_tx_dl_ud(s, p) == [s EXCEPT !.sent = Append(@, p.id)]
BvcIn(s, p) == In(s, "bvc", p, _bssgp_tx_dl_ud)
bssgp_fc_in(s, f, p) == IF f = "ms" THEN In(s, "ms", p, BvcIn) ELSE BvcIn(s, p)
OutCb(s, f, p) == IF f = "ms" THEN BvcIn(s, p) ELSE _bssgp_tx_dl_ud(s, p)

\* Faulty variants of fc_timer_cb: the PDU stays in the queue; a timer that
\* comes too early is not started again.
fc_timer_cbKeep(s0, f) ==
  LET s == [s0 EXCEPT ![f].timer = FALSE]
  IN IF s[f].queue = <<>> \/ NeedsQueueing(s[f], Head(s[f].queue).len) THEN fc_queue_timer_cfg(s, f)
     ELSE fc_queue_timer_cfg(OutCb(s, f, Head(s[f].queue)), f)
fc_timer_cbOnce(s0, f) ==
  LET s == [s0 EXCEPT ![f].timer = FALSE]
      p == Head(s[f].queue)
  IN IF s[f].queue = <<>> \/ NeedsQueueing(s[f], p.len) THEN s
     ELSE fc_queue_timer_cfg(OutCb([s EXCEPT ![f] = [Passed(s[f], p.len) EXCEPT !.queue = Tail(@)]], f, p), f)

fc_timer_cb(s0, f) ==
  LET s == [s0 EXCEPT ![f].timer = FALSE]
      p == Head(s[f].queue)
      taken == [s EXCEPT ![f] = [Passed(s[f], p.len) EXCEPT !.queue = Tail(@)]]
  IN IF s[f].queue = <<>> THEN s
     ELSE IF NeedsQueueing(s[f], p.len) THEN fc_queue_timer_cfg(s, f)
     ELSE fc_queue_timer_cfg(OutCb(taken, f, p), f)

-----------------------------------------------------------------------------
(* The program.                                                            *)

\* bssgp_tx_dl_ud, with the flow control of the mobile or without.
TxDlUd(f, len) ==
  /\ offered < MaxPdus
  /\ fc' = bssgp_fc_in(fc, f, [id |-> offered + 1, len |-> len])
  /\ offered' = offered + 1

FcTimer(f) == fc[f].timer /\ fc' = fc_timer_cb(fc, f) /\ UNCHANGED offered

\* The BSS sets the bucket of the BVC and the default for mobiles.
bssgp_rx_fc_bvc(s) ==
  /\ fc' = fc_queue_timer_cfg([fc EXCEPT !["bvc"].size = s.size, !["bvc"].rate = s.rate,
                                         !.default = s], "bvc")
  /\ UNCHANGED offered

\* Another mobile, with the default of its BVC.
bssgp_fc_ms_init ==
  /\ fc["ms"].queue = <<>>
  /\ fc' = [fc EXCEPT !["ms"] = bssgp_fc_init(fc.default)]
  /\ UNCHANGED offered

Tick ==
  /\ \E f \in Fcs : fc[f].elapsed < MaxElapsed
  /\ fc' = [x \in DOMAIN fc |->
              IF x \in Fcs
              THEN [fc[x] EXCEPT !.elapsed = IF @ < MaxElapsed THEN @ + 1 ELSE @]
              ELSE fc[x]]
  /\ UNCHANGED offered

FcInit ==
  /\ \E s \in Settings :
       fc = [ms |-> bssgp_fc_init(s), bvc |-> bssgp_fc_init(s), default |-> s,
             sent |-> <<>>, freed |-> {}, lost |-> {}]
  /\ offered = 0

FcNext ==
  \/ \E f \in Fcs : (\E len \in Lens : TxDlUd(f, len)) \/ FcTimer(f)
  \/ (\E s \in Settings : bssgp_rx_fc_bvc(s)) \/ bssgp_fc_ms_init \/ Tick

FcSpec == FcInit /\ [][FcNext]_fc_vars

-----------------------------------------------------------------------------
(* Properties.                                                             *)

PduIds(q) == {q[i].id : i \in DOMAIN q}
Sent == {fc.sent[i] : i \in DOMAIN fc.sent}

\* Type correctness; a queue keeps to max_queue_depth.
FcTypeOK ==
  /\ offered \in 0..MaxPdus
  /\ \A f \in Fcs : /\ Len(fc[f].queue) <= MaxDepth
                    /\ fc[f].counter \in Nat /\ fc[f].elapsed \in 0..MaxElapsed
                    /\ fc[f].timer \in BOOLEAN

\* A PDU is in one place: through both buckets none is sent twice, and none is
\* sent and still queued (fc_timer_cb, bssgp_fc_in).
Conserved ==
  LET places == [ms |-> PduIds(fc.ms.queue), bvc |-> PduIds(fc.bvc.queue),
                 sent |-> Sent, freed |-> fc.freed, lost |-> fc.lost]
  IN /\ \A x, y \in DOMAIN places : x # y => places[x] \cap places[y] = {}
     /\ UNION {places[x] : x \in DOMAIN places} = 1..offered
     /\ \A i, j \in DOMAIN fc.sent : fc.sent[i] = fc.sent[j] => i = j

\* A queue that may be emptied has a timer, whatever order of expiries,
\* settings and PDUs (fc_queue_timer_cfg).
TimerRuns == \A f \in Fcs : fc[f].queue # <<>> /\ fc[f].rate # 0 => fc[f].timer

\* A PDU is in one place: through both buckets none is sent twice, none is sent
\* and still queued, the queues keep to their depth and one that may be emptied
\* has a timer, whatever order of expiries, settings and PDUs (fc_timer_cb,
\* bssgp_fc_in, fc_enqueue, fc_queue_timer_cfg).
FlowConserved == FcTypeOK /\ Conserved /\ TimerRuns
=============================================================================
