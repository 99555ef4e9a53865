------------------------------ MODULE LapdLink ------------------------------
(***************************************************************************)
(* Two LAPD entities (LapdCore) on a physical link that keeps the order of *)
(* frames and loses some of them, with layer 3 on both sides.  T200 and    *)
(* T203 expire at any time while they run.                                 *)
(***************************************************************************)
EXTENDS LapdCore

CONSTANTS
  Requests,  \* the primitives layer 3 uses, besides DL-DATA
  Sizes,     \* Sizes[n]: segments of the n-th message of a side
  MaxCalls,  \* bound: primitives other than DL-DATA
  Losable,   \* the kinds of frames that get lost
  MaxLost,   \* bound: frames that are lost
  Patient,   \* T200 and T203 are longer than a frame and its answer take
  MaxCh      \* bound: frames on the way in one direction

Peers == {"user", "network"}
Other(p) == IF p = "user" THEN "network" ELSE "user"

LinkAssumption ==
  /\ Requests \subseteq {"EST", "EST_CONT", "REL", "LOCAL_REL", "SUSP", "RES", "RECON", "UDATA"}
  /\ Sizes \in Seq(Nat \ {0})
  /\ Patient \in BOOLEAN /\ MaxCalls \in Nat /\ MaxLost \in Nat /\ MaxCh \in Nat \ {0}

VARIABLES
  dl,       \* the two data links
  ch,       \* ch[p]: the frames on their way from p
  calls, lost,
  acc,      \* acc[p]: messages of p accepted so far
  got,      \* got[p]: the messages of p as they were delivered
  excused   \* acc at the last establishment or release heard of by layer 3

vars == <<dl, ch, calls, lost, acc, got, excused>>

Message(p, n) == [i \in 1..Sizes[n] |-> [from |-> p, n |-> n, i |-> i]]

\* The layer 3 message of contention resolution.
Content(p) == <<[from |-> p, n |-> 0, i |-> 1]>>

\* The number of the message of p in payload x, if it is a whole message.
Number(p, x) ==
  IF \E n \in DOMAIN Sizes : x = Message(p, n)
  THEN CHOOSE n \in DOMAIN Sizes : x = Message(p, n)
  ELSE -1

Events == {"EST_IND", "EST_CONF", "REL_IND", "REL_CONF"}

\* Data link p becomes d: its frames go on the link, which drops what exceeds
\* MaxCh, its primitives go to layer 3.
Step(p, d, rest, accepted) ==
  LET q    == Other(p)
      data == SelectSeq(d.up, LAMBDA u : u.prim = "DATA_IND")
      sent == ch[p] \o d.tx
  IN /\ dl' = [dl EXCEPT ![p] = [d EXCEPT !.tx = <<>>, !.up = <<>>]]
     /\ ch' = [ch EXCEPT ![p] = SubSeq(sent, 1, IF Len(sent) < MaxCh THEN Len(sent) ELSE MaxCh),
                         ![q] = rest]
     /\ acc' = accepted
     /\ got' = [got EXCEPT ![q] = @ \o [i \in DOMAIN data |-> Number(q, data[i].p)]]
     /\ excused' = IF \E i \in DOMAIN d.up : d.up[i].prim \in Events THEN accepted ELSE excused

Receive(p) ==
  /\ ch[Other(p)] # <<>>
  /\ Step(p, lapd_ph_data_ind(dl[p], Head(ch[Other(p)])), Tail(ch[Other(p)]), acc)
  /\ UNCHANGED <<calls, lost>>

Lose(p) ==
  /\ lost < MaxLost /\ ch[p] # <<>> /\ Head(ch[p]).t \in Losable
  /\ ch' = [ch EXCEPT ![p] = Tail(@)]
  /\ lost' = lost + 1
  /\ UNCHANGED <<dl, calls, acc, got, excused>>

\* The timers of p may expire.
Late(p) == IF Patient THEN \A q \in Peers : ch[q] = <<>> ELSE Len(ch[p]) < MaxCh

T200(p) ==
  /\ dl[p].t200 /\ Late(p)
  /\ Step(p, lapd_t200_cb(dl[p]), ch[Other(p)], acc)
  /\ UNCHANGED <<calls, lost>>

T203(p) ==
  /\ dl[p].t203 /\ Late(p)
  /\ Step(p, lapd_t203_cb(dl[p]), ch[Other(p)], acc)
  /\ UNCHANGED <<calls, lost>>

Data(p) ==
  /\ acc[p] < Len(Sizes) /\ dl[p].state \in Estd
  /\ Step(p, lapd_recv_dlsap(dl[p], "DATA", Message(p, acc[p] + 1)), ch[Other(p)],
          [acc EXCEPT ![p] = @ + 1])
  /\ UNCHANGED <<calls, lost>>

\* What layer 3 gives to lapd_recv_dlsap.
Primitive(p, r) ==
  CASE r = "EST_CONT"  -> [prim |-> "EST", m |-> Content(p)]
    [] r = "LOCAL_REL" -> [prim |-> "REL", m |-> <<"local">>]
    [] r = "UDATA"     -> [prim |-> "UDATA", m |-> Content(p)]
    [] OTHER           -> [prim |-> r, m |-> <<>>]

\* Any other primitive; one that the state does not handle changes nothing.
Call(p, r) ==
  /\ r \in Requests /\ calls < MaxCalls
  /\ LET c == Primitive(p, r)
         d == lapd_recv_dlsap(dl[p], c.prim, c.m)
     IN d # dl[p] /\ Step(p, d, ch[Other(p)], acc)
  /\ calls' = calls + 1
  /\ UNCHANGED lost

Init ==
  /\ dl = [p \in Peers |-> lapd_dl_init(p)]
  /\ ch = [p \in Peers |-> <<>>]
  /\ calls = 0 /\ lost = 0
  /\ acc = [p \in Peers |-> 0]
  /\ got = [p \in Peers |-> <<>>]
  /\ excused = [p \in Peers |-> 0]

Next ==
  \E p \in Peers :
     \/ Receive(p) \/ Lose(p) \/ T200(p) \/ T203(p) \/ Data(p)
     \/ \E r \in Requests : Call(p, r)

Spec == Init /\ [][Next]_vars

\* Frames arrive or are lost, and timers that run expire.
Fairness ==
  \A p \in Peers :
     /\ []<>(ch[Other(p)] = <<>>) \/ []<><<Receive(p)>>_vars
     /\ WF_vars(T200(p))
FairSpec == Spec /\ Fairness

-----------------------------------------------------------------------------
(* Properties.                                                             *)

\* The state variables are numbers modulo VRange, layer 1 took every frame, and
\* at most K messages' segments are kept to be sent again.
TypeOK ==
  /\ \A p \in Peers :
       /\ dl[p].state \in States
       /\ {dl[p].vs, dl[p].va, dl[p].vr} \subseteq 0..(VRange - 1)
       /\ dl[p].t200 \in BOOLEAN /\ dl[p].t203 \in BOOLEAN
       /\ dl[p].retrans \in Nat /\ dl[p].err \in 0..2
       /\ dl[p].tx = <<>> /\ dl[p].up = <<>>
       /\ Len(ch[p]) <= MaxCh
  /\ calls \in 0..MaxCalls /\ lost \in 0..MaxLost
  /\ acc \in [Peers -> 0..Len(Sizes)] /\ got \in [Peers -> Seq(-1..Len(Sizes))]

Service == INSTANCE LapdService WITH
  accepted <- acc, delivered <- got, excused <- excused

\* The two entities implement the service: with the sequence numbers of
\* lapd_rx_i, the retransmission by REJ and by T200, and the segments of
\* lapd_send_i, every message arrives whole, once and in order, and none is
\* left out between two events of the link.
Implements == Service!Spec

\* SABM or DISC that waits for its answer is in the history at V(S), where
\* lapd_send_resend takes it from when T200 expires.
CommandKept ==
  \A p \in Peers : dl[p].state \in {"SABM_SENT", "DISC_SENT"} =>
                      dl[p].vs = 0 /\ dl[p].hist[0] # Null

\* No more than K frames are outstanding, and all of them are in the history:
\* lapd_send_i may be asked by REJ for any of them again.
Outstanding(d) == {(d.va + i) % VRange : i \in 0..(sub_mod(d.vs, d.va) - 1)}
WindowKept ==
  \A p \in Peers : dl[p].state = "MF_EST" =>
     /\ sub_mod(dl[p].vs, dl[p].va) <= K
     /\ \A v \in Outstanding(dl[p]) : dl[p].hist[Slot(v)] # Null

\* With frames outstanding T200 runs: lapd_acknowledge and lapd_send_i never
\* leave a frame that nobody asks for again.
Supervised ==
  \A p \in Peers : dl[p].state = "MF_EST" /\ dl[p].vs # dl[p].va => dl[p].t200

\* An establishment is answered, or given up after N200Est repetitions
\* (lapd_t200_cb).
Establishing(p) == dl[p].state = "SABM_SENT"
EstAnswered == \A p \in Peers : Establishing(p) ~> ~Establishing(p)

\* A release is answered, or given up (lapd_t200_cb).
RelAnswered == \A p \in Peers : dl[p].state = "DISC_SENT" ~> dl[p].state # "DISC_SENT"
=============================================================================
