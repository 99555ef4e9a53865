---------------------------- MODULE LapdmEntity ----------------------------
(***************************************************************************)
(* An entity of LAPDm (lapdm.c): the data links of SAPI 0 and SAPI 3       *)
(* (LapdCore), the queues of frames that wait until layer 1 asks for one,  *)
(* and the RSL messages of layer 3.  The peer is any sequence of frames.   *)
(***************************************************************************)
EXTENDS LapdCore

CONSTANTS
  Acch,         \* the entity is lapdm_acch: frames carry the timing advance
  Polling,      \* flag LAPDM_ENT_F_POLLING_ONLY
  Mode,         \* "user" in an MS, "network" in a BTS
  Chans,        \* channel numbers
  Tas,          \* timing advances
  Active,       \* the SAPIs in use
  Frames,       \* the frames that layer 1 receives
  Messages,     \* the layer 3 messages, in segments
  Msgs,         \* the RSL messages that layer 3 uses
  MaxCalls,     \* bound: messages of layer 3
  MaxQ          \* bound: frames in a queue

Sapis == {0, 3}
EntityAssumption ==
  /\ ~Reestablish               \* lapdm_dl_init
  /\ Acch \in BOOLEAN /\ Polling \in BOOLEAN /\ Mode \in {"user", "network"}
  /\ Active \subseteq Sapis
  /\ Null \notin Chans /\ Tas \subseteq Nat /\ Tas # {}
  /\ \A f \in Frames : /\ f.t \in {"SABM", "DM", "UI", "DISC", "UA", "FRMR", "RR", "RNR", "REJ", "I"}
                       /\ f.pf \in BOOLEAN
  /\ Msgs \subseteq {"UNIT_DATA_REQ", "EST_REQ", "DATA_REQ", "SUSP_REQ", "RES_REQ", "RECON_REQ", "REL_REQ",
               "LOCAL_REL_REQ"}
  /\ \A m \in Messages \cup {<<>>} : [p |-> m, more |-> FALSE] # Null
  /\ MaxCalls \in Nat /\ MaxQ \in Nat \ {0}
ASSUME EntityAssumed == EntityAssumption /\ LapdAssumption

VARIABLES
  dl,       \* the data links, with their queues
  known,    \* known[s]: dl.lctx.dl is set
  last,     \* last_tx_dequeue
  pending,  \* tx_pending
  ta,       \* ta
  l1,       \* the frames given to layer 1 in the last step
  l3,       \* the RSL messages given to layer 3 in the last step
  fault,    \* a null context was used
  calls

entity_vars == <<dl, known, last, pending, ta, l1, l3, fault, calls>>

-----------------------------------------------------------------------------
(* Frames to layer 1.                                                      *)

\* Data link s becomes d; its new frames stay in the queue, or layer 1 takes
\* them at once (tx_pending is never set here).
tx_ph_data_enqueue(s, d) ==
  IF pending \/ Polling
  THEN dl' = [dl EXCEPT ![s] = d] /\ l1' = <<>> /\ UNCHANGED pending
  ELSE /\ dl' = [dl EXCEPT ![s] = [d EXCEPT !.tx = <<>>]]
       /\ l1' = d.tx /\ pending' = FALSE

\* What data link d gave to layer 3 becomes RSL messages (send_rslms_dlsap).
send_rslms_dlsap(s, d) ==
  /\ l3' = d.up
  /\ tx_ph_data_enqueue(s, [d EXCEPT !.up = <<>>])

\* Faulty variant of Turn: SAPI 0 goes first.
TurnFixed == CHOOSE s \in Sapis : dl[s].tx # <<>> /\ \A r \in Sapis : dl[r].tx # <<>> => s <= r

\* Round robin: the other data link goes first.
Turn == CHOOSE s \in Sapis : dl[s].tx # <<>> /\ (s # last \/ \A r \in Sapis \ {s} : dl[r].tx = <<>>)

\* PH-READY-TO-SEND (l2_ph_data_conf, lapdm_phsap_dequeue_prim).
PhReady ==
  /\ l3' = <<>>
  /\ IF \A s \in Sapis : dl[s].tx = <<>>
     THEN l1' = <<>> /\ pending' = FALSE /\ UNCHANGED <<dl, last>>
     ELSE /\ l1' = <<Head(dl[Turn].tx)>>
          /\ dl' = [dl EXCEPT ![Turn].tx = Tail(@)]
          /\ last' = Turn /\ pending' = TRUE
  /\ UNCHANGED <<known, ta, fault, calls>>

-----------------------------------------------------------------------------
(* Frames from layer 1 (l2_ph_data_ind).  The context of the frame becomes *)
(* that of the data link; SABM that is accepted sets lctx as well.         *)

PhData(s, f, c) ==
  /\ Len(dl[s].tx) < MaxQ
  /\ LET d == lapd_ph_data_ind([dl[s] EXCEPT !.chan = c, !.ta = IF Acch THEN ta ELSE Null], f)
     IN /\ send_rslms_dlsap(s, d)
        /\ known' = [known EXCEPT ![s] = @ \/ (dl[s].state # "MF_EST" /\ d.state = "MF_EST")]
  /\ UNCHANGED <<last, ta, fault, calls>>

\* The address or the length has no extension bit: an error indication, and
\* the context stays.
PhDataBad ==
  /\ l1' = <<>> /\ l3' = <<Prim("MDL_ERROR")>>
  /\ UNCHANGED <<dl, known, last, pending, ta, fault, calls>>

\* On BCCH and CCCH a block goes up as it is; so do a channel request and
\* its confirmation.
PhCommon ==
  /\ l1' = <<>>
  /\ \E t \in {"UNIT_DATA_IND", "CHAN_RQD", "CHAN_CONF"} : l3' = <<Prim(t)>>
  /\ UNCHANGED <<dl, known, last, pending, ta, fault, calls>>

-----------------------------------------------------------------------------
(* RSL messages from layer 3 (rslms_rx_rll).                               *)

\* Faulty variant of set_lapdm_context: only the context of LAPD is set.
set_lapdm_contextLapd(d, c) == d

set_lapdm_context(d, c) == [d EXCEPT !.chan = c]

Request(s, d, k) ==
  /\ send_rslms_dlsap(s, d)
  /\ known' = [known EXCEPT ![s] = k]
  /\ UNCHANGED <<last, ta>>

RelInd(s, d) == Request(s, Up(d, Prim("REL_IND")), TRUE)

\* Contention resolution is for SAPI 0 and a message that fits in one frame.
rslms_rx_rll_est_req(s, c, m) ==
  LET d == set_lapdm_context(dl[s], c)
  IN IF m # <<>> /\ (s # 0 \/ Len(m) > 1) THEN RelInd(s, d)
     ELSE Request(s, lapd_recv_dlsap(d, "EST", m), TRUE)

rslms_rx_rll_res_req(s, c, m, prim) ==
  LET d == set_lapdm_context(dl[s], c)
  IN IF m = <<>> THEN RelInd(s, d) ELSE Request(s, lapd_recv_dlsap(d, prim, m), TRUE)

\* Unit data goes past LAPD, with the channel of the request; its timing
\* advance is kept even when there is no message.
rslms_rx_rll_udata_req(s, c, m) ==
  /\ \E t \in Tas :
       /\ ta' = t
       /\ LET u == [dl[s] EXCEPT !.chan = c, !.ta = IF Acch THEN t ELSE Null]
              d == IF Len(m) # 1 THEN dl[s]
                   ELSE [dl[s] EXCEPT !.tx = lapd_udata_req(u, m).tx]
          IN tx_ph_data_enqueue(s, d)
  /\ l3' = <<>>
  /\ UNCHANGED <<last, known>>

\* LOCAL_REL_REQ is a REL_REQ with release mode 1.
Down(s, t, c, m) ==
  CASE t = "UNIT_DATA_REQ" -> rslms_rx_rll_udata_req(s, c, m)
    [] t = "EST_REQ"   -> rslms_rx_rll_est_req(s, c, m)
    [] t = "DATA_REQ"  -> Request(s, lapd_recv_dlsap(dl[s], "DATA", m), known[s])
    [] t = "SUSP_REQ"  -> Request(s, IF s # 0 THEN dl[s] ELSE lapd_recv_dlsap(dl[s], "SUSP", <<>>), known[s])
    [] t = "RES_REQ"   -> rslms_rx_rll_res_req(s, c, m, "RES")
    [] t = "RECON_REQ" -> rslms_rx_rll_res_req(s, c, m, "RECON")
    [] t = "REL_REQ"   -> Request(s, lapd_recv_dlsap(dl[s], "REL", <<>>), known[s])
    [] t = "LOCAL_REL_REQ" -> Request(s, lapd_recv_dlsap(dl[s], "REL", <<"local">>), known[s])

\* Faulty variant of Refusable: a release always goes on.
RefusableData == {"DATA_REQ", "SUSP_REQ"}

\* Without a context these are dropped.
Refusable == {"DATA_REQ", "SUSP_REQ", "REL_REQ", "LOCAL_REL_REQ"}
Dereferenced == {"DATA_REQ", "SUSP_REQ", "REL_REQ", "LOCAL_REL_REQ"}

rslms_rx_rll(s, t, c, m) ==
  /\ calls < MaxCalls /\ calls' = calls + 1
  /\ Len(dl[s].tx) < MaxQ
  /\ IF t \in Refusable /\ ~known[s]
     THEN l1' = <<>> /\ l3' = <<>> /\ UNCHANGED <<dl, known, last, pending, ta, fault>>
     ELSE /\ Down(s, t, c, m)
          /\ fault' = (fault \/ (t \in Dereferenced /\ ~known[s]))

T200(s) ==
  /\ dl[s].t200 /\ Len(dl[s].tx) < MaxQ
  /\ send_rslms_dlsap(s, lapd_t200_cb([dl[s] EXCEPT !.ta = IF Acch THEN ta ELSE Null]))
  /\ fault' = (fault \/ ~known[s])
  /\ UNCHANGED <<known, last, ta, calls>>

\* lapdm_entity_reset: the context stays.
Reset ==
  /\ calls < MaxCalls /\ calls' = calls + 1
  /\ dl' = [s \in Sapis |-> lapd_dl_reset(dl[s])]
  /\ l1' = <<>> /\ l3' = <<>>
  /\ UNCHANGED <<known, last, pending, ta, fault>>

-----------------------------------------------------------------------------
lapdm_entity_init ==
  /\ dl = [s \in Sapis |-> lapd_dl_init(Mode)]
  /\ known = [s \in Sapis |-> FALSE]
  /\ last = 0 /\ pending = FALSE
  /\ ta = 0
  /\ l1 = <<>> /\ l3 = <<>> /\ fault = FALSE /\ calls = 0

EntityNext ==
  \/ PhReady \/ PhDataBad \/ PhCommon \/ Reset
  \/ \E s \in Active :
       \/ T200(s)
       \/ \E f \in Frames, c \in Chans : PhData(s, f, c)
       \/ \E t \in Msgs, c \in Chans, m \in Messages : rslms_rx_rll(s, t, c, m)

EntitySpec == lapdm_entity_init /\ [][EntityNext]_entity_vars

-----------------------------------------------------------------------------
(* Properties.                                                             *)

\* Type correctness; the primitives of a data link do not outlast a step.
EntityTypeOK ==
  /\ \A s \in Sapis :
       /\ dl[s].state \in States
       /\ dl[s].chan \in Chans \cup {Null}
       /\ dl[s].up = <<>>
       /\ \A i \in DOMAIN dl[s].tx : dl[s].tx[i].chan \in Chans \cup {Null}
  /\ known \in [Sapis -> BOOLEAN] /\ last \in Sapis /\ pending \in BOOLEAN
  /\ ta \in Tas \cup {0} /\ fault \in BOOLEAN /\ calls \in 0..MaxCalls

\* A data link that is not idle has a context, every frame that waits has a
\* channel to go out on, and neither a message of layer 3 nor T200 meets a null
\* context (rslms_rx_rll, lapd_t200_cb), whatever frames come before layer 3
\* has asked for anything.
HasContext ==
  /\ ~fault
  /\ \A s \in Sapis :
       /\ dl[s].state # "IDLE" => known[s] /\ dl[s].chan # Null
       /\ \A i \in DOMAIN dl[s].tx : dl[s].tx[i].chan # Null

\* An establishment that waits for its answer has T200 running, and no command
\* is repeated more than N200Est times (lapd_t200_cb), whatever frames and
\* primitives come in between: SABM and DISC of the peer cross it, layer 3
\* releases what it has just established, frames of the old link arrive late.
Commanding(d) == d.state \in {"SABM_SENT", "DISC_SENT"}
EstSupervised ==
  \A s \in Sapis : /\ dl[s].state = "SABM_SENT" => dl[s].t200
                   /\ Commanding(dl[s]) => dl[s].retrans <= N200Est

\* SABM or DISC that waits for its answer is moreover in the history at V(S) = 0,
\* where lapd_send_resend takes it from, without a check, when T200 expires.
CommandKept ==
  /\ EstSupervised
  /\ \A s \in Sapis : Commanding(dl[s]) => dl[s].vs = 0 /\ dl[s].hist[0] # Null

\* An I frame that is taken is acknowledged by a frame that goes out after it,
\* although update_pending_frames changes one that waits instead of sending RR.
Numbered(f) == f.t \in {"I", "RR", "RNR", "REJ"}
AcknowledgedStep ==
  \A s \in Sapis :
    (/\ dl[s].state \in Estd /\ dl'[s].state \in Estd /\ dl'[s].vr = inc_mod(dl[s].vr)
     /\ l3' # <<Prim("EST_IND")>>)
    => \E f \in Range(dl'[s].tx \o l1') : Numbered(f) /\ f.nr = dl'[s].vr
Acknowledged == [][AcknowledgedStep]_entity_vars

\* When layer 1 need not ask, no frame waits: without LAPDM_ENT_F_POLLING_ONLY
\* one that got into a queue would stay there until PH-READY-TO-SEND.
Direct == ~Polling => ~pending /\ \A s \in Sapis : dl[s].tx = <<>>

\* A data link that has to wait for the other one.
Waits(s) == dl[s].tx # <<>> /\ last # s
=============================================================================
