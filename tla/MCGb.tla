-------------------------------- MODULE MCGb --------------------------------
(***************************************************************************)
(* The network service and BSSGP of libosmocore, part by part: the NS-VCs  *)
(* of one instance whatever its peers send (NsTable), a BSS and an SGSN    *)
(* over UDP that loses PDUs (NsLink), the procedures of BVCs (Bssgp) and   *)
(* the downlink flow control (BssgpFc).                                    *)
(***************************************************************************)
EXTENDS NsTable, Bssgp, BssgpFc

CONSTANTS a1, a2, p1, p2, c1   \* addresses, ports, a cell

VARIABLES
  part,                             \* the part that runs; the others rest in an
                                    \* initial state, and NsLink in 0
  nss, port, ch, lost, restarts     \* NsLink; its instances are nss

linkVars == <<nss, port, ch, lost, restarts>>
vars == <<part, nsi, linkVars, bssgp_vars, fc_vars>>

AllTypes == {"ALIVE", "ALIVE_ACK", "UNITDATA", "STATUS", "RESET", "RESET_ACK",
             "UNBLOCK", "UNBLOCK_ACK", "BLOCK", "BLOCK_ACK"}
SomePairs == {<<1, 1>>, <<1, 2>>, <<2, 2>>}
Varying == {[size |-> 4, rate |-> 100], [size |-> 2, rate |-> 0]}
Leaking == {[size |-> 4, rate |-> 100], [size |-> 2, rate |-> 200]}

-----------------------------------------------------------------------------
(* The parts with constants of their own.                                  *)

Link == INSTANCE NsLink WITH
  nsi <- nss, AliveRetries <- 1, Ports <- {p1}, MaxLost <- 5, MaxRestarts <- 0, MaxCh <- 4
Moving == INSTANCE NsLink WITH
  nsi <- nss, AliveRetries <- 1, Ports <- {p1, p2}, MaxLost <- 2, MaxRestarts <- 2, MaxCh <- 4
Crossing == INSTANCE Bssgp WITH Bvcs <- {1, 2}, MaxOnWay <- 2
Drain == INSTANCE BssgpFc WITH Settings <- Leaking, MaxDepth <- 2, MaxPdus <- 2, MaxElapsed <- 5

ASSUME PartsAssumption == Link!LinkAssumption /\ Moving!LinkAssumption

NoLink == nss = 0 /\ port = 0 /\ ch = 0 /\ lost = 0 /\ restarts = 0
FcRests == FcInit /\ fc.default = CHOOSE s \in Settings : TRUE

Init ==
  \/ part = "table" /\ NsInit /\ NoLink /\ BssgpInit /\ FcRests
  \/ part = "link" /\ NsInit /\ Link!Init /\ BssgpInit /\ FcRests
  \/ part = "ports" /\ NsInit /\ Moving!Init /\ BssgpInit /\ FcRests
  \/ part = "bvc" /\ NsInit /\ NoLink /\ BssgpInit /\ FcRests
  \/ part = "crossing" /\ NsInit /\ NoLink /\ Crossing!BssgpInit /\ FcRests
  \/ part = "flow" /\ NsInit /\ NoLink /\ BssgpInit /\ FcInit
  \/ part = "drain" /\ NsInit /\ NoLink /\ BssgpInit /\ Drain!FcInit

KeepNs    == UNCHANGED <<part, linkVars, bssgp_vars, fc_vars>>
KeepLink  == UNCHANGED <<part, nsi, bssgp_vars, fc_vars>>
KeepBssgp == UNCHANGED <<part, nsi, linkVars, fc_vars>>
KeepFc    == UNCHANGED <<part, nsi, linkVars, bssgp_vars>>

TableNext ==
  \/ \E a \in Addrs, p \in Pdus : part = "table" /\ Rcv(a, p) /\ KeepNs
  \/ part = "table" /\ (\E k \in DOMAIN nsi.vcs : NsTimer(k)) /\ KeepNs
  \/ part = "table" /\ (\E k \in DOMAIN nsi.vcs : NsBlock(k)) /\ KeepNs
  \/ \E a \in Uplinks, x \in Pairs : part = "table" /\ Connect(a, x) /\ KeepNs
LinkNext ==
  \/ \E s \in Link!Sides : part = "link" /\ Link!Receive(s) /\ KeepLink
  \/ \E s \in Link!Sides : part = "link" /\ Link!Lose(s) /\ KeepLink
  \/ \E s \in Link!Sides : part = "link" /\ Link!Timer(s) /\ KeepLink
MovingNext ==
  \/ \E pt \in {p1, p2} : part = "ports" /\ Moving!Restart(pt) /\ KeepLink
  \/ \E s \in Moving!Sides : part = "ports" /\ Moving!Receive(s) /\ KeepLink
  \/ \E s \in Moving!Sides : part = "ports" /\ Moving!Lose(s) /\ KeepLink
  \/ \E s \in Moving!Sides : part = "ports" /\ Moving!Timer(s) /\ KeepLink
\* The signalling BVC and that of point to multipoint.
BvcNext ==
  \/ \E b \in {SIGNALLING, PTM} : part = "bvc" /\ bssgp_tx_bvc_reset(b) /\ KeepBssgp
  \/ \E b \in {SIGNALLING, PTM} : part = "bvc" /\ bssgp_tx_bvc_block(b) /\ KeepBssgp
  \/ \E b \in {SIGNALLING, PTM} : part = "bvc" /\ bssgp_tx_bvc_unblock(b) /\ KeepBssgp
  \/ \E b \in Bvcs \ {SIGNALLING} : part = "bvc" /\ Traffic(b) /\ KeepBssgp
  \/ \E t \in {"SUSPEND", "RESUME"} : part = "bvc" /\ SuspendResume(t) /\ KeepBssgp
  \/ part = "bvc" /\ BssReceive /\ KeepBssgp
  \/ part = "bvc" /\ SgsnReceive /\ KeepBssgp
  \/ part = "bvc" /\ Lose /\ KeepBssgp
\* The BVC of a cell, with several PDUs on the way.
CrossingNext ==
  \/ part = "crossing" /\ Crossing!bssgp_tx_bvc_reset(2) /\ KeepBssgp
  \/ part = "crossing" /\ Crossing!bssgp_tx_bvc_block(2) /\ KeepBssgp
  \/ part = "crossing" /\ Crossing!bssgp_tx_bvc_unblock(2) /\ KeepBssgp
  \/ part = "crossing" /\ Crossing!Traffic(2) /\ KeepBssgp
  \/ \E c \in Cells : part = "crossing" /\ Crossing!Reassign(2, c) /\ KeepBssgp
  \/ \E t \in {"SUSPEND", "RESUME"} : part = "crossing" /\ Crossing!SuspendResume(t) /\ KeepBssgp
  \/ part = "crossing" /\ Crossing!BssReceive /\ KeepBssgp
  \/ part = "crossing" /\ Crossing!SgsnReceive /\ KeepBssgp
  \/ part = "crossing" /\ Crossing!Lose /\ KeepBssgp
FlowNext ==
  \/ \E f \in Fcs, len \in Lens : part = "flow" /\ TxDlUd(f, len) /\ KeepFc
  \/ \E f \in Fcs : part = "flow" /\ FcTimer(f) /\ KeepFc
  \/ \E s \in Settings : part = "flow" /\ bssgp_rx_fc_bvc(s) /\ KeepFc
  \/ part = "flow" /\ bssgp_fc_ms_init /\ KeepFc
  \/ part = "flow" /\ Tick /\ KeepFc
DrainNext ==
  \/ \E f \in Fcs, len \in Lens : part = "drain" /\ Drain!TxDlUd(f, len) /\ KeepFc
  \/ \E f \in Fcs : part = "drain" /\ Drain!FcTimer(f) /\ KeepFc
  \/ \E s \in Leaking : part = "drain" /\ Drain!bssgp_rx_fc_bvc(s) /\ KeepFc
  \/ part = "drain" /\ Drain!bssgp_fc_ms_init /\ KeepFc
  \/ part = "drain" /\ Drain!Tick /\ KeepFc

Next == TableNext \/ LinkNext \/ MovingNext \/ BvcNext \/ CrossingNext \/ FlowNext \/
        DrainNext

Spec == Init /\ [][Next]_vars

\* PDUs arrive or are lost.  A timer that runs expires: strong fairness, since
\* PDUs of the other timers, and other PDUs of a bucket, keep interrupting it in
\* the model.  The BSS leaves its settings alone in the end.
Fairness ==
  /\ \A s \in {"bss", "sgsn"} :
       /\ \/ []<>(part # "link" \/ ch[Link!Other(s)] = <<>>)
          \/ []<><<part = "link" /\ Link!Receive(s)>>_vars
       /\ SF_vars(part = "link" /\ Link!Timer(s) /\ KeepLink)
  /\ WF_vars(part = "drain" /\ Drain!Tick /\ KeepFc)
  /\ \A f \in {"ms", "bvc"} : SF_vars(part = "drain" /\ Drain!FcTimer(f) /\ KeepFc)
  /\ <>[][part = "drain" => ~\E s \in Leaking : Drain!bssgp_rx_fc_bvc(s) /\ fc' # fc]_vars
FairSpec == Spec /\ Fairness

-----------------------------------------------------------------------------
(* Properties; NsTable, Bssgp and BssgpFc have NsvcUnique, BvcAgreed and   *)
(* FlowConserved.                                                          *)

\* The SGSN keeps one NS-VC for a BSS that restarts, on whatever port.  When the
\* BSS does not restart and PDUs are no longer lost, both sides come back to an
\* NS-VC that is alive and not blocked: by the repeated RESET (Tns-reset), the
\* repeated test (Tns-test, Tns-alive) and the UNBLOCK that follows every ALIVE
\* ACK.  The exception is that both are dead: gprs_ns_timer_cb starts no timer
\* after the last retry of a test (gprs_ns.c:533-546), so that neither wakes the
\* other, which takes as many losses as both sides make attempts.  After a restart
\* they need not come back: an UNBLOCK ACK to the former process takes the new one
\* out of its reset procedure (gprs_ns.c:1282).
Recovers ==
  /\ [](part = "ports" => Moving!OneVc)
  /\ \/ <>[](part = "link" => Link!Back)
     \/ <>[](part = "link" /\ Link!Dead)

\* Every PDU that is queued leaves the queues some day, even after the BSS made
\* the bucket smaller than the PDU.
Drains ==
  \A f \in {"ms", "bvc"} :
    [](part = "drain" /\ fc[f].queue # <<>> => <>(part = "drain" /\ fc[f].queue = <<>>))
=============================================================================
