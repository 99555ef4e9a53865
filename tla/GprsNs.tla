------------------------------- MODULE GprsNs -------------------------------
(***************************************************************************)
(* The network service of the Gb interface (gprs_ns.c): the NS-VCs of an   *)
(* instance, found by address, NSVCI or NSEI, with the reset, block and    *)
(* test procedures.  Every function is an operator from the instance to    *)
(* the instance; PDUs go to out, what the user of the instance sees to up. *)
(* NsTable is one instance that anybody talks to, NsLink joins two.        *)
(***************************************************************************)
EXTENDS Integers, Sequences, SequencesExt, FiniteSets

CONSTANTS
  AliveRetries,  \* timeout[NS_TOUT_TNS_ALIVE_RETRIES]
  None           \* no address, no timer

ASSUME NsAssumption == AliveRetries \in Nat

\* A PDU; full: it has its mandatory elements.
Pdu(t, nsvci, nsei, full) == [t |-> t, nsvci |-> nsvci, nsei |-> nsei, full |-> full]
Simple(t) == Pdu(t, 0, 0, TRUE)

\* The list of NS-VCs; remote_state and the counters only tell and are left out.
gprs_ns_instantiate == [vcs |-> <<>>, out |-> <<>>, up |-> <<>>]

\* NSVCI of an NS-VC that waits for its first RESET.
Unset == 65535

Nsvc(nsvci, nsei, addr) ==
  [nsvci |-> nsvci, valid |-> TRUE, nsei |-> nsei, addr |-> addr, state |-> {"BLOCKED"},
   timer |-> None, retries |-> 0, sgsn |-> FALSE, persistent |-> FALSE]

\* The new NS-VC is the first of the list.
gprs_nsvc_create(n, vc) == [n EXCEPT !.vcs = <<vc>> \o @]

\* The first NS-VC that fits, or 0.
Lookup(n, Fits(_)) ==
  LET fit == {i \in DOMAIN n.vcs : Fits(n.vcs[i])}
  IN IF fit = {} THEN 0 ELSE CHOOSE i \in fit : \A j \in fit : i <= j

gprs_nsvc_by_nsvci(n, nsvci) == Lookup(n, LAMBDA v : v.nsvci = nsvci)
gprs_nsvc_by_nsei(n, nsei)   == Lookup(n, LAMBDA v : v.nsei = nsei)
nsvc_by_rem_addr(n, a)       == Lookup(n, LAMBDA v : v.addr = a)
Active(v) == "ALIVE" \in v.state /\ "BLOCKED" \notin v.state
gprs_active_nsvc_by_nsei(n, nsei) == Lookup(n, LAMBDA v : v.nsei = nsei /\ Active(v))

Signal(n, i, s) == [n EXCEPT !.up = Append(@, [sig |-> s, nsvci |-> n.vcs[i].nsvci])]

gprs_ns_tx(n, i, p) == [n EXCEPT !.out = Append(@, [to |-> n.vcs[i].addr, pdu |-> p])]
gprs_ns_tx_simple(n, i, t) == gprs_ns_tx(n, i, Simple(t))
Identified(n, i, t) == gprs_ns_tx(n, i, Pdu(t, n.vcs[i].nsvci, n.vcs[i].nsei, TRUE))
gprs_ns_tx_reset(n, i)     == Identified(n, i, "RESET")
gprs_ns_tx_reset_ack(n, i) == Identified(n, i, "RESET_ACK")
gprs_ns_tx_status(n, i)    == gprs_ns_tx_simple(n, i, "STATUS")

\* It is marked as blocked even before the answer.
gprs_ns_tx_block(n, i) ==
  Identified([n EXCEPT !.vcs[i].state = @ \cup {"BLOCKED"}], i, "BLOCK")

nsvc_start_timer(n, i, mode) == [n EXCEPT !.vcs[i].timer = mode]

gprs_nsvc_reset(n, i) ==
  nsvc_start_timer(gprs_ns_tx_reset([n EXCEPT !.vcs[i].state = {"BLOCKED", "RESET"}], i),
                   i, "RESET")

gprs_ns_nsip_connect(n, a, nsei, nsvci) ==
  LET j == nsvc_by_rem_addr(n, a)
      m == IF j = 0 THEN gprs_nsvc_create(n, Nsvc(nsvci, nsei, a)) ELSE n
      i == IF j = 0 THEN 1 ELSE j
  IN gprs_nsvc_reset([m EXCEPT !.vcs[i].nsei = nsei, !.vcs[i].sgsn = TRUE], i)

-----------------------------------------------------------------------------
(* The timer of an NS-VC.                                                  *)

TestAgain(n, i) == nsvc_start_timer(gprs_ns_tx_simple(n, i, "ALIVE"), i, "ALIVE")

\* After the last retry the NS-VC is dead, and no timer runs.
gprs_ns_timer_cb(n0, i) ==
  LET mode == n0.vcs[i].timer
      n    == [n0 EXCEPT !.vcs[i].timer = None]
      r    == n0.vcs[i].retries + 1
  IN CASE mode = "ALIVE" /\ r > AliveRetries ->
            Signal(Signal([n EXCEPT !.vcs[i].retries = r, !.vcs[i].state = {"BLOCKED"}],
                          i, "ALIVE_EXP"), i, "BLOCK")
       [] mode = "ALIVE" /\ r <= AliveRetries ->
            TestAgain([n EXCEPT !.vcs[i].retries = r], i)
       [] mode = "TEST"  -> TestAgain([n EXCEPT !.vcs[i].retries = 0], i)
       [] mode = "RESET" -> nsvc_start_timer(gprs_ns_tx_reset(n, i), i, "RESET")

-----------------------------------------------------------------------------
(* PDUs for NS-VC i.                                                       *)

Fixed(v) == v.persistent \/ v.sgsn

\* NS-VC j takes over the link of NS-VC i, which keeps everything else.

Replace(n, j, i) ==
  Signal([n EXCEPT !.vcs[j].addr = n.vcs[i].addr, !.vcs[i].addr = None], j, "REPLACED")

\* The end of both procedures: blocked, alive, and under test.
Tested(n, i) ==
  nsvc_start_timer(gprs_ns_tx_simple(n, i, "ALIVE"), i, "TEST")

\* RESET is accepted on NS-VC i, whose link came from NS-VC j (0: its own).
Accept(n, i, j, p) ==
  LET a == [n EXCEPT !.vcs[i].state = {"BLOCKED", "ALIVE"}, !.vcs[i].nsei = p.nsei]
      b == IF j # 0 THEN Replace(a, i, j)
           ELSE [a EXCEPT !.vcs[i].nsvci = p.nsvci, !.vcs[i].valid = TRUE]
  IN Tested(gprs_ns_tx_reset_ack(Signal(b, i, "RESET"), i), i)

\* Faulty variant of Renumbered: the NSVCI is not looked up.
RenumberedAlways(n, i, p) ==
  Accept(gprs_nsvc_create(n, Nsvc(p.nsvci, p.nsei, None)), 1, i + 1, p)

\* The peer of NS-VC i has another NSVCI now: that of a known NS-VC or of a
\* new one.
Renumbered(n, i, p) ==
  LET j == gprs_nsvc_by_nsvci(n, p.nsvci)
  IN IF j = 0 THEN Accept(gprs_nsvc_create(n, Nsvc(p.nsvci, p.nsei, None)), 1, i + 1, p)
     ELSE IF n.vcs[j].valid /\ n.vcs[j].nsei # p.nsei /\ Fixed(n.vcs[j])
     THEN gprs_ns_tx_reset_ack(Signal(n, j, "MISMATCH"), j)
     ELSE Accept(n, j, i, p)

gprs_ns_rx_reset(n, i, p) ==
  LET v == n.vcs[i]
      mismatch == gprs_ns_tx_reset_ack(Signal(n, i, "MISMATCH"), i)
  IN IF ~p.full THEN gprs_ns_tx_status(n, i)
     ELSE IF v.valid /\ v.nsvci # p.nsvci
     THEN IF Fixed(v) THEN mismatch ELSE Renumbered(n, i, p)
     ELSE IF v.valid /\ v.nsei # p.nsei /\ Fixed(v) THEN mismatch
     ELSE Accept(n, i, 0, p)

\* RESET ACK ends the reset procedure of the NS-VC that has its NSVCI.
gprs_ns_rx_reset_ack(n, i, p) ==
  LET v == n.vcs[i]
      j == gprs_nsvc_by_nsvci(n, p.nsvci)
      done(m, k) == Tested([m EXCEPT !.vcs[k].state = {"BLOCKED", "ALIVE"}], k)
  IN IF ~p.full THEN gprs_ns_tx_status(n, i)
     ELSE IF "RESET" \notin v.state \/ ~v.valid THEN n
     ELSE IF v.nsvci # p.nsvci
     THEN IF Fixed(v) \/ j = 0 THEN Signal(n, i, "MISMATCH")
          ELSE done(Replace(n, j, i), j)
     ELSE IF v.nsei # p.nsei /\ Fixed(v) THEN Signal(n, i, "MISMATCH")
     ELSE done([n EXCEPT !.vcs[i].nsei = p.nsei], i)

gprs_ns_rx_block(n0, i, p) ==
  LET n == [n0 EXCEPT !.vcs[i].state = @ \cup {"BLOCKED"}]
  IN IF ~p.full THEN gprs_ns_tx_status(n, i)
     ELSE gprs_ns_tx_simple(Signal(n, i, "BLOCK"), i, "BLOCK_ACK")

gprs_ns_rx_unitdata(n, i) ==
  IF "BLOCKED" \in n.vcs[i].state THEN gprs_ns_tx_status(n, i) ELSE Signal(n, i, "UNITDATA")

\* Faulty variant of rx_alive: a dead NS-VC stays dead.
rx_aliveDead(n, i) ==
  IF "ALIVE" \in n.vcs[i].state THEN gprs_ns_tx_simple(n, i, "ALIVE_ACK") ELSE n

\* A dead NS-VC that hears ALIVE starts the reset procedure.
rx_alive(n, i) ==
  IF n.vcs[i].state = {"BLOCKED"} THEN gprs_nsvc_reset(n, i)
  ELSE IF "RESET" \notin n.vcs[i].state THEN gprs_ns_tx_simple(n, i, "ALIVE_ACK") ELSE n

rx_alive_ack(n0, i) ==
  LET n == nsvc_start_timer(n0, i, "TEST")
  IN IF n.vcs[i].sgsn /\ "BLOCKED" \in n.vcs[i].state
     THEN gprs_ns_tx_simple(n, i, "UNBLOCK") ELSE n

gprs_ns_process_msg(n, i, p) ==
  CASE p.t = "ALIVE"     -> rx_alive(n, i)
    [] p.t = "ALIVE_ACK" -> rx_alive_ack(n, i)
    [] p.t = "UNITDATA"  -> gprs_ns_rx_unitdata(n, i)
    [] p.t = "RESET"     -> gprs_ns_rx_reset(n, i, p)
    [] p.t = "RESET_ACK" -> gprs_ns_rx_reset_ack(n, i, p)
    [] p.t = "UNBLOCK"   -> gprs_ns_tx_simple(
                              Signal([n EXCEPT !.vcs[i].state = @ \ {"BLOCKED"}], i, "UNBLOCK"),
                              i, "UNBLOCK_ACK")
    [] p.t = "UNBLOCK_ACK" -> Signal([n EXCEPT !.vcs[i].state = {"ALIVE"}], i, "UNBLOCK")
    [] p.t = "BLOCK"     -> gprs_ns_rx_block(n, i, p)
    [] OTHER -> n

-----------------------------------------------------------------------------
(* PDUs by address.                                                        *)

\* No NS-VC has the address: only RESET makes one, or moves one here.
gprs_ns_vc_create(n, a, p) ==
  LET j == gprs_nsvc_by_nsvci(n, p.nsvci)
      reject == [n EXCEPT !.out = Append(@, [to |-> a, pdu |-> Simple("STATUS")])]
  IN CASE p.t \in {"STATUS", "ALIVE_ACK", "RESET_ACK"} -> n
       [] p.t = "RESET" /\ p.full ->
            IF j = 0
            THEN gprs_ns_process_msg(
                   gprs_nsvc_create(n, [Nsvc(Unset, 0, a) EXCEPT !.valid = FALSE]), 1, p)
            ELSE gprs_ns_process_msg(
                   [n EXCEPT !.vcs[j].nsei = p.nsei, !.vcs[j].addr = a], j, p)
       [] OTHER -> reject

gprs_ns_rcvmsg(n, a, p) ==
  LET i == nsvc_by_rem_addr(n, a)
  IN IF i = 0 THEN gprs_ns_vc_create(n, a, p) ELSE gprs_ns_process_msg(n, i, p)

\* User data goes to the first NS-VC of the NSEI that is alive and not blocked.
gprs_ns_sendmsg(n, nsei) ==
  LET i == gprs_active_nsvc_by_nsei(n, nsei)
  IN IF i = 0 THEN n ELSE gprs_ns_tx_simple(n, i, "UNITDATA")
=============================================================================
