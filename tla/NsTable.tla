------------------------------ MODULE NsTable ------------------------------
(***************************************************************************)
(* One instance of the network service (GprsNs), as an SGSN or a gateway   *)
(* runs it: any PDU from any address at any time.                          *)
(***************************************************************************)
EXTENDS GprsNs

CONSTANTS
  Addrs,     \* addresses of peers
  Uplinks,   \* addresses this side connects to itself
  Ids,       \* values of NSVCI and NSEI
  Pairs,     \* the pairs of them that peers send and the operator configures
  Types,     \* the PDUs that peers send
  MaxVcs     \* bound: NS-VCs of the instance

ASSUME TableAssumption ==
  /\ None \notin Addrs \cup {"ALIVE", "TEST", "RESET"}
  /\ Uplinks \subseteq Addrs /\ Ids \subseteq Nat
  /\ Pairs \subseteq Ids \X Ids /\ MaxVcs \in Nat

VARIABLE nsi
ns_vars == <<nsi>>

\* The instance after a step; what it sends and tells is for somebody else.
Settle(n) == nsi' = [n EXCEPT !.out = <<>>, !.up = <<>>]

Rcv(a, p) ==
  /\ \/ Len(nsi.vcs) < MaxVcs \/ p.t # "RESET" \/ ~p.full
     \/ gprs_nsvc_by_nsvci(nsi, p.nsvci) # 0
  /\ Settle(gprs_ns_rcvmsg(nsi, a, p))

NsTimer(i) == nsi.vcs[i].timer # None /\ Settle(gprs_ns_timer_cb(nsi, i))
NsBlock(i) == Settle(gprs_ns_tx_block(nsi, i))

\* The operator connects.  That the NSVCI is not in use yet is an assumption about
\* the operator: gprs_ns_nsip_connect looks for the address only.
Connect(a, x) ==
  /\ Len(nsi.vcs) < MaxVcs /\ gprs_nsvc_by_nsvci(nsi, x[1]) = 0
  /\ Settle(gprs_ns_nsip_connect(nsi, a, x[2], x[1]))

NsInit == nsi = gprs_ns_instantiate

Pdus == {Pdu(t, x[1], x[2], TRUE) : t \in Types \cap {"RESET", "RESET_ACK"}, x \in Pairs}
        \cup {Simple(t) : t \in Types \ {"RESET", "RESET_ACK"}}
        \cup {Pdu(t, 0, 0, FALSE) : t \in Types \cap {"RESET", "BLOCK"}}

NsNext ==
  \/ \E a \in Addrs, p \in Pdus : Rcv(a, p)
  \/ \E i \in DOMAIN nsi.vcs : NsTimer(i) \/ NsBlock(i)
  \/ \E a \in Uplinks, x \in Pairs : Connect(a, x)

NsSpec == NsInit /\ [][NsNext]_ns_vars

-----------------------------------------------------------------------------
(* Properties.                                                             *)

\* Type correctness; the retries of the test never exceed the limit by more
\* than the one that declares the NS-VC dead.
NsTypeOK ==
  \A i \in DOMAIN nsi.vcs :
     LET v == nsi.vcs[i]
     IN /\ v.nsvci \in Ids \cup {Unset} /\ v.nsei \in Ids \cup {0}
        /\ v.addr \in Addrs \cup {None}
        /\ v.state \subseteq {"BLOCKED", "ALIVE", "RESET"}
        /\ v.timer \in {None, "RESET", "ALIVE", "TEST"}
        /\ v.retries \in 0..(AliveRetries + 1)
        /\ v.valid

\* The NSVCI identifies an NS-VC: however peers renumber and move, no two of
\* the list share one (gprs_ns_rx_reset, gprs_ns_vc_create).
NsvciUnique ==
  \A i, j \in DOMAIN nsi.vcs : nsi.vcs[i].nsvci = nsi.vcs[j].nsvci => i = j

\* A PDU is handled by the NS-VC of its sender: no two of the list have the
\* same address (gprs_ns_ll_copy, gprs_ns_ll_clear).
AddrUnique ==
  \A i, j \in DOMAIN nsi.vcs :
     nsi.vcs[i].addr = nsi.vcs[j].addr /\ nsi.vcs[i].addr # None => i = j

\* An NS-VC in the reset procedure never waits without a timer.
ResetPending == \A i \in DOMAIN nsi.vcs : "RESET" \in nsi.vcs[i].state => nsi.vcs[i].timer # None

\* The NSVCI identifies an NS-VC and so does the address of the peer: however
\* peers renumber, move, reset and answer, no two NS-VCs of the list share one
\* (gprs_ns_rx_reset, gprs_ns_vc_create, gprs_ns_ll_copy, gprs_ns_ll_clear), and
\* an NS-VC in the reset procedure never waits without a timer, provided that the
\* operator configures no NSVCI twice (Connect).
NsvcUnique == NsTypeOK /\ NsvciUnique /\ AddrUnique /\ ResetPending
=============================================================================
