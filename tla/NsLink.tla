------------------------------- MODULE NsLink -------------------------------
(***************************************************************************)
(* A BSS that connects to an SGSN (two instances of GprsNs) over UDP that  *)
(* loses PDUs.  The BSS may be restarted.                                  *)
(***************************************************************************)
EXTENDS GprsNs

CONSTANTS
  Ports,        \* UDP ports of the BSS
  MaxLost,      \* bound: PDUs that get lost
  MaxRestarts,  \* bound: restarts of the BSS
  MaxCh         \* bound: PDUs on the way in one direction

LinkAssumption == MaxLost \in Nat /\ MaxRestarts \in Nat /\ MaxCh \in Nat \ {0}

Sides == {"bss", "sgsn"}
Other(s) == IF s = "bss" THEN "sgsn" ELSE "bss"

VARIABLES
  nsi,   \* the two instances
  port,  \* the port of the BSS
  ch,    \* ch[s]: the PDUs on their way from s, with the port of the BSS
  lost, restarts

vars == <<nsi, port, ch, lost, restarts>>

Clean(n) == [n EXCEPT !.out = <<>>, !.up = <<>>]

\* The datagrams that instance n of side s sent, as many as the bound leaves.
Sent(s, n, pt) ==
  LET new == [k \in DOMAIN n.out |-> [port |-> IF s = "bss" THEN pt ELSE n.out[k].to,
                                      pdu |-> n.out[k].pdu]]
      all == ch[s] \o new
  IN SubSeq(all, 1, IF Len(all) < MaxCh THEN Len(all) ELSE MaxCh)

Settle(s, n, rest) ==
  /\ nsi' = [nsi EXCEPT ![s] = Clean(n)]
  /\ ch' = [ch EXCEPT ![s] = Sent(s, n, port), ![Other(s)] = rest]

\* A datagram for a port that the BSS had before is dropped.
Receive(s) ==
  LET in  == ch[Other(s)]
      d   == Head(in)
      adr == IF s = "bss" THEN "sgsn" ELSE d.port
      n   == nsi[s]
  IN /\ in # <<>>
     /\ Settle(s, IF s = "bss" /\ d.port # port THEN n ELSE gprs_ns_rcvmsg(n, adr, d.pdu), Tail(in))
     /\ UNCHANGED <<port, lost, restarts>>

Lose(s) ==
  /\ lost < MaxLost /\ ch[s] # <<>>
  /\ ch' = [ch EXCEPT ![s] = Tail(@)] /\ lost' = lost + 1
  /\ UNCHANGED <<nsi, port, restarts>>

\* The timers are longer than a PDU and its answer take.
Timer(s) ==
  /\ \A r \in Sides : ch[r] = <<>>
  /\ \E i \in DOMAIN nsi[s].vcs :
       nsi[s].vcs[i].timer # None /\ Settle(s, gprs_ns_timer_cb(nsi[s], i), <<>>)
  /\ UNCHANGED <<port, lost, restarts>>

Started == gprs_ns_nsip_connect(gprs_ns_instantiate, "sgsn", 1, 1)

\* A new process forgets the NS-VC and connects again, perhaps from another port.
Restart(pt) ==
  /\ restarts < MaxRestarts
  /\ nsi' = [nsi EXCEPT !["bss"] = Clean(Started)]
  /\ ch' = [ch EXCEPT !["bss"] = Sent("bss", Started, pt)]
  /\ port' = pt /\ restarts' = restarts + 1
  /\ UNCHANGED lost

Init ==
  /\ nsi = [s \in Sides |-> IF s = "bss" THEN Clean(Started) ELSE gprs_ns_instantiate]
  /\ port \in Ports
  /\ ch = [s \in Sides |-> IF s = "bss" THEN <<[port |-> port, pdu |-> Started.out[1].pdu]>>
                           ELSE <<>>]
  /\ lost = 0 /\ restarts = 0

Next ==
  \/ \E pt \in Ports : Restart(pt)
  \/ \E s \in Sides : Receive(s) \/ Lose(s) \/ Timer(s)

Spec == Init /\ [][Next]_vars

\* PDUs arrive or are lost; a timer that runs expires (strong, since PDUs of the
\* other timers keep interrupting it in this model).
Fairness ==
  \A s \in Sides :
     /\ []<>(ch[Other(s)] = <<>>) \/ []<><<Receive(s)>>_vars
     /\ SF_vars(Timer(s))
FairSpec == Spec /\ Fairness

-----------------------------------------------------------------------------
(* Properties.                                                             *)

Usable(s) == \E i \in DOMAIN nsi[s].vcs : Active(nsi[s].vcs[i])

\* Nothing will happen any more: no NS-VC has a timer.
GivenUp(s) == \A i \in DOMAIN nsi[s].vcs : nsi[s].vcs[i].state = {"BLOCKED"} /\ nsi[s].vcs[i].timer = None

\* Once PDUs are no longer lost, both sides come back to an NS-VC that is
\* alive and not blocked: by the repeated RESET (Tns-reset), the repeated test
\* (Tns-test, Tns-alive) and the UNBLOCK that follows every ALIVE ACK.  After the
\* last retry of a test the code starts no timer; it takes as many losses as both
\* sides make attempts until neither is left to wake the other.
Back == Usable("bss") /\ Usable("sgsn")
Dead == GivenUp("bss") /\ GivenUp("sgsn") /\ lost >= 2 * (AliveRetries + 1)
Recovers == <>[]Back \/ <>[]Dead

\* The SGSN keeps one NS-VC for the BSS over restarts, new ports and
\* repeated RESETs (gprs_ns_vc_create moves the NS-VC that has the NSVCI).
OneVc == \A s \in Sides : Len(nsi[s].vcs) <= 1
=============================================================================
