------------------------------- MODULE Bssgp -------------------------------
(***************************************************************************)
(* BSSGP between a BSS (gprs_bssgp_bss.c) and an SGSN (gprs_bssgp.c) of    *)
(* one NSEI: reset, block and unblock of BVCs, the cell of a BVC, suspend  *)
(* and resume, data of mobiles.  The network service below loses PDUs.     *)
(* BssgpFc has the flow control.                                           *)
(***************************************************************************)
EXTENDS Integers, Sequences, SequencesExt, FiniteSets

CONSTANTS
  Bvcs,       \* BVCIs: those above 1 are cells
  Cells,      \* cell identities (RA ID and cell ID)
  NoCell,     \* the cell of a context that was never told one
  MaxOnWay    \* bound: PDUs on the way in one direction

SIGNALLING == 0
PTM == 1

Ptp == Bvcs \ {SIGNALLING, PTM}

ASSUME BssgpAssumption ==
  Bvcs \subseteq Nat /\ NoCell \notin Cells /\ MaxOnWay \in Nat \ {0}

VARIABLES
  cellof,   \* the BSS: the cell of each PTP BVC; a cell may move
  asked,    \* the BSS: what it asked of each BVC last, with the answer
  ctxs,     \* the SGSN: bssgp_bvc_ctxts, newest first
  up, down  \* PDUs on their way

bssgp_vars == <<cellof, asked, ctxs, up, down>>

\* A PDU: ns is the BVCI of the network service; bvci and cell are elements,
\* and -1 stands for a missing bvci.
BssgpPdu(t, ns, bvci, cell) == [t |-> t, ns |-> ns, bvci |-> bvci, cell |-> cell]
Requests == {"RESET", "BLOCK", "UNBLOCK"}
Ack(t) == CASE t = "RESET" -> "RESET_ACK" [] t = "BLOCK" -> "BLOCK_ACK"
            [] t = "UNBLOCK" -> "UNBLOCK_ACK" [] t = "SUSPEND" -> "SUSPEND_ACK"
            [] t = "RESUME" -> "RESUME_ACK" [] OTHER -> "NONE"
Acks == {Ack(r) : r \in Requests}
Procedure(p) == p.t \in Requests \cup Acks

-----------------------------------------------------------------------------
(* The BSS.                                                                *)

Send(p) == Len(up) < MaxOnWay /\ up' = Append(up, p) /\ UNCHANGED <<ctxs, down>>

\* The user of the BSS side runs one procedure of a BVC at a time and repeats it
\* when nothing is on its way any more.  This is an assumption about a program
\* outside the repository: gprs_bssgp_bss.c sends whatever it is asked to, and its
\* answers say nothing about which request they answer.
Free(b) == \A p \in Range(up) \cup Range(down) : ~(Procedure(p) /\ p.bvci = b)

Procedures(b, t, p) ==
  /\ Free(b) /\ Send(p)
  /\ asked' = [asked EXCEPT ![b] = [req |-> t, acked |-> FALSE]]
  /\ UNCHANGED cellof

\* A reset says the cell; nobody looks at that of the signalling BVC.
bssgp_tx_bvc_reset(b) ==
  /\ b \in Ptp => cellof[b] # NoCell
  /\ Procedures(b, "RESET",
                BssgpPdu("RESET", SIGNALLING, b, IF b \in Ptp THEN cellof[b] ELSE NoCell))
bssgp_tx_bvc_block(b) ==
  Procedures(b, "BLOCK", BssgpPdu("BLOCK", SIGNALLING, b, NoCell))
bssgp_tx_bvc_unblock(b) ==
  Procedures(b, "UNBLOCK", BssgpPdu("UNBLOCK", SIGNALLING, b, NoCell))

\* Data, and what the SGSN notes: on the BVC (UL-UNITDATA, FLOW-CONTROL,
\* RA-CAPABILITY, RADIO-STATUS) or about it (LLC-DISCARDED, FLUSH-LL-ACK).
Traffic(b) ==
  /\ Send(BssgpPdu("UL_UNITDATA", b, -1, NoCell)) \/ Send(BssgpPdu("LLC_DISCARD", SIGNALLING, b, NoCell))
  /\ UNCHANGED <<cellof, asked>>

SuspendResume(t) ==
  /\ Send(BssgpPdu(t, SIGNALLING, -1, NoCell))
  /\ UNCHANGED <<cellof, asked>>

\* The operator gives a cell another BVC.
Reassign(b, c) ==
  /\ up = <<>> /\ down = <<>> /\ cellof[b] # c
  /\ cellof' = [x \in Ptp |-> IF x = b THEN c ELSE IF cellof[x] = c THEN NoCell ELSE cellof[x]]
  /\ UNCHANGED <<asked, ctxs, up, down>>

BssReceive ==
  /\ down # <<>> /\ down' = Tail(down)
  /\ LET p  == Head(down)
         fits == p.t \in Acks /\ p.t = Ack(asked[p.bvci].req)
     IN asked' = IF fits THEN [asked EXCEPT ![p.bvci].acked = TRUE] ELSE asked
  /\ UNCHANGED <<cellof, ctxs, up>>

-----------------------------------------------------------------------------
(* The SGSN.  A handler maps the contexts and the PDU to the contexts and  *)
(* the answers.                                                            *)

First(Fits(_)) ==
  LET fit == {i \in DOMAIN ctxs : Fits(ctxs[i])}
  IN IF fit = {} THEN 0 ELSE CHOOSE i \in fit : \A j \in fit : i <= j
btsctx_by_bvci_nsei(b) == First(LAMBDA x : x.bvci = b)

btsctx_alloc(b) == [bvci |-> b, cell |-> NoCell, blocked |-> FALSE]
Status == BssgpPdu("STATUS", SIGNALLING, -1, NoCell)

bssgp_rx_bvc_reset(p) ==
  LET i == btsctx_by_bvci_nsei(p.bvci)
      x == [IF i = 0 THEN btsctx_alloc(p.bvci) ELSE ctxs[i]
              EXCEPT !.blocked = FALSE,
                     !.cell = IF p.bvci \in {SIGNALLING, PTM} \/ p.cell = NoCell THEN @ ELSE p.cell]
      complete == p.bvci \in {SIGNALLING, PTM} \/ p.cell # NoCell
  IN /\ ctxs' = IF i = 0 THEN <<x>> \o ctxs ELSE [ctxs EXCEPT ![i] = x]
     /\ down' = IF complete THEN Append(down, BssgpPdu("RESET_ACK", p.ns, p.bvci, NoCell)) ELSE down

\* Faulty variant of SetBlocked: acknowledged, but not done.
SetBlockedNot(p, i, blocked, ack) ==
  /\ ctxs' = ctxs /\ down' = Append(down, BssgpPdu(ack, p.ns, p.bvci, NoCell))

SetBlocked(p, i, blocked, ack) ==
  /\ ctxs' = [ctxs EXCEPT ![i].blocked = blocked]
  /\ down' = Append(down, BssgpPdu(ack, p.ns, p.bvci, NoCell))

Reply(p) == ctxs' = ctxs /\ down' = Append(down, p)
Nothing == UNCHANGED <<ctxs, down>>

\* The signalling BVC is never blocked.
BlockUnblock(p) ==
  LET i == btsctx_by_bvci_nsei(p.bvci)
  IN IF p.bvci = SIGNALLING THEN Nothing
     ELSE IF i = 0 THEN Reply(Status)
     ELSE IF p.t = "BLOCK" THEN SetBlocked(p, i, TRUE, "BLOCK_ACK")
     ELSE SetBlocked(p, i, FALSE, "UNBLOCK_ACK")

\* GMM accepts or refuses; bssgp_tx_resume_nack sends the PDU type of a
\* SUSPEND NACK.
RxGmm(p) ==
  \/ Reply(BssgpPdu(Ack(p.t), SIGNALLING, -1, NoCell))
  \/ Reply(BssgpPdu("SUSPEND_NACK", SIGNALLING, -1, NoCell))

bssgp_rx_sign(p) ==
  CASE p.t \in {"SUSPEND", "RESUME"} -> RxGmm(p)
    [] p.t = "RESET" -> bssgp_rx_bvc_reset(p)
    [] p.t \in {"BLOCK", "UNBLOCK"} -> BlockUnblock(p)
    [] p.t = "LLC_DISCARD" -> Nothing

bssgp_rx_ptp(p, i) == IF ctxs[i].blocked THEN Reply(Status) ELSE Nothing

\* Only RESET makes a context.
bssgp_rcvmsg(p) ==
  LET b == IF p.ns = SIGNALLING /\ p.bvci # -1 THEN p.bvci ELSE p.ns
      i == btsctx_by_bvci_nsei(b)
  IN IF i = 0 /\ b # SIGNALLING /\ p.t # "RESET" THEN Reply(Status)
     ELSE IF p.ns = SIGNALLING THEN bssgp_rx_sign(p)
     ELSE IF p.ns = PTM THEN Reply(Status)       \* point to multipoint is not supported
     ELSE bssgp_rx_ptp(p, i)

SgsnReceive ==
  /\ up # <<>> /\ Len(down) < MaxOnWay
  /\ bssgp_rcvmsg(Head(up))
  /\ up' = Tail(up) /\ UNCHANGED <<cellof, asked>>

-----------------------------------------------------------------------------

Lose ==
  \/ up # <<>> /\ up' = Tail(up) /\ UNCHANGED <<cellof, asked, ctxs, down>>
  \/ down # <<>> /\ down' = Tail(down) /\ UNCHANGED <<cellof, asked, ctxs, up>>

BssgpInit ==
  /\ cellof = [b \in Ptp |-> NoCell] /\ ctxs = <<>> /\ up = <<>> /\ down = <<>>
  /\ asked = [b \in Bvcs |-> [req |-> "NONE", acked |-> FALSE]]

BssgpNext ==
  \/ \E b \in Bvcs : bssgp_tx_bvc_reset(b) \/ bssgp_tx_bvc_block(b) \/ bssgp_tx_bvc_unblock(b)
  \/ \E b \in Bvcs \ {SIGNALLING} : Traffic(b)
  \/ \E b \in Ptp, c \in Cells : Reassign(b, c)
  \/ \E t \in {"SUSPEND", "RESUME"} : SuspendResume(t)
  \/ BssReceive \/ SgsnReceive \/ Lose

BssgpSpec == BssgpInit /\ [][BssgpNext]_bssgp_vars

-----------------------------------------------------------------------------
(* Properties.                                                             *)

\* Type correctness: a BVC has one context at the SGSN, however often and in
\* whatever order BVCs are reset.
OneContext ==
  /\ \A i, j \in DOMAIN ctxs : ctxs[i].bvci = ctxs[j].bvci => i = j
  /\ \A i \in DOMAIN ctxs : ctxs[i].bvci \in Bvcs /\ ctxs[i].cell \in Cells \cup {NoCell}

\* Once a procedure is acknowledged both sides hold the same BVC blocked, until
\* the BSS starts another one: over losses and repetitions.
SameState ==
  \A b \in Bvcs \ {SIGNALLING} : asked[b].acked =>
     LET i == btsctx_by_bvci_nsei(b) IN i # 0 /\ ctxs[i].blocked = (asked[b].req = "BLOCK")

\* A BVC has one context at the SGSN, and once a procedure is acknowledged both
\* sides hold the same BVC blocked, until the BSS starts another one: over losses
\* and repetitions (bssgp_rx_bvc_reset, bssgp_rx_bvc_block, bssgp_rx_bvc_unblock),
\* for a BSS whose user has one procedure of a BVC on its way at a time (Free).
BvcAgreed == OneContext /\ SameState
=============================================================================
