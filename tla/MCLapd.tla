------------------------------- MODULE MCLapd -------------------------------
(***************************************************************************)
(* The data link layer of libosmocore, part by part: two LAPD entities on  *)
(* a link that loses frames (LapdLink), with small windows, with any       *)
(* primitive at any time and with timers that expire, and the queues of an *)
(* LAPDm entity (LapdmEntity).                                             *)
(***************************************************************************)
EXTENDS LapdmEntity

VARIABLES
  part,                                       \* the part that runs; the entity
                                              \* rests in its initial state, the
                                              \* variables of LapdLink are 0
  links, ch, requests, lost, acc, got, excused  \* LapdLink, its dl and its calls

linkVars == <<links, ch, requests, lost, acc, got, excused>>
vars == <<part, entity_vars, linkVars>>

Peers == {"user", "network"}
AnyFrame == {"SABM", "UA", "DM", "DISC", "UI", "I", "RR", "RNR", "REJ"}
NumberedFrame == {"I", "RR", "REJ"}
AnyRequest == {"EST", "REL", "SUSP", "RES", "RECON", "LOCAL_REL"}

\* What an LAPDm entity gets from layer 1 and layer 3, with numbers modulo 2.
Seg(n) == [n |-> n]
Fr(t, cmd, pf, ns, nr) == [t |-> t, cmd |-> cmd, pf |-> pf, p |-> IF t = "I" THEN <<Seg(9)>> ELSE <<>>,
                           ns |-> ns, nr |-> nr, more |-> FALSE, chan |-> Null, ta |-> Null]
Unnumbered == {Fr("SABM", TRUE, TRUE, 0, 0), Fr("UA", FALSE, TRUE, 0, 0),
               Fr("DM", FALSE, TRUE, 0, 0), Fr("DISC", TRUE, TRUE, 0, 0)}
Numbers == {Fr("I", TRUE, FALSE, ns, nr) : ns \in {0, 1}, nr \in {0, 1}}
Polls == {Fr("RR", TRUE, TRUE, 0, nr) : nr \in {0, 1}}
SomeFrames == Unnumbered \cup Numbers
ShortSegments == {Seg(8)}
BadLengths ==
  {[Fr("I", TRUE, FALSE, 0, 0) EXCEPT !.p = <<Seg(8)>>, !.more = TRUE],
   [Fr("I", TRUE, FALSE, 0, 0) EXCEPT !.p = <<Seg(9), Seg(9)>>],
   [Fr("SABM", TRUE, TRUE, 0, 0) EXCEPT !.p = <<Seg(9), Seg(9)>>],
   [Fr("UA", FALSE, TRUE, 0, 0) EXCEPT !.p = <<Seg(9), Seg(9)>>]}
AllFrames == SomeFrames \cup Polls \cup BadLengths
SomeMsgs == {<<>>, <<Seg(1), Seg(2)>>}
AllMsgs == {<<>>, <<Seg(1)>>, <<Seg(1), Seg(2)>>}
RslMessages == {"UNIT_DATA_REQ", "EST_REQ", "DATA_REQ", "SUSP_REQ", "RES_REQ", "RECON_REQ", "REL_REQ",
                "LOCAL_REL_REQ"}

-----------------------------------------------------------------------------
(* The parts.                                                              *)

Link == INSTANCE LapdLink WITH
  dl <- links, calls <- requests, Requests <- {"EST", "REL"}, Sizes <- <<1, 1>>,
  MaxCalls <- 2, Losable <- AnyFrame, MaxLost <- 2, Patient <- TRUE, MaxCh <- 3
Wide == INSTANCE LapdLink WITH
  dl <- links, calls <- requests, VRange <- 4, K <- 2, Requests <- {"EST"}, Sizes <- <<2, 1>>,
  MaxCalls <- 2, Losable <- NumberedFrame, MaxLost <- 2, Patient <- TRUE, MaxCh <- 4
Free == INSTANCE LapdLink WITH
  dl <- links, calls <- requests, Reestablish <- TRUE, Requests <- AnyRequest, Sizes <- <<1>>,
  MaxCalls <- 2, Losable <- AnyFrame, MaxLost <- 0, Patient <- FALSE, MaxCh <- 1
Answers == INSTANCE LapdLink WITH
  dl <- links, calls <- requests, VRange <- 4, UseT203 <- TRUE, Requests <- {"EST", "REL"},
  Sizes <- <<1>>, MaxCalls <- 2, Losable <- AnyFrame, MaxLost <- 2, Patient <- TRUE, MaxCh <- 3
Unpolled == INSTANCE LapdmEntity WITH
  Polling <- FALSE, Frames <- AllFrames, Messages <- AllMsgs, MaxCalls <- 3
Turns == INSTANCE LapdmEntity WITH
  Active <- {0, 3}, Frames <- Polls, Messages <- {<<Seg(1)>>}

ASSUME PartsAssumption ==
  /\ Link!LinkAssumption /\ Link!LapdAssumption /\ Wide!LinkAssumption
  /\ Wide!LapdAssumption /\ Free!LinkAssumption /\ Free!LapdAssumption
  /\ Answers!LinkAssumption /\ Answers!LapdAssumption
  /\ Unpolled!EntityAssumption /\ Turns!EntityAssumption

NoLink == links = 0 /\ ch = 0 /\ requests = 0 /\ lost = 0 /\ acc = 0 /\ got = 0 /\ excused = 0

Init ==
  \/ part = "link" /\ Link!Init /\ lapdm_entity_init
  \/ part = "window" /\ Wide!Init /\ lapdm_entity_init
  \/ part = "any" /\ Free!Init /\ lapdm_entity_init
  \/ part = "answers" /\ Answers!Init /\ lapdm_entity_init
  \/ part = "queues" /\ NoLink /\ lapdm_entity_init
  \/ part = "direct" /\ NoLink /\ Unpolled!lapdm_entity_init
  \/ part = "turns" /\ NoLink /\ Turns!lapdm_entity_init

KeepLink   == UNCHANGED <<part, entity_vars>>
KeepEntity == UNCHANGED <<part, linkVars>>

LinkNext ==
  \/ \E p \in Peers : part = "link" /\ Link!Receive(p) /\ KeepLink
  \/ \E p \in Peers : part = "link" /\ Link!Lose(p) /\ KeepLink
  \/ \E p \in Peers : part = "link" /\ Link!T200(p) /\ KeepLink
  \/ \E p \in Peers : part = "link" /\ Link!Data(p) /\ KeepLink
  \/ \E p \in Peers, r \in {"EST", "REL"} : part = "link" /\ Link!Call(p, r) /\ KeepLink
WideNext ==
  \/ \E p \in Peers : part = "window" /\ Wide!Receive(p) /\ KeepLink
  \/ \E p \in Peers : part = "window" /\ Wide!Lose(p) /\ KeepLink
  \/ \E p \in Peers : part = "window" /\ Wide!T200(p) /\ KeepLink
  \/ \E p \in Peers : part = "window" /\ Wide!Data(p) /\ KeepLink
  \/ \E p \in Peers, r \in {"EST"} : part = "window" /\ Wide!Call(p, r) /\ KeepLink
FreeNext ==
  \/ \E p \in Peers : part = "any" /\ Free!Receive(p) /\ KeepLink
  \/ \E p \in Peers : part = "any" /\ Free!T200(p) /\ KeepLink
  \/ \E p \in Peers : part = "any" /\ Free!Data(p) /\ KeepLink
  \/ \E p \in Peers, r \in AnyRequest : part = "any" /\ Free!Call(p, r) /\ KeepLink
AnswersNext ==
  \/ \E p \in Peers : part = "answers" /\ Answers!Receive(p) /\ KeepLink
  \/ \E p \in Peers : part = "answers" /\ Answers!Lose(p) /\ KeepLink
  \/ \E p \in Peers : part = "answers" /\ Answers!T200(p) /\ KeepLink
  \/ \E p \in Peers : part = "answers" /\ Answers!T203(p) /\ KeepLink
  \/ \E p \in Peers : part = "answers" /\ Answers!Data(p) /\ KeepLink
  \/ \E p \in Peers, r \in {"EST", "REL"} :
       part = "answers" /\ Answers!Call(p, r) /\ KeepLink
QueuesNext ==
  \/ part = "queues" /\ PhReady /\ KeepEntity
  \/ part = "queues" /\ PhDataBad /\ KeepEntity
  \/ part = "queues" /\ PhCommon /\ KeepEntity
  \/ part = "queues" /\ Reset /\ KeepEntity
  \/ \E s \in Active : part = "queues" /\ T200(s) /\ KeepEntity
  \/ \E s \in Active, f \in Frames :
       part = "queues" /\ PhData(s, f, 1) /\ KeepEntity
  \/ \E s \in Active, t \in Msgs, m \in Messages :
       part = "queues" /\ rslms_rx_rll(s, t, 1, m) /\ KeepEntity
UnpolledNext ==
  \/ part = "direct" /\ Unpolled!PhReady /\ KeepEntity
  \/ part = "direct" /\ Unpolled!PhDataBad /\ KeepEntity
  \/ part = "direct" /\ Unpolled!PhCommon /\ KeepEntity
  \/ part = "direct" /\ Unpolled!Reset /\ KeepEntity
  \/ \E s \in {0} : part = "direct" /\ Unpolled!T200(s) /\ KeepEntity
  \/ \E s \in {0}, f \in AllFrames : part = "direct" /\ Unpolled!PhData(s, f, 1) /\ KeepEntity
  \/ \E s \in {0}, t \in RslMessages, m \in AllMsgs :
       part = "direct" /\ Unpolled!rslms_rx_rll(s, t, 1, m) /\ KeepEntity
TurnsNext ==
  \/ part = "turns" /\ Turns!PhReady /\ KeepEntity
  \/ part = "turns" /\ Turns!PhDataBad /\ KeepEntity
  \/ part = "turns" /\ Turns!PhCommon /\ KeepEntity
  \/ part = "turns" /\ Turns!Reset /\ KeepEntity
  \/ \E s \in {0, 3} : part = "turns" /\ Turns!T200(s) /\ KeepEntity
  \/ \E s \in {0, 3}, f \in Polls : part = "turns" /\ Turns!PhData(s, f, 1) /\ KeepEntity
  \/ \E s \in {0, 3}, t \in RslMessages, m \in {<<Seg(1)>>} :
       part = "turns" /\ Turns!rslms_rx_rll(s, t, 1, m) /\ KeepEntity

Next == LinkNext \/ WideNext \/ FreeNext \/ AnswersNext \/ QueuesNext \/ UnpolledNext \/
        TurnsNext

Spec == Init /\ [][Next]_vars

\* Frames arrive or are lost, timers that run expire, and layer 1 asks for a
\* frame again and again: weak fairness of Receive, T200 and PhReady, written
\* out for the first two.
Fairness ==
  /\ \A p \in Peers :
       /\ \/ []<>(part # "answers" \/ ch[Answers!Other(p)] = <<>>)
          \/ []<><<part = "answers" /\ Answers!Receive(p)>>_vars
       /\ \/ []<>(part # "answers" \/ ~links[p].t200 \/ ~Answers!Late(p))
          \/ []<><<part = "answers" /\ Answers!T200(p)>>_vars
  /\ WF_vars(part = "turns" /\ Turns!PhReady /\ KeepEntity)
FairSpec == Spec /\ Fairness

-----------------------------------------------------------------------------
(* Properties; LapdmEntity has CommandKept, HasContext and Acknowledged.   *)

Promised == {"link", "window", "answers"}
Service == INSTANCE LapdService WITH
  accepted <- acc, delivered <- got, excused <- excused

\* Of two entities: no more than K frames are outstanding, all of them in the
\* history from which REJ may ask for them again (lapd_send_i), and T200 runs
\* while there are any (lapd_acknowledge): no frame is left that nobody asks for.
\* A command that waits is kept, whatever primitives and frames cross.
LinksKept ==
  /\ part = "window" => Wide!TypeOK /\ Wide!WindowKept /\ Wide!Supervised
  /\ part = "link"   => Link!TypeOK /\ Link!WindowKept /\ Link!Supervised
  /\ part = "any"    => Free!CommandKept
  /\ part \in {"queues", "turns"} => EntityTypeOK
  /\ part = "direct" => Unpolled!EntityTypeOK

\* The two entities implement LapdService: with the sequence numbers of
\* lapd_rx_i, the retransmission by REJ and by T200, and the segments of
\* lapd_send_i, every message arrives whole, once and in order, and none is
\* left out between two events of the link; what may be asked for again is kept
\* (LinksKept).
Implements ==
  /\ part \in Promised => Service!Init
  /\ [][(part \in Promised) => Service!Next]_<<acc, got, excused>>
  /\ []LinksKept

\* An establishment is answered, or given up after N200Est repetitions
\* (lapd_t200_cb), and no data link starves: tx_dequeue_msgb takes turns whatever
\* the other one has to send.  Without LAPDM_ENT_F_POLLING_ONLY no frame waits in
\* a queue that nobody would empty (tx_ph_data_enqueue).
Progress ==
  /\ \A p \in Peers :
       (part = "answers" /\ Answers!Establishing(p)) ~> ~(part = "answers" /\ Answers!Establishing(p))
  /\ \A s \in {0, 3} : (part = "turns" /\ Waits(s)) ~> ~(part = "turns" /\ Waits(s))
  /\ [](part = "direct" => Unpolled!Direct)
=============================================================================
