---------------------------- MODULE LapdService ----------------------------
(***************************************************************************)
(* What acknowledged operation of a data link promises to layer 3: the     *)
(* messages of each side reach the other side whole, in order and once,    *)
(* and none of those accepted since layer 3 last heard of an establishment *)
(* or a release is left out.                                               *)
(*                                                                         *)
(* Messages of a side are numbered in the order they are accepted.         *)
(***************************************************************************)
EXTENDS Integers, Sequences

CONSTANT Peers

VARIABLES
  accepted,   \* the number of messages each side accepted
  delivered,  \* the messages of each side that reached the other side
  excused     \* how many had been accepted at the last event of the link

vars == <<accepted, delivered, excused>>

Init ==
  /\ accepted = [p \in Peers |-> 0]
  /\ delivered = [p \in Peers |-> <<>>]
  /\ excused = [p \in Peers |-> 0]

Accept(p) ==
  /\ accepted' = [accepted EXCEPT ![p] = @ + 1]
  /\ UNCHANGED <<delivered, excused>>

\* The next message, or a later one when those between are excused.
Deliver(p) ==
  LET d    == delivered[p]
      last == IF d = <<>> THEN 0 ELSE d[Len(d)]
  IN \E m \in (last + 1)..accepted[p] :
       /\ \A n \in (last + 1)..(m - 1) : n <= excused[p]
       /\ delivered' = [delivered EXCEPT ![p] = Append(d, m)]
       /\ UNCHANGED <<accepted, excused>>

\* The link is established or released.
Event ==
  /\ excused' = accepted
  /\ UNCHANGED <<accepted, delivered>>

Next == Event \/ \E p \in Peers : Accept(p) \/ Deliver(p)

Spec == Init /\ [][Next]_vars
=============================================================================
