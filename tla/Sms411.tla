------------------------------- MODULE Sms411 -------------------------------
(***************************************************************************)
(* The short message service of GSM 04.11: the relay layer SMR             *)
(* (gsm0411_smr.c) on top of the connection layer SMC (gsm0411_smc.c), and *)
(* two stations over a link that loses messages. A station x is a record,  *)
(* and every handler is a function from stations to stations; the layers   *)
(* call each other within one step. What the station hands to the MM layer *)
(* below and to its user above in a step is kept in the record until the   *)
(* end of the step.                                                        *)
(***************************************************************************)
EXTENDS Integers, Sequences

CONSTANTS Destroy,    \* whether MMSMS-REL-REQ destroys the station, as it may
          MaxRetr     \* cp_max_retr

ASSUME Sms411Assumption == Destroy \in BOOLEAN /\ MaxRetr \in Nat

\* rp, rpt: state and timer of the SMR; cp, cpt, msg, retx, rel: state, timer,
\* stored message, retries and stored release of the SMC. Of the step: data, the
\* CP messages sent; asks, the requests to the MM layer; reps, the reports to the
\* user; inds, the messages the user was told of. never: something was met that
\* "should never happen"; late: something followed the request to release.
Fresh == [rp |-> "IDLE", rpt |-> FALSE, cp |-> "IDLE", cpt |-> FALSE, msg |-> <<>>, retx |-> 0, rel |-> FALSE,
          data |-> <<>>, asks |-> {}, reps |-> <<>>, inds |-> {}, never |-> FALSE, late |-> FALSE]

None == [t |-> "none", n |-> 0]

\* A step begins; a station is destroyed in the middle of one.
Begun(x) == [x EXCEPT !.data = <<>>, !.asks = {}, !.reps = <<>>, !.inds = {}]
Destroyed(x) == [Fresh EXCEPT !.data = x.data, !.asks = x.asks, !.reps = x.reps, !.inds = x.inds,
                              !.never = x.never, !.late = x.late]

Timely(x) == [x EXCEPT !.late = @ \/ "REL_REQ" \in x.asks]
rl_recv(x, type, m) == IF type = "REPORT_IND" THEN [Timely(x) EXCEPT !.reps = Append(@, m)]
                                              ELSE [Timely(x) EXCEPT !.inds = @ \cup {m}]
mm_send(x, type, m) ==
  CASE type = "DATA_REQ" -> [Timely(x) EXCEPT !.data = Append(@, m)]
    [] type = "EST_REQ"  -> [Timely(x) EXCEPT !.asks = @ \cup {type}]
    [] type = "REL_REQ"  -> [Timely(IF Destroy THEN Destroyed(x) ELSE x) EXCEPT !.asks = @ \cup {type}]

CpIdle(x) == [x EXCEPT !.cp = "IDLE"]
Dropped(x) == [x EXCEPT !.msg = <<>>]
Cp(type, m) == [type |-> type, rp |-> m]

-----------------------------------------------------------------------------
(* SMC: requests of the SMR.                                               *)

Store(x, m) == [x EXCEPT !.never = @ \/ x.msg # <<>>, !.msg = <<m>>]

gsm411_mnsms_est_req(x, m) ==
  mm_send([Store(x, m) EXCEPT !.cp = "MM_CONN_PENDING", !.rel = FALSE], "EST_REQ", Cp("none", None))

gsm411_mmsms_send_msg(x) ==
  mm_send([x EXCEPT !.retx = IF x.cp # "WAIT_CP_ACK" THEN 0 ELSE @, !.cp = "WAIT_CP_ACK", !.cpt = TRUE],
          "DATA_REQ", Cp("CP_DATA", x.msg[1]))

gsm411_mnsms_data_req(x, m) == gsm411_mmsms_send_msg(Store(x, m))

\* Faulty variant: a release is not stored.
RelReqNow(x) == IF x.cp # "MM_ESTABLISHED" THEN x ELSE mm_send(CpIdle(Dropped(x)), "REL_REQ", Cp("none", None))
gsm411_mnsms_rel_req(x) ==
  CASE x.cp = "IDLE" -> x
    [] x.cp \in {"MM_CONN_PENDING", "WAIT_CP_ACK"} -> [x EXCEPT !.rel = TRUE]
    [] OTHER -> mm_send(CpIdle(Dropped(x)), "REL_REQ", Cp("none", None))

gsm411_mnsms_abort_req(x) ==
  mm_send(mm_send(CpIdle(Dropped(x)), "DATA_REQ", Cp("CP_ERROR", None)), "REL_REQ", Cp("none", None))

\* What is not handled in the state is dropped.
gsm411_smc_send(x, type, m) ==
  CASE type = "EST_REQ" /\ x.cp = "IDLE" -> gsm411_mnsms_est_req(x, m)
    [] type = "REL_REQ" -> gsm411_mnsms_rel_req(x)
    [] type = "DATA_REQ" /\ x.cp = "MM_ESTABLISHED" -> gsm411_mnsms_data_req(x, m)
    [] type = "ABORT_REQ" /\ x.cp # "IDLE" -> gsm411_mnsms_abort_req(x)
    [] OTHER -> x

-----------------------------------------------------------------------------
(* SMR.                                                                    *)

new_rp_state(x, s) == [x EXCEPT !.rp = s, !.rpt = @ /\ s # "IDLE"]
gsm411_send_release(x) == gsm411_smc_send(x, "REL_REQ", None)
gsm411_send_rp_error(x, m) == gsm411_smc_send(x, "DATA_REQ", [t |-> "ERROR", n |-> m.n])

\* Faulty variant: the message is sent and nobody waits for the answer.
DataReqUntimed(x, m) == gsm411_smc_send([x EXCEPT !.rp = "WAIT_FOR_RP_ACK"], "EST_REQ", m)
gsm411_rl_data_req(x, m) == gsm411_smc_send([x EXCEPT !.rp = "WAIT_FOR_RP_ACK", !.rpt = TRUE], "EST_REQ", m)

gsm411_rl_report_req(x, m) == gsm411_send_release(gsm411_smc_send(new_rp_state(x, "IDLE"), "DATA_REQ", m))

gsm411_smr_send(x, type, m) ==
  CASE type = "DATA_REQ" /\ x.rp = "IDLE" -> gsm411_rl_data_req(x, m)
    [] type = "REPORT_REQ" /\ x.rp = "WAIT_TO_TX_RP_ACK" -> gsm411_rl_report_req(x, m)
    [] OTHER -> x

\* A message that makes no sense is answered with RP-ERROR.
Refuse(x, m) == new_rp_state(gsm411_send_rp_error(x, m), "IDLE")

gsm411_mnsms_est_ind(x, m) ==
  CASE m.t = "WRONG_WAY" -> gsm411_send_release(Refuse(x, m))
    [] m.t = "DATA" -> rl_recv([x EXCEPT !.rp = "WAIT_TO_TX_RP_ACK", !.rpt = TRUE], "DATA_IND", m)
    [] OTHER -> Refuse(x, m)

\* Faulty variant: the state is kept.
DataIndStays(x, m) == rl_recv(x, "REPORT_IND", m)
gsm411_mnsms_data_ind_tx(x, m) ==
  IF m.t \in {"ACK", "ERROR"} THEN gsm411_send_release(rl_recv(new_rp_state(x, "IDLE"), "REPORT_IND", m))
  ELSE gsm411_send_release(Refuse(x, m))

gsm411_mnsms_error_ind_tx(x, m) == gsm411_send_release(rl_recv(new_rp_state(x, "IDLE"), "REPORT_IND", m))
gsm411_mnsms_error_ind_rx(x, m) == rl_recv(new_rp_state(x, "IDLE"), "REPORT_IND", m)

gsm411_smr_recv(x, type, m) ==
  CASE type = "EST_IND" /\ x.rp = "IDLE" -> gsm411_mnsms_est_ind(x, m)
    [] type = "DATA_IND" /\ x.rp = "WAIT_FOR_RP_ACK" -> gsm411_mnsms_data_ind_tx(x, m)
    [] type = "ERROR_IND" /\ x.rp = "WAIT_FOR_RP_ACK" -> gsm411_mnsms_error_ind_tx(x, m)
    [] type = "ERROR_IND" /\ x.rp = "WAIT_TO_TX_RP_ACK" -> gsm411_mnsms_error_ind_rx(x, m)
    [] OTHER -> x

\* TR1* or TR2*: the user is told, the connection aborted; the state stays.
rp_timer_expired(x) ==
  gsm411_smc_send(rl_recv([x EXCEPT !.rpt = FALSE], "REPORT_IND", None), "ABORT_REQ", None)

-----------------------------------------------------------------------------
(* SMC: messages of the MM layer and its timer.                            *)

gsm411_mmsms_est_cnf(x) == IF x.msg = <<>> THEN [x EXCEPT !.never = TRUE] ELSE gsm411_mmsms_send_msg(x)

\* The SMR is told that the connection is no more, the connection is released.
Failed(x) == mm_send(Dropped(gsm411_smr_recv(x, "ERROR_IND", None)), "REL_REQ", Cp("none", None))

cp_timer_expired(y) == LET x == [y EXCEPT !.cpt = FALSE] IN
  IF x.retx = MaxRetr THEN Failed(CpIdle(x))
  ELSE gsm411_mmsms_est_cnf([x EXCEPT !.retx = @ + 1])

gsm411_mmsms_cp_ack(y) == LET x == [Dropped(y) EXCEPT !.cp = "MM_ESTABLISHED", !.cpt = FALSE] IN
  IF x.rel THEN mm_send(CpIdle(x), "REL_REQ", Cp("none", None)) ELSE x

gsm411_mmsms_cp_data(x, m) ==
  IF x.cp = "IDLE"
  THEN gsm411_smr_recv(mm_send([x EXCEPT !.cp = "MM_ESTABLISHED", !.rel = FALSE], "DATA_REQ", Cp("CP_ACK", None)), "EST_IND", m)
  ELSE gsm411_smr_recv(mm_send(x, "DATA_REQ", Cp("CP_ACK", None)), "DATA_IND", m)

gsm411_mmsms_cp_error(x) == Failed(CpIdle(Dropped(x)))
gsm411_mmsms_rel_ind(x) == gsm411_smr_recv(CpIdle(Dropped(x)), "ERROR_IND", None)

\* A message that does not fit the state ends the connection.
Unhandled(x) == mm_send(gsm411_smr_recv(mm_send(CpIdle(x), "DATA_REQ", Cp("CP_ERROR", None)), "ERROR_IND", None),
                        "REL_REQ", Cp("none", None))

\* type: EST_CNF, EST_IND, DATA_IND or REL_IND.
gsm411_smc_recv(x, type, m) ==
  CASE type = "EST_CNF" -> IF x.cp = "MM_CONN_PENDING" THEN gsm411_mmsms_est_cnf(x) ELSE x
    [] type = "EST_IND" /\ x.cp = "IDLE" -> gsm411_mmsms_cp_data(x, m.rp)
    [] type = "DATA_IND" /\ m.type = "CP_DATA" /\ x.cp = "MM_ESTABLISHED" -> gsm411_mmsms_cp_data(x, m.rp)
    [] type = "DATA_IND" /\ m.type = "CP_ACK" /\ x.cp = "WAIT_CP_ACK" -> gsm411_mmsms_cp_ack(x)
    [] type = "DATA_IND" /\ m.type = "CP_ERROR" -> gsm411_mmsms_cp_error(x)
    [] type = "REL_IND" -> IF x.cp # "IDLE" THEN gsm411_mmsms_rel_ind(x) ELSE x
    [] OTHER -> Unhandled(x)

-----------------------------------------------------------------------------
(***************************************************************************)
(* Two stations of the short message service over the connections of the   *)
(* MM layer.  Station 1 submits messages, station 2 answers them.  The MM  *)
(* layer may lose messages and lose the connection; timers run out at any  *)
(* time.  A released connection takes its messages with it.                *)
(***************************************************************************)

CONSTANTS MaxSubmit,   \* bound: messages submitted
          MaxLoss,     \* bound: messages and connections lost
          Strange      \* RP messages of another kind that station 1 may send instead

ASSUME Sms411LinkAssumption == /\ MaxSubmit \in Nat \ {0} /\ MaxLoss \in Nat
                               /\ Strange \subseteq {"WRONG_WAY", "OTHER"}

VARIABLES
  st,       \* the stations
  conn,     \* per station its MM connection: 0 none, negative being set up
  next,     \* number of the next connection
  ch,       \* messages to a station, of the connection k
  subm,     \* messages submitted
  ind,      \* messages of which the user of station 2 was told and which it has not answered
  taken,    \* messages the user of station 2 accepted
  reports,  \* reports to the user of station 1: <<submission, kind>>
  loss,     \* messages and connections lost
  early     \* whether a CP-DATA or CP-ACK was sent without a connection

vars == <<st, conn, next, ch, subm, ind, taken, reports, loss, early>>

Peer(s) == 3 - s

-----------------------------------------------------------------------------
(* The MM layer and the users take what a station did in a step.           *)

Sent(x, k) == [i \in DOMAIN x.data |-> [k |-> k, m |-> x.data[i]]]
CarriesData(x) == \E i \in DOMAIN x.data : x.data[i].type \in {"CP_DATA", "CP_ACK"}

\* Station s has become x in a step that began with its connection k and with
\* the messages q still to be received.
TakeOf(s, x, k, q) ==
  LET rel == "REL_REQ" \in x.asks
      up  == IF k > 0 THEN Sent(x, k) \o (IF rel THEN <<[k |-> k, m |-> Cp("REL", None)]>> ELSE <<>>) ELSE <<>>
  IN
  /\ st' = [st EXCEPT ![s] = Begun(x)]
  /\ conn' = [conn EXCEPT ![s] = IF "EST_REQ" \in x.asks THEN -next ELSE IF rel THEN 0 ELSE k]
  /\ next' = IF "EST_REQ" \in x.asks THEN next + 1 ELSE next
  /\ ch' = [ch EXCEPT ![s] = IF rel THEN <<>> ELSE q, ![Peer(s)] = @ \o up]
  /\ early' = (early \/ (k <= 0 /\ CarriesData(x)))
  /\ ind' = IF s = 1 THEN ind ELSE IF x.reps # <<>> THEN {} ELSE ind \cup {m.n : m \in x.inds}
  /\ reports' = IF s = 2 THEN reports ELSE reports \o [i \in DOMAIN x.reps |-> <<subm, x.reps[i]>>]

Take(s, y, k, q) == \E x \in {y} : TakeOf(s, x, k, q)

Init == /\ st = [s \in 1..2 |-> Fresh] /\ conn = [s \in 1..2 |-> 0] /\ next = 1 /\ ch = [s \in 1..2 |-> <<>>]
        /\ subm = 0 /\ ind = {} /\ taken = {} /\ reports = <<>> /\ loss = 0 /\ early = FALSE

\* The user submits the next message when it had a report of the one before.
Submit == \E t \in {"DATA"} \cup Strange :
  /\ subm < MaxSubmit /\ Len(reports) >= subm /\ subm' = subm + 1
  /\ st[1].rp = "IDLE" /\ st[1].cp = "IDLE" /\ conn[1] = 0
  /\ Take(1, gsm411_smr_send(st[1], "DATA_REQ", [t |-> t, n |-> subm + 1]), conn[1], ch[1])
  /\ UNCHANGED <<taken, loss>>

\* The user of station 2 answers.
Answer == \E n \in ind, t \in {"ACK", "ERROR"} :
  \E x \in {gsm411_smr_send(st[2], "REPORT_REQ", [t |-> t, n |-> n])} :
  /\ st' = [st EXCEPT ![2] = Begun(x)] /\ conn' = [conn EXCEPT ![2] = IF "REL_REQ" \in x.asks THEN 0 ELSE @]
  /\ ch' = [ch EXCEPT ![1] = @ \o (IF conn[2] > 0 THEN Sent(x, conn[2]) ELSE <<>>)]
  /\ ind' = ind \ {n} /\ taken' = IF t = "ACK" THEN taken \cup {n} ELSE taken
  /\ early' = (early \/ (conn[2] <= 0 /\ CarriesData(x)))
  /\ UNCHANGED <<next, subm, reports, loss>>

\* The MM connection is there.
EstCnf == /\ conn[1] < 0
          /\ Take(1, gsm411_smc_recv(st[1], "EST_CNF", Cp("none", None)), -conn[1], ch[1])
          /\ UNCHANGED <<subm, taken, loss>>

\* The next message for station s: of its connection, the first of a new one, or
\* of one that was released.
Deliver(s) ==
  /\ ch[s] # <<>> /\ LET e == Head(ch[s])  q == Tail(ch[s]) IN
     \/ /\ e.k = conn[s] /\ e.m.type # "REL" /\ Take(s, gsm411_smc_recv(st[s], "DATA_IND", e.m), e.k, q)
     \/ /\ e.k = conn[s] /\ e.m.type = "REL"
        /\ Take(s, (IF Destroy THEN Destroyed(gsm411_smc_recv(st[s], "REL_IND", e.m))
                    ELSE gsm411_smc_recv(st[s], "REL_IND", e.m)), 0, <<>>)
     \/ /\ s = 2 /\ e.k > conn[s] /\ e.m.type = "CP_DATA" /\ conn[s] = 0
        /\ Take(s, gsm411_smc_recv(st[s], "EST_IND", e.m), e.k, q)
     \/ /\ e.k # conn[s] /\ ~(s = 2 /\ e.m.type = "CP_DATA" /\ conn[s] = 0)
        /\ ch' = [ch EXCEPT ![s] = q] /\ UNCHANGED <<st, conn, next, ind, reports, early>>
  /\ UNCHANGED <<subm, taken, loss>>

CpTimer(s) == /\ st[s].cpt /\ Take(s, cp_timer_expired(st[s]), conn[s], ch[s]) /\ UNCHANGED <<subm, taken, loss>>
RpTimer(s) == /\ st[s].rpt /\ Take(s, rp_timer_expired(st[s]), conn[s], ch[s]) /\ UNCHANGED <<subm, taken, loss>>

\* A message is lost.
Lose(s) == /\ loss < MaxLoss /\ loss' = loss + 1 /\ ch[s] # <<>> /\ ch' = [ch EXCEPT ![s] = Tail(@)]
           /\ UNCHANGED <<st, conn, next, subm, ind, taken, reports, early>>
\* The connection is lost: both stations are told.
Drop == /\ loss < MaxLoss /\ loss' = loss + 1 /\ conn[1] > 0
        /\ ch' = [s \in 1..2 |-> <<[k |-> conn[1], m |-> Cp("REL", None)]>>]
        /\ UNCHANGED <<st, conn, next, subm, ind, taken, reports, early>>

Next == Submit \/ Answer \/ EstCnf \/ Drop \/ \E s \in 1..2 : Deliver(s) \/ CpTimer(s) \/ RpTimer(s) \/ Lose(s)
Spec == Init /\ [][Next]_vars
\* Timers run out, and messages are delivered.
FairSpec == Spec /\ \A s \in 1..2 : WF_vars(Deliver(s)) /\ WF_vars(RpTimer(s)) /\ WF_vars(CpTimer(s))

-----------------------------------------------------------------------------
TypeOK == /\ subm \in 0..MaxSubmit /\ taken \subseteq 1..MaxSubmit /\ loss \in 0..MaxLoss
          /\ \A s \in 1..2 : /\ st[s].retx \in 0..MaxRetr
                             /\ st[s].msg # <<>> => st[s].cp \in {"MM_CONN_PENDING", "WAIT_CP_ACK"}
                             /\ st[s].cp = "WAIT_CP_ACK" => st[s].cpt /\ st[s].msg # <<>>

\* The user is told of a message as acknowledged only when the other user accepted
\* that message.
Genuine == \A i \in DOMAIN reports : reports[i][2].t = "ACK" =>
              reports[i][1] = reports[i][2].n /\ reports[i][2].n \in taken

\* A message is reported once.
Once == \A i, j \in DOMAIN reports : i # j => reports[i][1] # reports[j][1]

\* "This should never happen, please fix!"
NeverHappens == \A s \in 1..2 : ~st[s].never
\* CP-DATA and CP-ACK are sent over a connection (CP-ERROR may find it not set up yet).
Connected == ~early

\* "sending this MUST be the last thing that is done": nothing follows the
\* request to release the connection.
LastThing == \A s \in 1..2 : ~st[s].late

\* An SMR without a transaction leaves no connection behind: it is released, or
\* will be when the message under way is acknowledged.
NoneLeft == \A s \in 1..2 : st[s].rp = "IDLE" /\ st[s].cp # "IDLE" => st[s].rel

\* The user is told of every message once, and as acknowledged only when the
\* other user accepted that message (rl_recv, gsm411_mnsms_data_ind_tx).
ReportsTrue == TypeOK /\ Genuine /\ Once

\* What "should never happen" does not, nothing is sent before the connection
\* is there or after the request to release it, and no connection is left
\* behind by an SMR without a transaction.  The last part is for peers that open a
\* connection with an RP message of a known kind: gsm411_mnsms_data_ind_est answers
\* another one with RP-ERROR, goes to IDLE and never asks for the release, so a
\* connection stays (Strange has no OTHER).
Orderly == NeverHappens /\ Connected /\ LastThing /\ NoneLeft

\* Every message is reported to the user that submitted it.
Reported == \A n \in 1..MaxSubmit : subm = n ~> Len(reports) >= n
\* In the end both stations have no connection.
Settled == <>[](\A s \in 1..2 : st[s].rp = "IDLE" /\ st[s].cp = "IDLE")

\* Every message is reported to the user that submitted it, and in the end both
\* stations have no connection, although messages are lost and timers race the
\* answers.
Finishes == Reported /\ Settled
=============================================================================
