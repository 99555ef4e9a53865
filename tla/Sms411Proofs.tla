---------------------------- MODULE Sms411Proofs ----------------------------
(***************************************************************************)
(* The short message service: reports are true and come once, and the two  *)
(* layers keep the order of the connection, for any number of messages,    *)
(* losses and retries.                                                     *)
(***************************************************************************)
EXTENDS Sms411, TLAPS

\* A station in the middle of a step, of which nothing is amiss.
Sta(rp, rpt, cp, cpt, msg, retx, rel, data, asks, reps, inds) ==
  [rp |-> rp, rpt |-> rpt, cp |-> cp, cpt |-> cpt, msg |-> msg, retx |-> retx, rel |-> rel,
   data |-> data, asks |-> asks, reps |-> reps, inds |-> inds, never |-> FALSE, late |-> FALSE]

Yes == TRUE
No == FALSE

\* A station whose timers run just when it waits for an answer, at the end of a
\* step and between two steps.
Now(rp, cp, msg, retx, rel, data, asks, inds) ==
  Sta(rp, IF rp = "IDLE" THEN No ELSE Yes, cp, IF cp = "WAIT_CP_ACK" THEN Yes ELSE No, msg, retx, rel,
      data, asks, <<>>, inds)
At(rp, cp, msg, retx, rel) == Now(rp, cp, msg, retx, rel, <<>>, {}, {})

\* A station whose transaction has ended in this step.
Ended(data, asks, reps, inds) ==
  Sta("IDLE", No, "IDLE", No, <<>>, 0, No, data, asks, reps, inds)

-----------------------------------------------------------------------------
(* The invariant.  The message n is the one of the connection n.           *)

Sub(n) == [t : {"DATA"} \cup Strange, n : {n}]
Ans(n) == [t : {"ACK", "ERROR"}, n : {n}]

\* Station 1, as x, with the connection c, after n reports of the b messages: it has
\* a transaction just when the last message is not reported yet.
OneIs(x, c, n, b) ==
  \/ x = At("IDLE", "IDLE", <<>>, 0, No) /\ c = 0 /\ n = b
  \/ /\ b > 0 /\ n = b - 1
     /\ \/ /\ c = -b
           /\ \E m \in Sub(b) : x = At("WAIT_FOR_RP_ACK", "MM_CONN_PENDING", <<m>>, 0, No)
        \/ /\ c = b
           /\ \E m \in Sub(b), r \in 0..MaxRetr : x = At("WAIT_FOR_RP_ACK", "WAIT_CP_ACK", <<m>>, r, No)
        \/ /\ c = b
           /\ \E r \in 0..MaxRetr : x = At("WAIT_FOR_RP_ACK", "MM_ESTABLISHED", <<>>, r, No)

\* Station 2, as x, with the connection c: it waits for its user to answer the
\* message of the connection (i), or for the acknowledgement of the answer. After a
\* message of another kind the connection is not released.
TwoIs(x, c, i, b, tk) ==
  \/ x = At("IDLE", "IDLE", <<>>, 0, No) /\ c = 0 /\ i = {}
  \/ /\ c \in 1..b
     /\ \/ x = At("WAIT_TO_TX_RP_ACK", "MM_ESTABLISHED", <<>>, 0, No) /\ i = {c}
        \/ /\ i = {}
           /\ \E m \in Ans(c), r \in 0..MaxRetr, rel \in {No, Yes} :
                /\ x = At("IDLE", "WAIT_CP_ACK", <<m>>, r, rel)
                /\ rel = Yes \/ "OTHER" \in Strange
                /\ m.t = "ACK" => c \in tk
        \/ /\ i = {} /\ "OTHER" \in Strange
           /\ \E r \in 0..MaxRetr : x = At("IDLE", "MM_ESTABLISHED", <<>>, r, No)

\* What is on its way to a station.
CpTypes == {"CP_DATA", "CP_ACK", "CP_ERROR", "REL"}
WayToOne(n, tk) ==
  {e \in [k : 1..n, m : [type : CpTypes, rp : {None} \cup UNION {Ans(i) : i \in 1..n}]] :
     e.m.type = "CP_DATA" => e.m.rp \in Ans(e.k) /\ (e.m.rp.t = "ACK" => e.k \in tk)}
WayToTwo(n) ==
  {e \in [k : 1..n, m : [type : CpTypes, rp : {None} \cup UNION {Sub(i) : i \in 1..n}]] :
     e.m.type = "CP_DATA" => e.m.rp \in Sub(e.k)}

Reports == Nat \X [t : {"ACK", "ERROR", "none"}, n : Nat]
\* The i-th report is of the i-th message.
Told(q, tk) ==
  \A i \in DOMAIN q : q[i][1] = i /\ (q[i][2].t = "ACK" => q[i][2].n = i /\ i \in tk)

Framed ==
  /\ DOMAIN st = 1..2 /\ DOMAIN conn = 1..2 /\ DOMAIN ch = 1..2
  /\ subm \in 0..MaxSubmit /\ next = subm + 1 /\ loss \in 0..MaxLoss /\ early = FALSE
  /\ taken \subseteq 1..subm

IInv ==
  /\ Framed /\ OneIs(st[1], conn[1], Len(reports), subm) /\ TwoIs(st[2], conn[2], ind, subm, taken)
  /\ ch[1] \in Seq(WayToOne(subm, taken)) /\ ch[2] \in Seq(WayToTwo(subm))
  /\ reports \in Seq(Reports) /\ Told(reports, taken)

-----------------------------------------------------------------------------
(* The operators on a station.                                             *)

\* The fields of a station in the middle of a step.
LEMMA Fields ==
  ASSUME NEW rp, NEW rpt, NEW cp, NEW cpt, NEW msg, NEW retx, NEW rel, NEW data, NEW asks, NEW reps, NEW inds
  PROVE  LET x == Sta(rp, rpt, cp, cpt, msg, retx, rel, data, asks, reps, inds) IN
         /\ x.rp = rp /\ x.rpt = rpt /\ x.cp = cp /\ x.cpt = cpt /\ x.msg = msg /\ x.retx = retx /\ x.rel = rel
         /\ x.data = data /\ x.asks = asks /\ x.reps = reps /\ x.inds = inds /\ x.never = FALSE /\ x.late = FALSE
  BY DEF Sta

\* The SMC returns to idle.
LEMMA CpIdleSta ==
  ASSUME NEW rp, NEW rpt, NEW cp, NEW cpt, NEW msg, NEW retx, NEW rel, NEW data, NEW asks, NEW reps, NEW inds
  PROVE  CpIdle(Sta(rp, rpt, cp, cpt, msg, retx, rel, data, asks, reps, inds)) =
           Sta(rp, rpt, "IDLE", cpt, msg, retx, rel, data, asks, reps, inds)
  <1> SUFFICES ASSUME NEW x, x = Sta(rp, rpt, cp, cpt, msg, retx, rel, data, asks, reps, inds),
                      NEW y, y = CpIdle(x)
               PROVE  y = Sta(rp, rpt, "IDLE", cpt, msg, retx, rel, data, asks, reps, inds)
    OBVIOUS
  <1> QED BY DEF CpIdle, Sta

\* The stored message is freed.
LEMMA DroppedSta ==
  ASSUME NEW rp, NEW rpt, NEW cp, NEW cpt, NEW msg, NEW retx, NEW rel, NEW data, NEW asks, NEW reps, NEW inds
  PROVE  Dropped(Sta(rp, rpt, cp, cpt, msg, retx, rel, data, asks, reps, inds)) =
           Sta(rp, rpt, cp, cpt, <<>>, retx, rel, data, asks, reps, inds)
  <1> SUFFICES ASSUME NEW x, x = Sta(rp, rpt, cp, cpt, msg, retx, rel, data, asks, reps, inds),
                      NEW y, y = Dropped(x)
               PROVE  y = Sta(rp, rpt, cp, cpt, <<>>, retx, rel, data, asks, reps, inds)
    OBVIOUS
  <1> QED BY DEF Dropped, Sta

\* The SMR returns to idle and its timer is stopped.
LEMMA RpIdleSta ==
  ASSUME NEW rp, NEW rpt, NEW cp, NEW cpt, NEW msg, NEW retx, NEW rel, NEW data, NEW asks, NEW reps, NEW inds
  PROVE  new_rp_state(Sta(rp, rpt, cp, cpt, msg, retx, rel, data, asks, reps, inds), "IDLE") =
           Sta("IDLE", No, cp, cpt, msg, retx, rel, data, asks, reps, inds)
  <1> SUFFICES ASSUME NEW x, x = Sta(rp, rpt, cp, cpt, msg, retx, rel, data, asks, reps, inds),
                      NEW y, y = new_rp_state(x, "IDLE")
               PROVE  y = Sta("IDLE", No, cp, cpt, msg, retx, rel, data, asks, reps, inds)
    OBVIOUS
  <1> QED BY DEF new_rp_state, Sta, No

\* A step is over.
LEMMA BegunSta ==
  ASSUME NEW rp, NEW rpt, NEW cp, NEW cpt, NEW msg, NEW retx, NEW rel, NEW data, NEW asks, NEW reps, NEW inds
  PROVE  Begun(Sta(rp, rpt, cp, cpt, msg, retx, rel, data, asks, reps, inds)) =
           Sta(rp, rpt, cp, cpt, msg, retx, rel, <<>>, {}, <<>>, {})
  <1> SUFFICES ASSUME NEW x, x = Sta(rp, rpt, cp, cpt, msg, retx, rel, data, asks, reps, inds),
                      NEW y, y = Begun(x)
               PROVE  y = Sta(rp, rpt, cp, cpt, msg, retx, rel, <<>>, {}, <<>>, {})
    OBVIOUS
  <1> QED BY DEF Begun, Sta

\* A station is destroyed.
LEMMA DestroyedSta ==
  ASSUME NEW rp, NEW rpt, NEW cp, NEW cpt, NEW msg, NEW retx, NEW rel, NEW data, NEW asks, NEW reps, NEW inds
  PROVE  Destroyed(Sta(rp, rpt, cp, cpt, msg, retx, rel, data, asks, reps, inds)) =
           Ended(data, asks, reps, inds)
  <1> SUFFICES ASSUME NEW x, x = Sta(rp, rpt, cp, cpt, msg, retx, rel, data, asks, reps, inds),
                      NEW y, y = Destroyed(x)
               PROVE  y = Ended(data, asks, reps, inds)
    OBVIOUS
  <1> QED BY DEF Destroyed, Fresh, Ended, Sta, No

\* A CP message is sent.
LEMMA SendsData ==
  ASSUME NEW rp, NEW rpt, NEW cp, NEW cpt, NEW msg, NEW retx, NEW rel, NEW data, NEW asks, NEW reps, NEW inds,
         NEW m,
         "REL_REQ" \notin asks
  PROVE  mm_send(Sta(rp, rpt, cp, cpt, msg, retx, rel, data, asks, reps, inds), "DATA_REQ", m) =
           Sta(rp, rpt, cp, cpt, msg, retx, rel, Append(data, m), asks, reps, inds)
  <1> SUFFICES ASSUME NEW x, x = Sta(rp, rpt, cp, cpt, msg, retx, rel, data, asks, reps, inds),
                      NEW y, y = mm_send(x, "DATA_REQ", m)
               PROVE  y = Sta(rp, rpt, cp, cpt, msg, retx, rel, Append(data, m), asks, reps, inds)
    OBVIOUS
  <1> QED BY DEF mm_send, Timely, Sta

\* A connection is asked for.
LEMMA SendsEst ==
  ASSUME NEW rp, NEW rpt, NEW cp, NEW cpt, NEW msg, NEW retx, NEW rel, NEW data, NEW asks, NEW reps, NEW inds,
         NEW m,
         "REL_REQ" \notin asks
  PROVE  mm_send(Sta(rp, rpt, cp, cpt, msg, retx, rel, data, asks, reps, inds), "EST_REQ", m) =
           Sta(rp, rpt, cp, cpt, msg, retx, rel, data, asks \cup {"EST_REQ"}, reps, inds)
  <1> SUFFICES ASSUME NEW x, x = Sta(rp, rpt, cp, cpt, msg, retx, rel, data, asks, reps, inds),
                      NEW y, y = mm_send(x, "EST_REQ", m)
               PROVE  y = Sta(rp, rpt, cp, cpt, msg, retx, rel, data, asks \cup {"EST_REQ"}, reps, inds)
    OBVIOUS
  <1> QED BY DEF mm_send, Timely, Sta

\* The release of the connection is asked for, and the station is destroyed.
LEMMA SendsRel ==
  ASSUME NEW rp, NEW rpt, NEW cp, NEW cpt, NEW msg, NEW retx, NEW rel, NEW data, NEW asks, NEW reps, NEW inds,
         NEW m,
         "REL_REQ" \notin asks, Destroy
  PROVE  mm_send(Sta(rp, rpt, cp, cpt, msg, retx, rel, data, asks, reps, inds), "REL_REQ", m) =
           Ended(data, asks \cup {"REL_REQ"}, reps, inds)
  <1> SUFFICES ASSUME NEW x, x = Sta(rp, rpt, cp, cpt, msg, retx, rel, data, asks, reps, inds),
                      NEW y, y = mm_send(x, "REL_REQ", m)
               PROVE  y = Ended(data, asks \cup {"REL_REQ"}, reps, inds)
    OBVIOUS
  <1> QED BY DEF mm_send, Timely, Sta, Ended, Destroyed, Fresh, No

\* The user gets a report.
LEMMA TellsReport ==
  ASSUME NEW rp, NEW rpt, NEW cp, NEW cpt, NEW msg, NEW retx, NEW rel, NEW data, NEW asks, NEW reps, NEW inds,
         NEW m,
         "REL_REQ" \notin asks
  PROVE  rl_recv(Sta(rp, rpt, cp, cpt, msg, retx, rel, data, asks, reps, inds), "REPORT_IND", m) =
           Sta(rp, rpt, cp, cpt, msg, retx, rel, data, asks, Append(reps, m), inds)
  <1> SUFFICES ASSUME NEW x, x = Sta(rp, rpt, cp, cpt, msg, retx, rel, data, asks, reps, inds),
                      NEW y, y = rl_recv(x, "REPORT_IND", m)
               PROVE  y = Sta(rp, rpt, cp, cpt, msg, retx, rel, data, asks, Append(reps, m), inds)
    OBVIOUS
  <1> QED BY DEF rl_recv, Timely, Sta

\* The user gets a message.
LEMMA TellsData ==
  ASSUME NEW rp, NEW rpt, NEW cp, NEW cpt, NEW msg, NEW retx, NEW rel, NEW data, NEW asks, NEW reps, NEW inds,
         NEW m,
         "REL_REQ" \notin asks
  PROVE  rl_recv(Sta(rp, rpt, cp, cpt, msg, retx, rel, data, asks, reps, inds), "DATA_IND", m) =
           Sta(rp, rpt, cp, cpt, msg, retx, rel, data, asks, reps, inds \cup {m})
  <1> SUFFICES ASSUME NEW x, x = Sta(rp, rpt, cp, cpt, msg, retx, rel, data, asks, reps, inds),
                      NEW y, y = rl_recv(x, "DATA_IND", m)
               PROVE  y = Sta(rp, rpt, cp, cpt, msg, retx, rel, data, asks, reps, inds \cup {m})
    OBVIOUS
  <1> QED BY DEF rl_recv, Timely, Sta

\* The first CP message of the step.
LEMMA SendsFirst ==
  ASSUME NEW rp, NEW rpt, NEW cp, NEW cpt, NEW msg, NEW retx, NEW rel, NEW asks, NEW reps, NEW inds, NEW m,
         "REL_REQ" \notin asks
  PROVE  mm_send(Sta(rp, rpt, cp, cpt, msg, retx, rel, <<>>, asks, reps, inds), "DATA_REQ", m) =
           Sta(rp, rpt, cp, cpt, msg, retx, rel, <<m>>, asks, reps, inds)
  <1>1. SUFFICES ASSUME NEW q, q = <<>>, NEW p, p = <<m>>
                 PROVE  mm_send(Sta(rp, rpt, cp, cpt, msg, retx, rel, q, asks, reps, inds), "DATA_REQ", m) =
                          Sta(rp, rpt, cp, cpt, msg, retx, rel, p, asks, reps, inds)
    OBVIOUS
  <1>2. p = Append(q, m)
    BY <1>1
  <1> QED BY <1>2, SendsData

\* The first request of the step is the release.
LEMMA ReleasesFirst ==
  ASSUME NEW rp, NEW rpt, NEW cp, NEW cpt, NEW msg, NEW retx, NEW rel, NEW data, NEW reps, NEW inds, NEW m, Destroy
  PROVE  mm_send(Sta(rp, rpt, cp, cpt, msg, retx, rel, data, {}, reps, inds), "REL_REQ", m) =
           Ended(data, {"REL_REQ"}, reps, inds)
  <1> SUFFICES ASSUME NEW x, x = Sta(rp, rpt, cp, cpt, msg, retx, rel, data, {}, reps, inds),
                      NEW y, y = mm_send(x, "REL_REQ", m)
               PROVE  y = Ended(data, {"REL_REQ"}, reps, inds)
    OBVIOUS
  <1> QED BY DEF mm_send, Timely, Sta, Ended, Destroyed, Fresh, No

\* The first report of the step.
LEMMA TellsFirst ==
  ASSUME NEW rp, NEW rpt, NEW cp, NEW cpt, NEW msg, NEW retx, NEW rel, NEW data, NEW asks, NEW inds, NEW m,
         "REL_REQ" \notin asks
  PROVE  rl_recv(Sta(rp, rpt, cp, cpt, msg, retx, rel, data, asks, <<>>, inds), "REPORT_IND", m) =
           Sta(rp, rpt, cp, cpt, msg, retx, rel, data, asks, <<m>>, inds)
  <1>1. SUFFICES ASSUME NEW q, q = <<>>, NEW p, p = <<m>>
                 PROVE  rl_recv(Sta(rp, rpt, cp, cpt, msg, retx, rel, data, asks, q, inds), "REPORT_IND", m) =
                          Sta(rp, rpt, cp, cpt, msg, retx, rel, data, asks, p, inds)
    OBVIOUS
  <1>2. p = Append(q, m)
    BY <1>1
  <1> QED BY <1>2, TellsReport

\* A release when there is no connection: nothing to do (gsm411_mnsms_rel_req).
LEMMA ReleaseIdle ==
  ASSUME NEW x, x.cp = "IDLE"
  PROVE  gsm411_send_release(x) = x
  BY DEF gsm411_send_release, gsm411_smc_send, gsm411_mnsms_rel_req

\* A release while a message is under way is stored.
LEMMA ReleaseLater ==
  ASSUME NEW rp, NEW rpt, NEW cpt, NEW msg, NEW retx, NEW rel, NEW data, NEW asks, NEW reps, NEW inds
  PROVE  gsm411_send_release(Sta(rp, rpt, "WAIT_CP_ACK", cpt, msg, retx, rel, data, asks, reps, inds)) =
           Sta(rp, rpt, "WAIT_CP_ACK", cpt, msg, retx, Yes, data, asks, reps, inds)
  <1> SUFFICES ASSUME NEW x, x = Sta(rp, rpt, "WAIT_CP_ACK", cpt, msg, retx, rel, data, asks, reps, inds),
                      NEW y, y = [x EXCEPT !.rel = TRUE]
               PROVE  gsm411_send_release(x) = Sta(rp, rpt, "WAIT_CP_ACK", cpt, msg, retx, Yes, data, asks, reps, inds)
    OBVIOUS
  <1>1. x.cp = "WAIT_CP_ACK"
    BY DEF Sta
  <1>2. gsm411_send_release(x) = y
    BY <1>1 DEF gsm411_send_release, gsm411_smc_send, gsm411_mnsms_rel_req
  <1>3. y = Sta(rp, rpt, "WAIT_CP_ACK", cpt, msg, retx, Yes, data, asks, reps, inds)
    BY DEF Sta, Yes
  <1> QED BY <1>2, <1>3

\* A release of an established connection is done at once.
LEMMA ReleaseNow ==
  ASSUME NEW rp, NEW rpt, NEW cpt, NEW msg, NEW retx, NEW rel, NEW data, NEW asks, NEW reps, NEW inds,
         "REL_REQ" \notin asks, Destroy
  PROVE  gsm411_send_release(Sta(rp, rpt, "MM_ESTABLISHED", cpt, msg, retx, rel, data, asks, reps, inds)) =
           Ended(data, asks \cup {"REL_REQ"}, reps, inds)
  <1> SUFFICES ASSUME NEW x, x = Sta(rp, rpt, "MM_ESTABLISHED", cpt, msg, retx, rel, data, asks, reps, inds)
               PROVE  gsm411_send_release(x) = Ended(data, asks \cup {"REL_REQ"}, reps, inds)
    OBVIOUS
  <1>1. x.cp = "MM_ESTABLISHED"
    BY DEF Sta
  <1>2. gsm411_send_release(x) = mm_send(CpIdle(Dropped(x)), "REL_REQ", Cp("none", None))
    BY <1>1 DEF gsm411_send_release, gsm411_smc_send, gsm411_mnsms_rel_req
  <1>3. CpIdle(Dropped(x)) = Sta(rp, rpt, "IDLE", cpt, <<>>, retx, rel, data, asks, reps, inds)
    BY CpIdleSta, DroppedSta
  <1> QED BY <1>2, <1>3, SendsRel

\* The stored message is sent, again or for the first time (gsm411_mmsms_send_msg).
LEMMA Sends ==
  ASSUME NEW rp, NEW rpt, NEW cp, NEW cpt, NEW m, NEW retx, NEW rel, NEW data, NEW asks, NEW reps, NEW inds,
         "REL_REQ" \notin asks
  PROVE  gsm411_mmsms_send_msg(Sta(rp, rpt, cp, cpt, <<m>>, retx, rel, data, asks, reps, inds)) =
           Sta(rp, rpt, "WAIT_CP_ACK", Yes, <<m>>, IF cp = "WAIT_CP_ACK" THEN retx ELSE 0, rel,
               Append(data, Cp("CP_DATA", m)), asks, reps, inds)
  <1> DEFINE r == IF cp = "WAIT_CP_ACK" THEN retx ELSE 0
  <1>0. SUFFICES ASSUME NEW x, x = Sta(rp, rpt, cp, cpt, <<m>>, retx, rel, data, asks, reps, inds), NEW y,
                      y = [x EXCEPT !.retx = IF x.cp # "WAIT_CP_ACK" THEN 0 ELSE @, !.cp = "WAIT_CP_ACK", !.cpt = TRUE]
               PROVE  gsm411_mmsms_send_msg(x) =
                        Sta(rp, rpt, "WAIT_CP_ACK", Yes, <<m>>, r, rel, Append(data, Cp("CP_DATA", m)), asks, reps, inds)
    OBVIOUS
  <1>1. y = Sta(rp, rpt, "WAIT_CP_ACK", Yes, <<m>>, r, rel, data, asks, reps, inds)
    BY <1>0 DEF Sta, Yes
  <1>2. x.msg[1] = m
    BY <1>0 DEF Sta
  <1>3. gsm411_mmsms_send_msg(x) = mm_send(y, "DATA_REQ", Cp("CP_DATA", m))
    BY <1>0, <1>2 DEF gsm411_mmsms_send_msg
  <1> HIDE DEF r
  <1> QED BY <1>1, <1>3, SendsData

\* A message is stored and sent (gsm411_mnsms_data_req).
LEMMA StoresAndSends ==
  ASSUME NEW rp, NEW rpt, NEW cpt, NEW m, NEW retx, NEW rel, NEW data, NEW asks, NEW reps, NEW inds,
         "REL_REQ" \notin asks
  PROVE  gsm411_smc_send(Sta(rp, rpt, "MM_ESTABLISHED", cpt, <<>>, retx, rel, data, asks, reps, inds), "DATA_REQ", m) =
           Sta(rp, rpt, "WAIT_CP_ACK", Yes, <<m>>, 0, rel, Append(data, Cp("CP_DATA", m)), asks, reps, inds)
  <1> SUFFICES ASSUME NEW x, x = Sta(rp, rpt, "MM_ESTABLISHED", cpt, <<>>, retx, rel, data, asks, reps, inds),
                      NEW y, y = Store(x, m)
               PROVE  gsm411_smc_send(x, "DATA_REQ", m) =
                        Sta(rp, rpt, "WAIT_CP_ACK", Yes, <<m>>, 0, rel, Append(data, Cp("CP_DATA", m)), asks, reps, inds)
    OBVIOUS
  <1>1. y = Sta(rp, rpt, "MM_ESTABLISHED", cpt, <<m>>, retx, rel, data, asks, reps, inds)
    BY DEF Store, Sta
  <1>2. x.cp = "MM_ESTABLISHED"
    BY DEF Sta
  <1>3. gsm411_smc_send(x, "DATA_REQ", m) = gsm411_mmsms_send_msg(y)
    BY <1>2 DEF gsm411_smc_send, gsm411_mnsms_data_req
  <1> QED BY <1>1, <1>3, Sends

\* The same for a message that is sent again, and for one that was not sent yet.
LEMMA SendsAgain ==
  ASSUME NEW rp, NEW rpt, NEW cpt, NEW m, NEW retx, NEW rel, NEW reps, NEW inds
  PROVE  gsm411_mmsms_send_msg(Sta(rp, rpt, "WAIT_CP_ACK", cpt, <<m>>, retx, rel, <<>>, {}, reps, inds)) =
           Sta(rp, rpt, "WAIT_CP_ACK", Yes, <<m>>, retx, rel, <<Cp("CP_DATA", m)>>, {}, reps, inds)
  <1> DEFINE c == "WAIT_CP_ACK"
             e == Cp("CP_DATA", m)
             s == <<m>>
  <1>1. SUFFICES ASSUME NEW q, q = <<>>, NEW p, p = <<e>>
                 PROVE  gsm411_mmsms_send_msg(Sta(rp, rpt, c, cpt, s, retx, rel, q, {}, reps, inds)) =
                          Sta(rp, rpt, c, Yes, s, retx, rel, p, {}, reps, inds)
    OBVIOUS
  <1>2. p = Append(q, e)
    BY <1>1
  <1>3. (IF c = "WAIT_CP_ACK" THEN retx ELSE 0) = retx
    OBVIOUS
  <1> QED BY <1>2, <1>3, Sends

\* See above.
LEMMA SendsNew ==
  ASSUME NEW rp, NEW rpt, NEW cpt, NEW m, NEW retx, NEW rel, NEW reps, NEW inds
  PROVE  gsm411_mmsms_send_msg(Sta(rp, rpt, "MM_CONN_PENDING", cpt, <<m>>, retx, rel, <<>>, {}, reps, inds)) =
           Sta(rp, rpt, "WAIT_CP_ACK", Yes, <<m>>, 0, rel, <<Cp("CP_DATA", m)>>, {}, reps, inds)
  <1> DEFINE c == "MM_CONN_PENDING"
             e == Cp("CP_DATA", m)
             s == <<m>>
  <1>1. SUFFICES ASSUME NEW q, q = <<>>, NEW p, p = <<e>>
                 PROVE  gsm411_mmsms_send_msg(Sta(rp, rpt, c, cpt, s, retx, rel, q, {}, reps, inds)) =
                          Sta(rp, rpt, "WAIT_CP_ACK", Yes, s, 0, rel, p, {}, reps, inds)
    OBVIOUS
  <1>2. p = Append(q, e)
    BY <1>1
  <1>3. (IF c = "WAIT_CP_ACK" THEN retx ELSE 0) = 0
    OBVIOUS
  <1> QED BY <1>2, <1>3, Sends

\* The first message of a step is stored and sent.
LEMMA StoresFirst ==
  ASSUME NEW rp, NEW rpt, NEW cpt, NEW m, NEW retx, NEW rel, NEW asks, NEW reps, NEW inds, "REL_REQ" \notin asks
  PROVE  gsm411_smc_send(Sta(rp, rpt, "MM_ESTABLISHED", cpt, <<>>, retx, rel, <<>>, asks, reps, inds), "DATA_REQ", m) =
           Sta(rp, rpt, "WAIT_CP_ACK", Yes, <<m>>, 0, rel, <<Cp("CP_DATA", m)>>, asks, reps, inds)
  <1> DEFINE e == Cp("CP_DATA", m)
             n == <<>>
             s == <<m>>
  <1>1. SUFFICES ASSUME NEW q, q = <<>>, NEW p, p = <<e>>
                 PROVE  gsm411_smc_send(Sta(rp, rpt, "MM_ESTABLISHED", cpt, n, retx, rel, q, asks, reps, inds), "DATA_REQ", m) =
                          Sta(rp, rpt, "WAIT_CP_ACK", Yes, s, 0, rel, p, asks, reps, inds)
    OBVIOUS
  <1>2. p = Append(q, e)
    BY <1>1
  <1> QED BY <1>2, StoresAndSends

\* The first request of a step is the release.
LEMMA ReleaseFirst ==
  ASSUME NEW rp, NEW rpt, NEW cpt, NEW msg, NEW retx, NEW rel, NEW data, NEW reps, NEW inds, Destroy
  PROVE  gsm411_send_release(Sta(rp, rpt, "MM_ESTABLISHED", cpt, msg, retx, rel, data, {}, reps, inds)) =
           Ended(data, {"REL_REQ"}, reps, inds)
  <1>1. SUFFICES ASSUME NEW q, q = {}, NEW p, p = {"REL_REQ"}
                 PROVE  gsm411_send_release(Sta(rp, rpt, "MM_ESTABLISHED", cpt, msg, retx, rel, data, q, reps, inds)) =
                          Ended(data, p, reps, inds)
    OBVIOUS
  <1>2. p = q \cup {"REL_REQ"} /\ "REL_REQ" \notin q
    BY <1>1
  <1> QED BY <1>2, ReleaseNow

\* The first request of a step is the connection.
LEMMA AsksFirst ==
  ASSUME NEW rp, NEW rpt, NEW cp, NEW cpt, NEW msg, NEW retx, NEW rel, NEW data, NEW reps, NEW inds, NEW m
  PROVE  mm_send(Sta(rp, rpt, cp, cpt, msg, retx, rel, data, {}, reps, inds), "EST_REQ", m) =
           Sta(rp, rpt, cp, cpt, msg, retx, rel, data, {"EST_REQ"}, reps, inds)
  <1>1. SUFFICES ASSUME NEW q, q = {}, NEW p, p = {"EST_REQ"}
                 PROVE  mm_send(Sta(rp, rpt, cp, cpt, msg, retx, rel, data, q, reps, inds), "EST_REQ", m) =
                          Sta(rp, rpt, cp, cpt, msg, retx, rel, data, p, reps, inds)
    OBVIOUS
  <1>2. p = q \cup {"EST_REQ"} /\ "REL_REQ" \notin q
    BY <1>1
  <1> QED BY <1>2, SendsEst

-----------------------------------------------------------------------------
(* What an event makes of a station.                                       *)

RpStates == {"IDLE", "WAIT_FOR_RP_ACK", "WAIT_TO_TX_RP_ACK"}

\* What the user is told of a transaction that fails.
Word(rp) == IF rp = "IDLE" THEN <<>> ELSE <<None>>

\* The fields of a station between two steps.
LEMMA AtFields ==
  ASSUME NEW rp, NEW cp, NEW msg, NEW retx, NEW rel
  PROVE  /\ At(rp, cp, msg, retx, rel).rp = rp
         /\ At(rp, cp, msg, retx, rel).cp = cp
  BY DEF At, Now, Sta

\* A message of the peer.
LEMMA CpFields ==
  ASSUME NEW t, NEW m
  PROVE  Cp(t, m).type = t /\ Cp(t, m).rp = m
  BY DEF Cp

\* The SMR learns that the connection is no more (gsm411_mnsms_error_ind_tx,
\* gsm411_mnsms_error_ind_rx).
LEMMA ErrorInd ==
  ASSUME NEW rp \in RpStates, NEW rpt, rp = "IDLE" => rpt = No,
         NEW cpt, NEW msg, NEW retx, NEW rel, NEW data, NEW asks, NEW inds, "REL_REQ" \notin asks
  PROVE  gsm411_smr_recv(Sta(rp, rpt, "IDLE", cpt, msg, retx, rel, data, asks, <<>>, inds), "ERROR_IND", None) =
           Sta("IDLE", No, "IDLE", cpt, msg, retx, rel, data, asks, Word(rp), inds)
  <1> SUFFICES ASSUME NEW x, x = Sta(rp, rpt, "IDLE", cpt, msg, retx, rel, data, asks, <<>>, inds)
               PROVE  gsm411_smr_recv(x, "ERROR_IND", None) =
                        Sta("IDLE", No, "IDLE", cpt, msg, retx, rel, data, asks, Word(rp), inds)
    OBVIOUS
  <1>1. x.rp = rp
    BY DEF Sta
  <1>2. CASE rp = "IDLE"
    <2>1. gsm411_smr_recv(x, "ERROR_IND", None) = x
      BY <1>1, <1>2 DEF gsm411_smr_recv
    <2>2. Word(rp) = <<>> /\ rpt = No
      BY <1>2 DEF Word
    <2> QED BY <1>2, <2>1, <2>2
  <1>3. CASE rp # "IDLE"
    <2> DEFINE y == rl_recv(new_rp_state(x, "IDLE"), "REPORT_IND", None)
    <2>1. new_rp_state(x, "IDLE") = Sta("IDLE", No, "IDLE", cpt, msg, retx, rel, data, asks, <<>>, inds)
      BY RpIdleSta
    <2>2. y = Sta("IDLE", No, "IDLE", cpt, msg, retx, rel, data, asks, <<None>>, inds)
      BY <2>1, TellsFirst
    <2>3. <<None>> = Word(rp)
      BY <1>3 DEF Word
    <2>4. y.cp = "IDLE"
      BY <2>2 DEF Sta
    <2> HIDE DEF y
    <2>5. gsm411_send_release(y) = y
      BY <2>4, ReleaseIdle
    <2>6. gsm411_smr_recv(x, "ERROR_IND", None) \in {y, gsm411_send_release(y)}
      BY <1>1, <1>3 DEF gsm411_smr_recv, gsm411_mnsms_error_ind_tx, gsm411_mnsms_error_ind_rx, RpStates, y
    <2> QED BY <2>2, <2>3, <2>5, <2>6
  <1> QED BY <1>2, <1>3

\* A message that does not fit ends the transaction.
LEMMA Unhandles ==
  ASSUME NEW rp \in RpStates, NEW cp, NEW msg, NEW retx, NEW rel, Destroy
  PROVE  Unhandled(At(rp, cp, msg, retx, rel)) = Ended(<<Cp("CP_ERROR", None)>>, {"REL_REQ"}, Word(rp), {})
  <1> DEFINE rpt == IF rp = "IDLE" THEN No ELSE Yes
             cpt == IF cp = "WAIT_CP_ACK" THEN Yes ELSE No
             x == At(rp, cp, msg, retx, rel)
             e == Cp("CP_ERROR", None)
  <1>1. x = Sta(rp, rpt, cp, cpt, msg, retx, rel, <<>>, {}, <<>>, {}) /\ (rp = "IDLE" => rpt = No)
    BY DEF At, Now
  <1> HIDE DEF rpt, cpt, x, e
  <1>2. CpIdle(x) = Sta(rp, rpt, "IDLE", cpt, msg, retx, rel, <<>>, {}, <<>>, {})
    BY <1>1, CpIdleSta
  <1>3. mm_send(CpIdle(x), "DATA_REQ", e) = Sta(rp, rpt, "IDLE", cpt, msg, retx, rel, <<e>>, {}, <<>>, {})
    BY <1>2, SendsFirst
  <1>4. gsm411_smr_recv(mm_send(CpIdle(x), "DATA_REQ", e), "ERROR_IND", None) =
          Sta("IDLE", No, "IDLE", cpt, msg, retx, rel, <<e>>, {}, Word(rp), {})
    BY <1>1, <1>3, ErrorInd
  <1>5. mm_send(gsm411_smr_recv(mm_send(CpIdle(x), "DATA_REQ", e), "ERROR_IND", None), "REL_REQ", Cp("none", None)) =
          Ended(<<e>>, {"REL_REQ"}, Word(rp), {})
    BY <1>4, ReleasesFirst
  <1> QED BY <1>5 DEF Unhandled, x, e

\* The connection fails: CP-ERROR, or no more retries of the stored message.
LEMMA Fails ==
  ASSUME NEW rp \in RpStates, NEW rpt, rp = "IDLE" => rpt = No,
         NEW cpt, NEW msg, NEW retx, NEW rel, Destroy
  PROVE  Failed(Sta(rp, rpt, "IDLE", cpt, msg, retx, rel, <<>>, {}, <<>>, {})) =
           Ended(<<>>, {"REL_REQ"}, Word(rp), {})
  <1> DEFINE x == Sta(rp, rpt, "IDLE", cpt, msg, retx, rel, <<>>, {}, <<>>, {})
             y == gsm411_smr_recv(x, "ERROR_IND", None)
  <1>1. y = Sta("IDLE", No, "IDLE", cpt, msg, retx, rel, <<>>, {}, Word(rp), {})
    BY ErrorInd
  <1>2. Dropped(y) = Sta("IDLE", No, "IDLE", cpt, <<>>, retx, rel, <<>>, {}, Word(rp), {})
    BY <1>1, DroppedSta
  <1>3. mm_send(Dropped(y), "REL_REQ", Cp("none", None)) = Ended(<<>>, {"REL_REQ"}, Word(rp), {})
    BY <1>2, ReleasesFirst
  <1> QED BY <1>3 DEF Failed

\* CP-ERROR ends the transaction (gsm411_mmsms_cp_error).
LEMMA CpError ==
  ASSUME NEW rp \in RpStates, NEW cp, NEW msg, NEW retx, NEW rel, Destroy, NEW e, e.type = "CP_ERROR"
  PROVE  gsm411_smc_recv(At(rp, cp, msg, retx, rel), "DATA_IND", e) = Ended(<<>>, {"REL_REQ"}, Word(rp), {})
  <1> DEFINE rpt == IF rp = "IDLE" THEN No ELSE Yes
             cpt == IF cp = "WAIT_CP_ACK" THEN Yes ELSE No
             x == At(rp, cp, msg, retx, rel)
  <1>1. x = Sta(rp, rpt, cp, cpt, msg, retx, rel, <<>>, {}, <<>>, {}) /\ (rp = "IDLE" => rpt = No)
    BY DEF At, Now
  <1> HIDE DEF rpt, cpt, x
  <1>2. CpIdle(Dropped(x)) = Sta(rp, rpt, "IDLE", cpt, <<>>, retx, rel, <<>>, {}, <<>>, {})
    BY <1>1, CpIdleSta, DroppedSta
  <1>3. gsm411_mmsms_cp_error(x) = Ended(<<>>, {"REL_REQ"}, Word(rp), {})
    BY <1>1, <1>2, Fails DEF gsm411_mmsms_cp_error
  <1>4. gsm411_smc_recv(x, "DATA_IND", e) = gsm411_mmsms_cp_error(x)
    BY DEF gsm411_smc_recv
  <1> QED BY <1>3, <1>4 DEF x

\* The connection is released by the other side (gsm411_mmsms_rel_ind).
LEMMA RelInd ==
  ASSUME NEW rp \in RpStates, NEW cp, cp # "IDLE", NEW msg, NEW retx, NEW rel, Destroy, NEW e
  PROVE  Destroyed(gsm411_smc_recv(At(rp, cp, msg, retx, rel), "REL_IND", e)) = Ended(<<>>, {}, Word(rp), {})
  <1> DEFINE rpt == IF rp = "IDLE" THEN No ELSE Yes
             cpt == IF cp = "WAIT_CP_ACK" THEN Yes ELSE No
             x == At(rp, cp, msg, retx, rel)
  <1>1. x = Sta(rp, rpt, cp, cpt, msg, retx, rel, <<>>, {}, <<>>, {}) /\ (rp = "IDLE" => rpt = No)
    BY DEF At, Now
  <1>2. x.cp = cp
    BY AtFields
  <1> HIDE DEF rpt, cpt, x
  <1>3. CpIdle(Dropped(x)) = Sta(rp, rpt, "IDLE", cpt, <<>>, retx, rel, <<>>, {}, <<>>, {})
    BY <1>1, CpIdleSta, DroppedSta
  <1>4. gsm411_mmsms_rel_ind(x) = Sta("IDLE", No, "IDLE", cpt, <<>>, retx, rel, <<>>, {}, Word(rp), {})
    BY <1>1, <1>3, ErrorInd DEF gsm411_mmsms_rel_ind
  <1>5. gsm411_smc_recv(x, "REL_IND", e) = gsm411_mmsms_rel_ind(x)
    BY <1>2 DEF gsm411_smc_recv
  <1> QED BY <1>4, <1>5, DestroyedSta DEF x

\* An acknowledgement: the connection is there, or released when that was stored
\* (gsm411_mmsms_cp_ack).
LEMMA CpAck ==
  ASSUME NEW rp, NEW msg, NEW retx, NEW rel \in {No, Yes}, Destroy, NEW e, e.type = "CP_ACK"
  PROVE  gsm411_smc_recv(At(rp, "WAIT_CP_ACK", msg, retx, rel), "DATA_IND", e) =
           IF rel = No THEN At(rp, "MM_ESTABLISHED", <<>>, retx, No) ELSE Ended(<<>>, {"REL_REQ"}, <<>>, {})
  <1> DEFINE rpt == IF rp = "IDLE" THEN No ELSE Yes
             y == At(rp, "WAIT_CP_ACK", msg, retx, rel)
             z == Dropped(y)
  <1>1. y = Sta(rp, rpt, "WAIT_CP_ACK", Yes, msg, retx, rel, <<>>, {}, <<>>, {})
    BY DEF At, Now
  <1>2. At(rp, "MM_ESTABLISHED", <<>>, retx, No) = Sta(rp, rpt, "MM_ESTABLISHED", No, <<>>, retx, No, <<>>, {}, <<>>, {})
    BY DEF At, Now
  <1>3. y.cp = "WAIT_CP_ACK"
    BY AtFields
  <1> HIDE DEF rpt, y
  <1>4. z = Sta(rp, rpt, "WAIT_CP_ACK", Yes, <<>>, retx, rel, <<>>, {}, <<>>, {})
    BY <1>1, DroppedSta
  <1> HIDE DEF z
  <1>5. PICK x : x = [z EXCEPT !.cp = "MM_ESTABLISHED", !.cpt = FALSE]
    OBVIOUS
  <1>6. x = Sta(rp, rpt, "MM_ESTABLISHED", No, <<>>, retx, rel, <<>>, {}, <<>>, {})
    BY <1>4, <1>5 DEF Sta, No
  <1>7. x.rel = rel
    BY <1>6 DEF Sta
  <1>8. gsm411_smc_recv(y, "DATA_IND", e) = gsm411_mmsms_cp_ack(y)
    BY <1>3 DEF gsm411_smc_recv
  <1>9. gsm411_mmsms_cp_ack(y) = IF x.rel THEN mm_send(CpIdle(x), "REL_REQ", Cp("none", None)) ELSE x
    BY <1>5 DEF gsm411_mmsms_cp_ack, z
  <1>10. CASE rel = No
    <2>1. gsm411_mmsms_cp_ack(y) = x
      BY <1>7, <1>9, <1>10 DEF No
    <2> QED BY <1>2, <1>6, <1>8, <1>10, <2>1 DEF y
  <1>11. CASE rel = Yes
    <2>1. gsm411_mmsms_cp_ack(y) = mm_send(CpIdle(x), "REL_REQ", Cp("none", None)) /\ rel # No
      BY <1>7, <1>9, <1>11 DEF No, Yes
    <2>2. CpIdle(x) = Sta(rp, rpt, "IDLE", No, <<>>, retx, rel, <<>>, {}, <<>>, {})
      BY <1>6, CpIdleSta
    <2>3. mm_send(CpIdle(x), "REL_REQ", Cp("none", None)) = Ended(<<>>, {"REL_REQ"}, <<>>, {})
      BY <2>2, ReleasesFirst
    <2> QED BY <1>8, <2>1, <2>3 DEF y
  <1> QED BY <1>10, <1>11

\* The timer of the SMC: the message is sent again, or the connection fails
\* (cp_timer_expired).
LEMMA CpExpires ==
  ASSUME NEW rp \in RpStates, NEW m, NEW r, NEW rel, Destroy
  PROVE  cp_timer_expired(At(rp, "WAIT_CP_ACK", <<m>>, r, rel)) =
           IF r = MaxRetr THEN Ended(<<>>, {"REL_REQ"}, Word(rp), {})
           ELSE Now(rp, "WAIT_CP_ACK", <<m>>, r + 1, rel, <<Cp("CP_DATA", m)>>, {}, {})
  <1> DEFINE rpt == IF rp = "IDLE" THEN No ELSE Yes
             y == At(rp, "WAIT_CP_ACK", <<m>>, r, rel)
             e == Cp("CP_DATA", m)
             msg == <<m>>
  <1>1. /\ y = Sta(rp, rpt, "WAIT_CP_ACK", Yes, msg, r, rel, <<>>, {}, <<>>, {}) /\ (rp = "IDLE" => rpt = No)
        /\ Now(rp, "WAIT_CP_ACK", msg, r + 1, rel, <<e>>, {}, {}) =
             Sta(rp, rpt, "WAIT_CP_ACK", Yes, msg, r + 1, rel, <<e>>, {}, <<>>, {})
    BY DEF At, Now
  <1>2. msg # <<>>
    OBVIOUS
  <1> HIDE DEF rpt, y, e, msg
  <1>3. PICK x : x = [y EXCEPT !.cpt = FALSE]
    OBVIOUS
  <1>4. x = Sta(rp, rpt, "WAIT_CP_ACK", No, msg, r, rel, <<>>, {}, <<>>, {})
    BY <1>1, <1>3 DEF Sta, No
  <1>5. PICK z : z = [x EXCEPT !.retx = @ + 1]
    OBVIOUS
  <1>6. z = Sta(rp, rpt, "WAIT_CP_ACK", No, msg, r + 1, rel, <<>>, {}, <<>>, {})
    BY <1>4, <1>5 DEF Sta
  <1>7. x.retx = r /\ z.msg = msg
    BY <1>4, <1>6 DEF Sta
  <1>8. cp_timer_expired(y) = IF r = MaxRetr THEN Failed(CpIdle(x)) ELSE gsm411_mmsms_est_cnf(z)
    BY <1>3, <1>5, <1>7 DEF cp_timer_expired
  <1>9. CpIdle(x) = Sta(rp, rpt, "IDLE", No, msg, r, rel, <<>>, {}, <<>>, {})
    BY <1>4, CpIdleSta
  <1>10. Failed(CpIdle(x)) = Ended(<<>>, {"REL_REQ"}, Word(rp), {})
    BY <1>1, <1>9, Fails
  <1>11. gsm411_mmsms_est_cnf(z) = gsm411_mmsms_send_msg(z)
    BY <1>2, <1>7 DEF gsm411_mmsms_est_cnf
  <1>12. gsm411_mmsms_send_msg(z) = Sta(rp, rpt, "WAIT_CP_ACK", Yes, msg, r + 1, rel, <<e>>, {}, <<>>, {})
    BY <1>6, SendsAgain DEF msg, e
  <1> QED BY <1>1, <1>8, <1>10, <1>11, <1>12 DEF y, e, msg

\* The connection is there, and the stored message is sent (gsm411_mmsms_est_cnf).
LEMMA Establishes ==
  ASSUME NEW rp, NEW m, NEW r, NEW rel, NEW e
  PROVE  gsm411_smc_recv(At(rp, "MM_CONN_PENDING", <<m>>, r, rel), "EST_CNF", e) =
           Now(rp, "WAIT_CP_ACK", <<m>>, 0, rel, <<Cp("CP_DATA", m)>>, {}, {})
  <1> DEFINE rpt == IF rp = "IDLE" THEN No ELSE Yes
             x == At(rp, "MM_CONN_PENDING", <<m>>, r, rel)
             c == Cp("CP_DATA", m)
             msg == <<m>>
  <1>1. /\ x = Sta(rp, rpt, "MM_CONN_PENDING", No, msg, r, rel, <<>>, {}, <<>>, {})
        /\ Now(rp, "WAIT_CP_ACK", msg, 0, rel, <<c>>, {}, {}) =
             Sta(rp, rpt, "WAIT_CP_ACK", Yes, msg, 0, rel, <<c>>, {}, <<>>, {})
    BY DEF At, Now
  <1>2. msg # <<>>
    OBVIOUS
  <1> HIDE DEF rpt, x, c, msg
  <1>3. x.cp = "MM_CONN_PENDING" /\ x.msg = msg
    BY <1>1 DEF Sta
  <1>4. gsm411_smc_recv(x, "EST_CNF", e) = gsm411_mmsms_send_msg(x)
    BY <1>2, <1>3 DEF gsm411_smc_recv, gsm411_mmsms_est_cnf
  <1>5. gsm411_mmsms_send_msg(x) = Sta(rp, rpt, "WAIT_CP_ACK", Yes, msg, 0, rel, <<c>>, {}, <<>>, {})
    BY <1>1, SendsNew DEF msg, c
  <1> QED BY <1>1, <1>4, <1>5 DEF x, c, msg

\* The timer of the SMR: the user is told, the connection is aborted
\* (rp_timer_expired, gsm411_mnsms_abort_req).
LEMMA RpExpires ==
  ASSUME NEW rp, NEW cp, cp # "IDLE", NEW msg, NEW r, NEW rel, Destroy
  PROVE  rp_timer_expired(At(rp, cp, msg, r, rel)) = Ended(<<Cp("CP_ERROR", None)>>, {"REL_REQ"}, <<None>>, {})
  <1> DEFINE rpt == IF rp = "IDLE" THEN No ELSE Yes
             cpt == IF cp = "WAIT_CP_ACK" THEN Yes ELSE No
             y == At(rp, cp, msg, r, rel)
             e == Cp("CP_ERROR", None)
  <1>1. y = Sta(rp, rpt, cp, cpt, msg, r, rel, <<>>, {}, <<>>, {})
    BY DEF At, Now
  <1> HIDE DEF rpt, cpt, y, e
  <1>2. PICK x : x = [y EXCEPT !.rpt = FALSE]
    OBVIOUS
  <1>3. x = Sta(rp, No, cp, cpt, msg, r, rel, <<>>, {}, <<>>, {})
    BY <1>1, <1>2 DEF Sta, No
  <1>4. PICK z : z = rl_recv(x, "REPORT_IND", None)
    OBVIOUS
  <1>5. z = Sta(rp, No, cp, cpt, msg, r, rel, <<>>, {}, <<None>>, {})
    BY <1>3, <1>4, TellsFirst
  <1>6. z.cp # "IDLE"
    BY <1>5 DEF Sta
  <1>7. rp_timer_expired(y) = gsm411_mnsms_abort_req(z)
    BY <1>2, <1>4, <1>6 DEF rp_timer_expired, gsm411_smc_send
  <1>8. CpIdle(Dropped(z)) = Sta(rp, No, "IDLE", cpt, <<>>, r, rel, <<>>, {}, <<None>>, {})
    BY <1>5, CpIdleSta, DroppedSta
  <1>9. mm_send(CpIdle(Dropped(z)), "DATA_REQ", e) = Sta(rp, No, "IDLE", cpt, <<>>, r, rel, <<e>>, {}, <<None>>, {})
    BY <1>8, SendsFirst
  <1>10. gsm411_mnsms_abort_req(z) = Ended(<<e>>, {"REL_REQ"}, <<None>>, {})
    BY <1>9, ReleasesFirst DEF gsm411_mnsms_abort_req, e
  <1> QED BY <1>7, <1>10 DEF y, e

\* Messages that the SMC does not expect (gsm411_smc_recv).
LEMMA Unexpected ==
  ASSUME NEW rp \in RpStates, NEW cp, NEW msg, NEW retx, NEW rel, Destroy, NEW e,
         \/ e.type = "CP_DATA" /\ cp = "WAIT_CP_ACK"
         \/ e.type = "CP_ACK" /\ cp = "MM_ESTABLISHED"
  PROVE  gsm411_smc_recv(At(rp, cp, msg, retx, rel), "DATA_IND", e) =
           Ended(<<Cp("CP_ERROR", None)>>, {"REL_REQ"}, Word(rp), {})
  <1> DEFINE x == At(rp, cp, msg, retx, rel)
  <1>1. x.cp = cp
    BY AtFields
  <1> HIDE DEF x
  <1>2. gsm411_smc_recv(x, "DATA_IND", e) = Unhandled(x)
    BY <1>1 DEF gsm411_smc_recv
  <1> QED BY <1>2, Unhandles DEF x

\* The answer to the message: the user gets the report and the connection is
\* released (gsm411_mmsms_cp_data, gsm411_mnsms_data_ind_tx).
LEMMA GetsAnswer ==
  ASSUME NEW r, NEW rel, Destroy, NEW e, e.type = "CP_DATA", e.rp.t \in {"ACK", "ERROR"}
  PROVE  gsm411_smc_recv(At("WAIT_FOR_RP_ACK", "MM_ESTABLISHED", <<>>, r, rel), "DATA_IND", e) =
           Ended(<<Cp("CP_ACK", None)>>, {"REL_REQ"}, <<e.rp>>, {})
  <1> DEFINE x == At("WAIT_FOR_RP_ACK", "MM_ESTABLISHED", <<>>, r, rel)
             a == Cp("CP_ACK", None)
             m == e.rp
  <1>1. x = Sta("WAIT_FOR_RP_ACK", Yes, "MM_ESTABLISHED", No, <<>>, r, rel, <<>>, {}, <<>>, {})
    BY DEF At, Now
  <1>2. x.cp = "MM_ESTABLISHED"
    BY AtFields
  <1> HIDE DEF x, a, m
  <1>3. PICK y : y = mm_send(x, "DATA_REQ", a)
    OBVIOUS
  <1>4. y = Sta("WAIT_FOR_RP_ACK", Yes, "MM_ESTABLISHED", No, <<>>, r, rel, <<a>>, {}, <<>>, {})
    BY <1>1, <1>3, SendsFirst
  <1>5. y.rp = "WAIT_FOR_RP_ACK"
    BY <1>4 DEF Sta
  <1>6. gsm411_smc_recv(x, "DATA_IND", e) = gsm411_smr_recv(y, "DATA_IND", m)
    BY <1>2, <1>3 DEF gsm411_smc_recv, gsm411_mmsms_cp_data, a, m
  <1>7. gsm411_smr_recv(y, "DATA_IND", m) = gsm411_mnsms_data_ind_tx(y, m)
    BY <1>5 DEF gsm411_smr_recv
  <1>8. PICK z : z = rl_recv(new_rp_state(y, "IDLE"), "REPORT_IND", m)
    OBVIOUS
  <1>9. gsm411_mnsms_data_ind_tx(y, m) = gsm411_send_release(z)
    BY <1>8 DEF gsm411_mnsms_data_ind_tx, m
  <1>10. new_rp_state(y, "IDLE") = Sta("IDLE", No, "MM_ESTABLISHED", No, <<>>, r, rel, <<a>>, {}, <<>>, {})
    BY <1>4, RpIdleSta
  <1>11. z = Sta("IDLE", No, "MM_ESTABLISHED", No, <<>>, r, rel, <<a>>, {}, <<m>>, {})
    BY <1>8, <1>10, TellsFirst
  <1>12. gsm411_send_release(z) = Ended(<<a>>, {"REL_REQ"}, <<m>>, {})
    BY <1>11, ReleaseFirst
  <1> QED BY <1>6, <1>7, <1>9, <1>12 DEF x, a, m

\* A message that is sent again is acknowledged again, and nothing else
\* (gsm411_mmsms_cp_data, gsm411_smr_recv).
LEMMA GetsAgain ==
  ASSUME NEW rp \in RpStates, rp # "WAIT_FOR_RP_ACK", NEW msg, NEW r, NEW rel, NEW e, e.type = "CP_DATA"
  PROVE  gsm411_smc_recv(At(rp, "MM_ESTABLISHED", msg, r, rel), "DATA_IND", e) =
           Now(rp, "MM_ESTABLISHED", msg, r, rel, <<Cp("CP_ACK", None)>>, {}, {})
  <1> DEFINE x == At(rp, "MM_ESTABLISHED", msg, r, rel)
             a == Cp("CP_ACK", None)
             rpt == IF rp = "IDLE" THEN No ELSE Yes
  <1>1. /\ x = Sta(rp, rpt, "MM_ESTABLISHED", No, msg, r, rel, <<>>, {}, <<>>, {})
        /\ Now(rp, "MM_ESTABLISHED", msg, r, rel, <<a>>, {}, {}) =
             Sta(rp, rpt, "MM_ESTABLISHED", No, msg, r, rel, <<a>>, {}, <<>>, {})
    BY DEF At, Now
  <1>2. x.cp = "MM_ESTABLISHED"
    BY AtFields
  <1> HIDE DEF x, a, rpt
  <1>3. PICK y : y = mm_send(x, "DATA_REQ", a)
    OBVIOUS
  <1>4. y = Sta(rp, rpt, "MM_ESTABLISHED", No, msg, r, rel, <<a>>, {}, <<>>, {})
    BY <1>1, <1>3, SendsFirst
  <1>5. y.rp = rp
    BY <1>4 DEF Sta
  <1>6. gsm411_smc_recv(x, "DATA_IND", e) = gsm411_smr_recv(y, "DATA_IND", e.rp)
    BY <1>2, <1>3 DEF gsm411_smc_recv, gsm411_mmsms_cp_data, a
  <1>7. gsm411_smr_recv(y, "DATA_IND", e.rp) = y
    BY <1>5 DEF gsm411_smr_recv, RpStates
  <1> QED BY <1>1, <1>4, <1>6, <1>7 DEF x, a

\* A message is submitted and stored until the connection is there
\* (gsm411_rl_data_req, gsm411_mnsms_est_req).
LEMMA Submits ==
  ASSUME NEW m
  PROVE  gsm411_smr_send(At("IDLE", "IDLE", <<>>, 0, No), "DATA_REQ", m) =
           Now("WAIT_FOR_RP_ACK", "MM_CONN_PENDING", <<m>>, 0, No, <<>>, {"EST_REQ"}, {})
  <1> DEFINE x == At("IDLE", "IDLE", <<>>, 0, No)
             n == Now("WAIT_FOR_RP_ACK", "MM_CONN_PENDING", <<m>>, 0, No, <<>>, {"EST_REQ"}, {})
  <1>1. /\ x = Sta("IDLE", No, "IDLE", No, <<>>, 0, No, <<>>, {}, <<>>, {})
        /\ n = Sta("WAIT_FOR_RP_ACK", Yes, "MM_CONN_PENDING", No, <<m>>, 0, No, <<>>, {"EST_REQ"}, <<>>, {})
    BY DEF At, Now
  <1> HIDE DEF x, n
  <1>2. x.rp = "IDLE"
    BY <1>1 DEF Sta
  <1>3. PICK y : y = [x EXCEPT !.rp = "WAIT_FOR_RP_ACK", !.rpt = TRUE]
    OBVIOUS
  <1>4. y = Sta("WAIT_FOR_RP_ACK", Yes, "IDLE", No, <<>>, 0, No, <<>>, {}, <<>>, {})
    BY <1>1, <1>3 DEF Sta, Yes
  <1>5. y.cp = "IDLE"
    BY <1>4 DEF Sta
  <1>6. gsm411_smr_send(x, "DATA_REQ", m) = gsm411_smc_send(y, "EST_REQ", m)
    BY <1>2, <1>3 DEF gsm411_smr_send, gsm411_rl_data_req
  <1>7. gsm411_smc_send(y, "EST_REQ", m) = gsm411_mnsms_est_req(y, m)
    BY <1>5 DEF gsm411_smc_send
  <1>8. PICK z : z = [Store(y, m) EXCEPT !.cp = "MM_CONN_PENDING", !.rel = FALSE]
    OBVIOUS
  <1>9. z = Sta("WAIT_FOR_RP_ACK", Yes, "MM_CONN_PENDING", No, <<m>>, 0, No, <<>>, {}, <<>>, {})
    <2>1. PICK u : u = Store(y, m)
      OBVIOUS
    <2>2. u = Sta("WAIT_FOR_RP_ACK", Yes, "IDLE", No, <<m>>, 0, No, <<>>, {}, <<>>, {})
      BY <1>4, <2>1 DEF Store, Sta
    <2>3. z = [u EXCEPT !.cp = "MM_CONN_PENDING", !.rel = FALSE]
      BY <1>8, <2>1
    <2> QED BY <2>2, <2>3 DEF Sta, No
  <1>10. mm_send(z, "EST_REQ", Cp("none", None)) = n
    BY <1>1, <1>9, AsksFirst
  <1> QED BY <1>6, <1>7, <1>8, <1>10 DEF x, n, gsm411_mnsms_est_req

\* The user answers: the report is sent, the release is stored
\* (gsm411_rl_report_req).
LEMMA Answers ==
  ASSUME NEW m
  PROVE  gsm411_smr_send(At("WAIT_TO_TX_RP_ACK", "MM_ESTABLISHED", <<>>, 0, No), "REPORT_REQ", m) =
           Now("IDLE", "WAIT_CP_ACK", <<m>>, 0, Yes, <<Cp("CP_DATA", m)>>, {}, {})
  <1> DEFINE x == At("WAIT_TO_TX_RP_ACK", "MM_ESTABLISHED", <<>>, 0, No)
             a == Cp("CP_DATA", m)
             n == Now("IDLE", "WAIT_CP_ACK", <<m>>, 0, Yes, <<a>>, {}, {})
  <1>1. /\ x = Sta("WAIT_TO_TX_RP_ACK", Yes, "MM_ESTABLISHED", No, <<>>, 0, No, <<>>, {}, <<>>, {})
        /\ n = Sta("IDLE", No, "WAIT_CP_ACK", Yes, <<m>>, 0, Yes, <<a>>, {}, <<>>, {})
    BY DEF At, Now
  <1> HIDE DEF x, n
  <1>2. x.rp = "WAIT_TO_TX_RP_ACK"
    BY <1>1 DEF Sta
  <1>3. gsm411_smr_send(x, "REPORT_REQ", m) = gsm411_rl_report_req(x, m)
    BY <1>2 DEF gsm411_smr_send
  <1>4. new_rp_state(x, "IDLE") = Sta("IDLE", No, "MM_ESTABLISHED", No, <<>>, 0, No, <<>>, {}, <<>>, {})
    BY <1>1, RpIdleSta
  <1>5. gsm411_smc_send(new_rp_state(x, "IDLE"), "DATA_REQ", m) =
          Sta("IDLE", No, "WAIT_CP_ACK", Yes, <<m>>, 0, No, <<a>>, {}, <<>>, {})
    BY <1>4, StoresFirst
  <1>6. gsm411_send_release(gsm411_smc_send(new_rp_state(x, "IDLE"), "DATA_REQ", m)) = n
    BY <1>1, <1>5, ReleaseLater
  <1> QED BY <1>3, <1>6 DEF x, n, gsm411_rl_report_req

\* What is answered to a message of another kind.
Refusal(m) == [t |-> "ERROR", n |-> m.n]

\* A message of another kind is refused (gsm411_send_rp_error).
LEMMA Refuses ==
  ASSUME NEW a, NEW m
  PROVE  Refuse(Sta("IDLE", No, "MM_ESTABLISHED", No, <<>>, 0, No, <<a>>, {}, <<>>, {}), m) =
           Sta("IDLE", No, "WAIT_CP_ACK", Yes, <<Refusal(m)>>, 0, No, <<a, Cp("CP_DATA", Refusal(m))>>, {}, <<>>, {})
  <1> DEFINE e == Cp("CP_DATA", Refusal(m))
             f == Refusal(m)
             s == <<f>>
             n == <<>>
  <1>1. SUFFICES ASSUME NEW q, q = <<a>>, NEW p, p = <<a, e>>
                 PROVE  Refuse(Sta("IDLE", No, "MM_ESTABLISHED", No, n, 0, No, q, {}, n, {}), m) =
                          Sta("IDLE", No, "WAIT_CP_ACK", Yes, s, 0, No, p, {}, n, {})
    OBVIOUS
  <1>2. p = Append(q, e)
    BY <1>1
  <1>3. PICK y : y = Sta("IDLE", No, "MM_ESTABLISHED", No, n, 0, No, q, {}, n, {})
    OBVIOUS
  <1>4. gsm411_send_rp_error(y, m) = gsm411_smc_send(y, "DATA_REQ", f)
    BY DEF gsm411_send_rp_error, Refusal
  <1>5. gsm411_smc_send(y, "DATA_REQ", f) = Sta("IDLE", No, "WAIT_CP_ACK", Yes, s, 0, No, p, {}, n, {})
    BY <1>2, <1>3, StoresAndSends
  <1>6. new_rp_state(gsm411_send_rp_error(y, m), "IDLE") = Sta("IDLE", No, "WAIT_CP_ACK", Yes, s, 0, No, p, {}, n, {})
    BY <1>4, <1>5, RpIdleSta
  <1> QED BY <1>3, <1>6 DEF Refuse

\* A message comes with a new connection (gsm411_mmsms_cp_data).
LEMMA ArrivesFirst ==
  ASSUME NEW e
  PROVE  \E y : /\ y = Sta("IDLE", No, "MM_ESTABLISHED", No, <<>>, 0, No, <<Cp("CP_ACK", None)>>, {}, <<>>, {})
                /\ gsm411_smc_recv(At("IDLE", "IDLE", <<>>, 0, No), "EST_IND", e) = gsm411_mnsms_est_ind(y, e.rp)
  <1> DEFINE a == Cp("CP_ACK", None)
             x == At("IDLE", "IDLE", <<>>, 0, No)
  <1>1. x = Sta("IDLE", No, "IDLE", No, <<>>, 0, No, <<>>, {}, <<>>, {})
    BY DEF At, Now
  <1> HIDE DEF x, a
  <1>2. x.cp = "IDLE"
    BY <1>1 DEF Sta
  <1>3. PICK z : z = [x EXCEPT !.cp = "MM_ESTABLISHED", !.rel = FALSE]
    OBVIOUS
  <1>4. z = Sta("IDLE", No, "MM_ESTABLISHED", No, <<>>, 0, No, <<>>, {}, <<>>, {})
    BY <1>1, <1>3 DEF Sta, No
  <1>5. PICK y : y = mm_send(z, "DATA_REQ", a)
    OBVIOUS
  <1>6. y = Sta("IDLE", No, "MM_ESTABLISHED", No, <<>>, 0, No, <<a>>, {}, <<>>, {})
    BY <1>4, <1>5, SendsFirst
  <1>7. y.rp = "IDLE"
    BY <1>6 DEF Sta
  <1>8. gsm411_smc_recv(x, "EST_IND", e) = gsm411_mmsms_cp_data(x, e.rp)
    BY <1>2 DEF gsm411_smc_recv
  <1>9. gsm411_mmsms_cp_data(x, e.rp) = gsm411_smr_recv(y, "EST_IND", e.rp)
    BY <1>2, <1>3, <1>5 DEF gsm411_mmsms_cp_data, a
  <1>10. gsm411_smr_recv(y, "EST_IND", e.rp) = gsm411_mnsms_est_ind(y, e.rp)
    BY <1>7 DEF gsm411_smr_recv
  <1> QED BY <1>6, <1>8, <1>9, <1>10 DEF x, a

\* The user is told of the message (gsm411_mnsms_est_ind).
LEMMA ArrivesData ==
  ASSUME NEW e, e.rp.t = "DATA"
  PROVE  gsm411_smc_recv(At("IDLE", "IDLE", <<>>, 0, No), "EST_IND", e) =
           Now("WAIT_TO_TX_RP_ACK", "MM_ESTABLISHED", <<>>, 0, No, <<Cp("CP_ACK", None)>>, {}, {e.rp})
  <1> DEFINE a == Cp("CP_ACK", None)
             m == e.rp
             n == Now("WAIT_TO_TX_RP_ACK", "MM_ESTABLISHED", <<>>, 0, No, <<a>>, {}, {m})
  <1>1. n = Sta("WAIT_TO_TX_RP_ACK", Yes, "MM_ESTABLISHED", No, <<>>, 0, No, <<a>>, {}, <<>>, {m})
    BY DEF Now
  <1>2. PICK y : /\ y = Sta("IDLE", No, "MM_ESTABLISHED", No, <<>>, 0, No, <<a>>, {}, <<>>, {})
                 /\ gsm411_smc_recv(At("IDLE", "IDLE", <<>>, 0, No), "EST_IND", e) = gsm411_mnsms_est_ind(y, m)
    BY ArrivesFirst
  <1> HIDE DEF a, n
  <1>3. PICK z : z = [y EXCEPT !.rp = "WAIT_TO_TX_RP_ACK", !.rpt = TRUE]
    OBVIOUS
  <1>4. z = Sta("WAIT_TO_TX_RP_ACK", Yes, "MM_ESTABLISHED", No, <<>>, 0, No, <<a>>, {}, <<>>, {})
    BY <1>2, <1>3 DEF Sta, Yes
  <1>5. gsm411_mnsms_est_ind(y, m) = rl_recv(z, "DATA_IND", m)
    BY <1>3 DEF gsm411_mnsms_est_ind
  <1> HIDE DEF m
  <1>6. rl_recv(z, "DATA_IND", m) = n
    <2>1. PICK q : q = {}
      OBVIOUS
    <2>2. z = Sta("WAIT_TO_TX_RP_ACK", Yes, "MM_ESTABLISHED", No, <<>>, 0, No, <<a>>, {}, <<>>, q)
      BY <1>4, <2>1
    <2>3. PICK p : p = {m}
      OBVIOUS
    <2>4. p = q \cup {m}
      BY <2>1, <2>3
    <2>5. n = Sta("WAIT_TO_TX_RP_ACK", Yes, "MM_ESTABLISHED", No, <<>>, 0, No, <<a>>, {}, <<>>, p)
      BY <1>1, <2>3
    <2> QED BY <2>2, <2>4, <2>5, TellsData
  <1> QED BY <1>2, <1>5, <1>6 DEF n, a, m

\* A message of another kind is refused, and the connection is released only when
\* it went the wrong way (gsm411_mnsms_est_ind).
LEMMA ArrivesStrange ==
  ASSUME NEW e, e.rp.t \in {"WRONG_WAY", "OTHER"}
  PROVE  gsm411_smc_recv(At("IDLE", "IDLE", <<>>, 0, No), "EST_IND", e) =
           Now("IDLE", "WAIT_CP_ACK", <<Refusal(e.rp)>>, 0, IF e.rp.t = "WRONG_WAY" THEN Yes ELSE No,
               <<Cp("CP_ACK", None), Cp("CP_DATA", Refusal(e.rp))>>, {}, {})
  <1> DEFINE a == Cp("CP_ACK", None)
             m == e.rp
             msg == <<Refusal(m)>>
             d == <<a, Cp("CP_DATA", Refusal(m))>>
             rel == IF m.t = "WRONG_WAY" THEN Yes ELSE No
             n == Now("IDLE", "WAIT_CP_ACK", msg, 0, rel, d, {}, {})
  <1>1. n = Sta("IDLE", No, "WAIT_CP_ACK", Yes, msg, 0, rel, d, {}, <<>>, {})
    BY DEF Now
  <1>2. PICK y : /\ y = Sta("IDLE", No, "MM_ESTABLISHED", No, <<>>, 0, No, <<a>>, {}, <<>>, {})
                 /\ gsm411_smc_recv(At("IDLE", "IDLE", <<>>, 0, No), "EST_IND", e) = gsm411_mnsms_est_ind(y, m)
    BY ArrivesFirst
  <1>3. Refuse(y, m) = Sta("IDLE", No, "WAIT_CP_ACK", Yes, msg, 0, No, d, {}, <<>>, {})
    BY <1>2, Refuses
  <1> HIDE DEF msg, d, n
  <1>4. CASE m.t = "WRONG_WAY"
    <2>1. gsm411_mnsms_est_ind(y, m) = gsm411_send_release(Refuse(y, m))
      BY <1>4 DEF gsm411_mnsms_est_ind
    <2>2. gsm411_send_release(Refuse(y, m)) = Sta("IDLE", No, "WAIT_CP_ACK", Yes, msg, 0, Yes, d, {}, <<>>, {})
      BY <1>3, ReleaseLater
    <2>3. rel = Yes
      BY <1>4
    <2> QED BY <1>1, <1>2, <2>1, <2>2, <2>3 DEF n, msg, d
  <1>5. CASE m.t = "OTHER"
    <2>1. gsm411_mnsms_est_ind(y, m) = Refuse(y, m)
      BY <1>5 DEF gsm411_mnsms_est_ind
    <2>2. rel = No
      BY <1>5
    <2> QED BY <1>1, <1>2, <1>3, <2>1, <2>2 DEF n, msg, d
  <1> QED BY <1>4, <1>5

-----------------------------------------------------------------------------
(* The two stations.                                                       *)

\* A step is over.
LEMMA BegunNow ==
  ASSUME NEW rp, NEW cp, NEW msg, NEW r, NEW rel, NEW data, NEW asks, NEW inds
  PROVE  LET x == Now(rp, cp, msg, r, rel, data, asks, inds) IN
         /\ Begun(x) = At(rp, cp, msg, r, rel)
         /\ x.data = data /\ x.asks = asks /\ x.reps = <<>> /\ x.inds = inds
  <1> DEFINE rpt == IF rp = "IDLE" THEN No ELSE Yes
             cpt == IF cp = "WAIT_CP_ACK" THEN Yes ELSE No
  <1> SUFFICES ASSUME NEW x, x = Sta(rp, rpt, cp, cpt, msg, r, rel, data, asks, <<>>, inds)
               PROVE  /\ Begun(x) = Sta(rp, rpt, cp, cpt, msg, r, rel, <<>>, {}, <<>>, {})
                      /\ x.data = data /\ x.asks = asks /\ x.reps = <<>> /\ x.inds = inds
    BY DEF Now, At
  <1> HIDE DEF rpt, cpt
  <1>1. Begun(x) = Sta(rp, rpt, cp, cpt, msg, r, rel, <<>>, {}, <<>>, {})
    BY BegunSta
  <1> QED BY <1>1 DEF Sta

\* See above.
LEMMA BegunEnded ==
  ASSUME NEW data, NEW asks, NEW reps, NEW inds
  PROVE  LET x == Ended(data, asks, reps, inds) IN
         /\ Begun(x) = At("IDLE", "IDLE", <<>>, 0, No)
         /\ x.data = data /\ x.asks = asks /\ x.reps = reps /\ x.inds = inds
  <1> SUFFICES ASSUME NEW x, x = Sta("IDLE", No, "IDLE", No, <<>>, 0, No, data, asks, reps, inds)
               PROVE  /\ Begun(x) = Sta("IDLE", No, "IDLE", No, <<>>, 0, No, <<>>, {}, <<>>, {})
                      /\ x.data = data /\ x.asks = asks /\ x.reps = reps /\ x.inds = inds
    BY DEF Now, At, Ended
  <1>1. Begun(x) = Sta("IDLE", No, "IDLE", No, <<>>, 0, No, <<>>, {}, <<>>, {})
    BY BegunSta
  <1> QED BY <1>1 DEF Sta

\* Messages of a connection.
LEMMA Carried ==
  ASSUME NEW W, NEW D, NEW data \in Seq(D), NEW k, \A m \in D : [k |-> k, m |-> m] \in W
  PROVE  [i \in DOMAIN data |-> [k |-> k, m |-> data[i]]] \in Seq(W)
  OBVIOUS

\* Messages that join others on their way.
LEMMA Joins ==
  ASSUME NEW W, NEW q \in Seq(W), NEW D, NEW x, x.data \in Seq(D), NEW k, NEW b \in Seq(W),
         \A m \in D : [k |-> k, m |-> m] \in W
  PROVE  q \o (Sent(x, k) \o b) \in Seq(W)
  <1>1. Sent(x, k) \in Seq(W)
    BY Carried DEF Sent
  <1>2. Sent(x, k) \o b \in Seq(W)
    BY <1>1
  <1> QED BY <1>2

\* One message, and none.
LEMMA Few ==
  ASSUME NEW D
  PROVE  <<>> \in Seq(D) /\ \A e \in D : <<e>> \in Seq(D)
  OBVIOUS

\* What may be on its way to a station, is on its way to it as well when more is
\* submitted and accepted.
LEMMA StillOnWay ==
  ASSUME NEW b \in Nat, NEW c \in Nat, b <= c, NEW tk, NEW tl, tk \subseteq tl
  PROVE  /\ \A q \in Seq(WayToOne(b, tk)) : q \in Seq(WayToOne(c, tl))
         /\ \A q \in Seq(WayToTwo(b)) : q \in Seq(WayToTwo(c))
  <1>1. 1..b \subseteq 1..c
    OBVIOUS
  <1>2. WayToOne(b, tk) \subseteq WayToOne(c, tl)
    BY <1>1 DEF WayToOne
  <1>3. WayToTwo(b) \subseteq WayToTwo(c)
    BY <1>1 DEF WayToTwo
  <1> QED BY <1>2, <1>3

\* A message of connection k that carries no RP message is in order.
LEMMA PlainOnWay ==
  ASSUME NEW b \in Nat, NEW tk, NEW k \in 1..b, NEW t \in {"CP_ACK", "CP_ERROR", "REL"}
  PROVE  /\ [k |-> k, m |-> Cp(t, None)] \in WayToOne(b, tk)
         /\ [k |-> k, m |-> Cp(t, None)] \in WayToTwo(b)
  <1> DEFINE c == Cp(t, None)
  <1>1. c.type # "CP_DATA"
    BY CpFields
  <1>2. c \in [type : CpTypes, rp : {None} \cup UNION {Ans(i) : i \in 1..b}]
    BY DEF Cp, CpTypes
  <1>3. c \in [type : CpTypes, rp : {None} \cup UNION {Sub(i) : i \in 1..b}]
    BY DEF Cp, CpTypes
  <1> HIDE DEF c
  <1>4. [k |-> k, m |-> c] \in WayToOne(b, tk)
    BY <1>1, <1>2 DEF WayToOne
  <1>5. [k |-> k, m |-> c] \in WayToTwo(b)
    BY <1>1, <1>3 DEF WayToTwo
  <1> QED BY <1>4, <1>5 DEF c

\* One with the message or the answer of its connection is.
LEMMA DataOnWay ==
  ASSUME NEW b \in Nat, NEW tk, NEW k \in 1..b
  PROVE  /\ \A m \in Sub(k) : [k |-> k, m |-> Cp("CP_DATA", m)] \in WayToTwo(b)
         /\ \A m \in Ans(k) : (m.t = "ACK" => k \in tk) => [k |-> k, m |-> Cp("CP_DATA", m)] \in WayToOne(b, tk)
  <1>1. ASSUME NEW m \in Sub(k) PROVE [k |-> k, m |-> Cp("CP_DATA", m)] \in WayToTwo(b)
    <2>1. m \in UNION {Sub(i) : i \in 1..b}
      OBVIOUS
    <2>2. Cp("CP_DATA", m) \in [type : CpTypes, rp : {None} \cup UNION {Sub(i) : i \in 1..b}]
      BY <2>1 DEF Cp, CpTypes
    <2>3. Cp("CP_DATA", m).rp = m
      BY CpFields
    <2> QED BY <2>2, <2>3 DEF WayToTwo
  <1>2. ASSUME NEW m \in Ans(k), m.t = "ACK" => k \in tk PROVE [k |-> k, m |-> Cp("CP_DATA", m)] \in WayToOne(b, tk)
    <2>1. m \in UNION {Ans(i) : i \in 1..b}
      OBVIOUS
    <2>2. Cp("CP_DATA", m) \in [type : CpTypes, rp : {None} \cup UNION {Ans(i) : i \in 1..b}]
      BY <2>1 DEF Cp, CpTypes
    <2>3. Cp("CP_DATA", m).rp = m
      BY CpFields
    <2> QED BY <1>2, <2>2, <2>3 DEF WayToOne
  <1> QED BY <1>1, <1>2

\* Station 1 is done with a step of which it sent what its connection may carry,
\* and told its user nothing, or what is true of the last message.
LEMMA OneTakes ==
  ASSUME IInv, NEW x, NEW k, NEW q \in Seq(WayToOne(subm, taken)), TakeOf(1, x, k, q), UNCHANGED <<subm, taken, loss>>,
         "EST_REQ" \notin x.asks,
         k \in 1..subm \/ (k \in Int /\ k <= 0 /\ ~CarriesData(x)),
         NEW D, x.data \in Seq(D), k \in 1..subm => \A m \in D : [k |-> k, m |-> m] \in WayToTwo(subm),
         \/ x.reps = <<>>
         \/ /\ subm > 0 /\ Len(reports) = subm - 1
            /\ \E m \in [t : {"ACK", "ERROR", "none"}, n : Nat] :
                 x.reps = <<m>> /\ (m.t = "ACK" => m.n = subm /\ subm \in taken),
         OneIs(Begun(x), IF "REL_REQ" \in x.asks THEN 0 ELSE k, Len(reports) + Len(x.reps), subm)
  PROVE  IInv'
  <1> DEFINE rel == "REL_REQ" \in x.asks
             up  == IF k > 0 THEN Sent(x, k) \o (IF rel THEN <<[k |-> k, m |-> Cp("REL", None)]>> ELSE <<>>) ELSE <<>>
             new == [i \in DOMAIN x.reps |-> <<subm, x.reps[i]>>]
  <1>1. /\ Framed /\ TwoIs(st[2], conn[2], ind, subm, taken) /\ subm \in Nat
        /\ ch[2] \in Seq(WayToTwo(subm)) /\ reports \in Seq(Reports) /\ Told(reports, taken)
    BY DEF IInv, Framed
  <1>2. st' = [st EXCEPT ![1] = Begun(x)] /\ conn' = [conn EXCEPT ![1] = IF rel THEN 0 ELSE k] /\ next' = next
    BY DEF TakeOf
  <1>3. ch' = [ch EXCEPT ![1] = IF rel THEN <<>> ELSE q, ![2] = @ \o up]
    BY DEF TakeOf, Peer
  <1>4. ind' = ind /\ reports' = reports \o new
    BY DEF TakeOf
  <1>5. st'[1] = Begun(x) /\ st'[2] = st[2] /\ conn'[1] = (IF rel THEN 0 ELSE k) /\ conn'[2] = conn[2]
    BY <1>1, <1>2 DEF Framed
  <1>6. ch'[1] = (IF rel THEN <<>> ELSE q) /\ ch'[2] = ch[2] \o up
    <2>1. 1 \in DOMAIN ch /\ 2 \in DOMAIN ch
      BY <1>1 DEF Framed
    <2> DEFINE kept == IF rel THEN <<>> ELSE q
    <2>2. ch' = [ch EXCEPT ![1] = kept, ![2] = @ \o up]
      BY <1>3
    <2> HIDE DEF rel, up, kept
    <2>3. ch'[1] = kept /\ ch'[2] = ch[2] \o up
      BY <2>1, <2>2
    <2> QED BY <2>3 DEF kept
  <1>7. early' = FALSE
    <2>1. ~(k <= 0 /\ CarriesData(x))
      OBVIOUS
    <2>2. early' = (early \/ (k <= 0 /\ CarriesData(x)))
      BY Zenon DEF TakeOf
    <2>3. early = FALSE
      BY <1>1 DEF Framed
    <2> QED BY <2>1, <2>2, <2>3, Zenon
  <1>8. Framed'
    BY <1>1, <1>2, <1>3, <1>7 DEF Framed
  <1>9. ch'[2] \in Seq(WayToTwo(subm))
    <2>1. CASE k \in 1..subm
      <3>1. [k |-> k, m |-> Cp("REL", None)] \in WayToTwo(subm)
        BY <1>1, <2>1, PlainOnWay
      <3> DEFINE z == IF rel THEN <<[k |-> k, m |-> Cp("REL", None)]>> ELSE <<>>
      <3>2. up = Sent(x, k) \o z
        BY <2>1
      <3>3. z \in Seq(WayToTwo(subm))
        BY <3>1
      <3>4. x.data \in Seq(D) /\ \A m \in D : [k |-> k, m |-> m] \in WayToTwo(subm)
        BY <2>1
      <3> HIDE DEF up, z
      <3>5. ch[2] \o (Sent(x, k) \o z) \in Seq(WayToTwo(subm))
        BY <1>1, <3>3, <3>4, Joins
      <3> QED BY <1>6, <3>2, <3>5
    <2>2. CASE k \in Int /\ k <= 0
      <3>1. up = <<>>
        BY <2>2
      <3> HIDE DEF up
      <3> QED BY <1>1, <1>6, <3>1
    <2> QED BY <2>1, <2>2
  <1>10. ch'[1] \in Seq(WayToOne(subm, taken))
    BY <1>6
  <1>11. reports' \in Seq(Reports) /\ Told(reports', taken) /\ Len(reports') = Len(reports) + Len(x.reps)
    <2>1. CASE x.reps = <<>>
      <3>1. new = <<>>
        BY <2>1
      <3> HIDE DEF new
      <3>2. reports' = reports /\ Len(x.reps) = 0
        BY <1>1, <1>4, <2>1, <3>1
      <3> QED BY <1>1, <3>2
    <2>2. CASE x.reps # <<>>
      <3>1. PICK m \in [t : {"ACK", "ERROR", "none"}, n : Nat] :
              /\ subm > 0 /\ Len(reports) = subm - 1
              /\ x.reps = <<m>> /\ (m.t = "ACK" => m.n = subm /\ subm \in taken)
        BY <2>2
      <3> DEFINE p == <<subm, m>>
      <3>2. new = <<p>> /\ Len(x.reps) = 1
        BY <3>1
      <3> HIDE DEF new
      <3>3. p \in Reports /\ p[1] = subm /\ p[2] = m
        BY <1>1 DEF Reports
      <3> HIDE DEF p
      <3>4. reports' = Append(reports, p)
        BY <1>1, <1>4, <3>2, <3>3
      <3>5. /\ reports' \in Seq(Reports) /\ Len(reports') = Len(reports) + 1 /\ DOMAIN reports' = 1..subm
            /\ reports'[subm] = p /\ \A i \in 1..(subm - 1) : i \in DOMAIN reports /\ reports'[i] = reports[i]
        BY <1>1, <3>1, <3>3, <3>4
      <3>6. Told(reports', taken)
        BY <1>1, <3>1, <3>3, <3>5 DEF Told
      <3> QED BY <3>2, <3>5, <3>6
    <2> QED BY <2>1, <2>2
  <1>12. OneIs(st'[1], conn'[1], Len(reports'), subm)
    BY <1>5, <1>11
  <1> QED BY <1>1, <1>4, <1>5, <1>8, <1>9, <1>10, <1>11, <1>12 DEF IInv

\* Station 2 is done with a step of which it sent what its connection may carry.
LEMMA TwoTakes ==
  ASSUME IInv, NEW x, NEW k, NEW q \in Seq(WayToTwo(subm)), TakeOf(2, x, k, q), UNCHANGED <<subm, taken, loss>>,
         "EST_REQ" \notin x.asks,
         k \in 1..subm \/ (k = 0 /\ ~CarriesData(x)),
         NEW D, x.data \in Seq(D), k \in 1..subm => \A m \in D : [k |-> k, m |-> m] \in WayToOne(subm, taken),
         NEW i, i = IF x.reps # <<>> THEN {} ELSE ind \cup {m.n : m \in x.inds},
         TwoIs(Begun(x), IF "REL_REQ" \in x.asks THEN 0 ELSE k, i, subm, taken)
  PROVE  IInv'
  <1> DEFINE rel == "REL_REQ" \in x.asks
             up  == IF k > 0 THEN Sent(x, k) \o (IF rel THEN <<[k |-> k, m |-> Cp("REL", None)]>> ELSE <<>>) ELSE <<>>
  <1>1. /\ Framed /\ OneIs(st[1], conn[1], Len(reports), subm) /\ subm \in Nat
        /\ ch[1] \in Seq(WayToOne(subm, taken)) /\ reports \in Seq(Reports) /\ Told(reports, taken)
    BY DEF IInv, Framed
  <1>2. st' = [st EXCEPT ![2] = Begun(x)] /\ conn' = [conn EXCEPT ![2] = IF rel THEN 0 ELSE k] /\ next' = next
    BY DEF TakeOf
  <1>3. ch' = [ch EXCEPT ![2] = IF rel THEN <<>> ELSE q, ![1] = @ \o up]
    BY DEF TakeOf, Peer
  <1>4. ind' = i /\ reports' = reports
    BY DEF TakeOf
  <1>5. st'[2] = Begun(x) /\ st'[1] = st[1] /\ conn'[2] = (IF rel THEN 0 ELSE k) /\ conn'[1] = conn[1]
    BY <1>1, <1>2 DEF Framed
  <1>6. ch'[2] = (IF rel THEN <<>> ELSE q) /\ ch'[1] = ch[1] \o up
    <2>1. 1 \in DOMAIN ch /\ 2 \in DOMAIN ch
      BY <1>1 DEF Framed
    <2> DEFINE kept == IF rel THEN <<>> ELSE q
    <2>2. ch' = [ch EXCEPT ![2] = kept, ![1] = @ \o up]
      BY <1>3
    <2> HIDE DEF rel, up, kept
    <2>3. ch'[2] = kept /\ ch'[1] = ch[1] \o up
      BY <2>1, <2>2
    <2> QED BY <2>3 DEF kept
  <1>7. early' = FALSE
    <2>1. ~(k <= 0 /\ CarriesData(x))
      OBVIOUS
    <2>2. early' = (early \/ (k <= 0 /\ CarriesData(x)))
      BY Zenon DEF TakeOf
    <2>3. early = FALSE
      BY <1>1 DEF Framed
    <2> QED BY <2>1, <2>2, <2>3, Zenon
  <1>8. Framed'
    BY <1>1, <1>2, <1>3, <1>7 DEF Framed
  <1>9. ch'[1] \in Seq(WayToOne(subm, taken))
    <2>1. CASE k \in 1..subm
      <3>1. [k |-> k, m |-> Cp("REL", None)] \in WayToOne(subm, taken)
        BY <1>1, <2>1, PlainOnWay
      <3> DEFINE z == IF rel THEN <<[k |-> k, m |-> Cp("REL", None)]>> ELSE <<>>
      <3>2. up = Sent(x, k) \o z
        BY <2>1
      <3>3. z \in Seq(WayToOne(subm, taken))
        BY <3>1
      <3>4. x.data \in Seq(D) /\ \A m \in D : [k |-> k, m |-> m] \in WayToOne(subm, taken)
        BY <2>1
      <3> HIDE DEF up, z
      <3>5. ch[1] \o (Sent(x, k) \o z) \in Seq(WayToOne(subm, taken))
        BY <1>1, <3>3, <3>4, Joins
      <3> QED BY <1>6, <3>2, <3>5
    <2>2. CASE k = 0
      <3>1. up = <<>>
        BY <2>2
      <3> HIDE DEF up
      <3> QED BY <1>1, <1>6, <3>1
    <2> QED BY <2>1, <2>2
  <1>10. ch'[2] \in Seq(WayToTwo(subm))
    BY <1>6
  <1>11. TwoIs(st'[2], conn'[2], ind', subm, taken)
    BY <1>4, <1>5
  <1> QED BY <1>1, <1>4, <1>5, <1>8, <1>9, <1>10, <1>11 DEF IInv

\* What is on its way.
LEMMA OnWay ==
  ASSUME NEW b \in Nat, NEW tk
  PROVE  /\ \A e \in WayToOne(b, tk) :
              /\ e.k \in 1..b /\ e.m.type \in CpTypes
              /\ e.m.type = "CP_DATA" => e.m.rp \in Ans(e.k) /\ (e.m.rp.t = "ACK" => e.k \in tk)
         /\ \A e \in WayToTwo(b) :
              e.k \in 1..b /\ e.m.type \in CpTypes /\ (e.m.type = "CP_DATA" => e.m.rp \in Sub(e.k))
  BY DEF WayToOne, WayToTwo

\* Station 1 with a connection.
LEMMA OneConnected ==
  ASSUME NEW x, NEW b \in Nat, NEW c \in 1..b, NEW n, OneIs(x, c, n, b)
  PROVE  /\ c = b /\ b > 0 /\ n = b - 1
         /\ \/ \E m \in Sub(b), r \in 0..MaxRetr : x = At("WAIT_FOR_RP_ACK", "WAIT_CP_ACK", <<m>>, r, No)
            \/ \E r \in 0..MaxRetr : x = At("WAIT_FOR_RP_ACK", "MM_ESTABLISHED", <<>>, r, No)
  <1>1. c # 0 /\ c # -b
    OBVIOUS
  <1> QED BY <1>1 DEF OneIs

\* Station 1 ends its transaction with a report.
LEMMA OneEnds ==
  ASSUME IInv, NEW data, NEW asks \in {{}, {"REL_REQ"}}, NEW m \in [t : {"ACK", "ERROR", "none"}, n : Nat],
         m.t = "ACK" => m.n = subm /\ subm \in taken, subm > 0, Len(reports) = subm - 1,
         NEW k, NEW q \in Seq(WayToOne(subm, taken)), UNCHANGED <<subm, taken, loss>>,
         TakeOf(1, Ended(data, asks, <<m>>, {}), k, q),
         \/ k \in 1..subm /\ data \in Seq({Cp("CP_ERROR", None), Cp("CP_ACK", None)})
         \/ k \in Int /\ k <= 0 /\ data \in Seq({Cp("CP_ERROR", None)}),
         asks = {"REL_REQ"} \/ k = 0
  PROVE  IInv'
  <1> DEFINE D == {Cp("CP_ERROR", None), Cp("CP_ACK", None)}
             reps == <<m>>
  <1>1. PICK x : x = Ended(data, asks, reps, {})
    OBVIOUS
  <1>2. TakeOf(1, x, k, q)
    BY <1>1
  <1>3. /\ Begun(x) = At("IDLE", "IDLE", <<>>, 0, No)
        /\ x.data = data /\ x.asks = asks /\ x.reps = reps
    BY <1>1, BegunEnded
  <1>4. subm \in Nat
    BY DEF IInv, Framed
  <1>5. "EST_REQ" \notin x.asks /\ ("REL_REQ" \in x.asks \/ k = 0)
    BY <1>3
  <1>6. x.data \in Seq(D)
    BY <1>3
  <1>7. k \in 1..subm => \A e \in D : [k |-> k, m |-> e] \in WayToTwo(subm)
    BY <1>4, PlainOnWay
  <1>8. k \in 1..subm \/ (k \in Int /\ k <= 0 /\ ~CarriesData(x))
    <2>1. CASE k \in Int /\ k <= 0 /\ data \in Seq({Cp("CP_ERROR", None)})
      <3>1. \A i \in DOMAIN data : data[i] = Cp("CP_ERROR", None)
        BY <2>1
      <3>2. \A i \in DOMAIN data : data[i].type = "CP_ERROR"
        BY <3>1, CpFields
      <3> QED BY <1>3, <2>1, <3>2 DEF CarriesData
    <2> QED BY <2>1
  <1>9. x.reps = <<m>> /\ Len(x.reps) = 1
    BY <1>3
  <1>10. OneIs(Begun(x), IF "REL_REQ" \in x.asks THEN 0 ELSE k, Len(reports) + Len(x.reps), subm)
    <2>1. Len(reports) + Len(x.reps) = subm /\ (IF "REL_REQ" \in x.asks THEN 0 ELSE k) = 0
      BY <1>4, <1>5, <1>9
    <2>2. OneIs(At("IDLE", "IDLE", <<>>, 0, No), 0, subm, subm)
      BY DEF OneIs
    <2> QED BY <1>3, <2>1, <2>2
  <1> HIDE DEF D, reps
  <1> QED BY <1>2, <1>5, <1>6, <1>7, <1>8, <1>9, <1>10, OneTakes

\* Station 1 goes on, with the messages data sent and the state it has now.
LEMMA OneGoesOn ==
  ASSUME IInv, NEW cp, NEW msg, NEW r, NEW data, NEW q \in Seq(WayToOne(subm, taken)), UNCHANGED <<subm, taken, loss>>,
         subm > 0, TakeOf(1, Now("WAIT_FOR_RP_ACK", cp, msg, r, No, data, {}, {}), subm, q),
         data = <<>> \/ \E m \in Sub(subm) : data = <<Cp("CP_DATA", m)>>,
         OneIs(At("WAIT_FOR_RP_ACK", cp, msg, r, No), subm, Len(reports), subm)
  PROVE  IInv'
  <1> DEFINE D == {Cp("CP_DATA", m) : m \in Sub(subm)}
  <1>1. PICK x : x = Now("WAIT_FOR_RP_ACK", cp, msg, r, No, data, {}, {})
    OBVIOUS
  <1>2. TakeOf(1, x, subm, q)
    BY <1>1
  <1>3. /\ Begun(x) = At("WAIT_FOR_RP_ACK", cp, msg, r, No)
        /\ x.data = data /\ x.asks = {} /\ x.reps = <<>>
    BY <1>1, BegunNow
  <1>4. subm \in Nat /\ subm \in 1..subm /\ reports \in Seq(Reports)
    BY DEF IInv, Framed
  <1>5. "EST_REQ" \notin x.asks /\ "REL_REQ" \notin x.asks
    BY <1>3
  <1>6. data \in Seq(D)
    <2>1. data = <<>> \/ \E e \in D : data = <<e>>
      OBVIOUS
    <2> HIDE DEF D
    <2> QED BY <2>1, Few
  <1>7. \A e \in D : [k |-> subm, m |-> e] \in WayToTwo(subm)
    BY <1>4, DataOnWay
  <1>8. Len(reports) + Len(x.reps) = Len(reports)
    BY <1>3, <1>4
  <1>9. OneIs(Begun(x), IF "REL_REQ" \in x.asks THEN 0 ELSE subm, Len(reports) + Len(x.reps), subm)
    BY <1>3, <1>5, <1>8
  <1> HIDE DEF D
  <1> QED BY <1>2, <1>3, <1>4, <1>5, <1>6, <1>7, <1>9, OneTakes

\* Station 2 ends its transaction.
LEMMA TwoEnds ==
  ASSUME IInv, NEW data, NEW asks \in {{}, {"REL_REQ"}}, NEW reps, reps # <<>> \/ ind = {},
         NEW k, NEW q \in Seq(WayToTwo(subm)), UNCHANGED <<subm, taken, loss>>,
         TakeOf(2, Ended(data, asks, reps, {}), k, q),
         \/ k \in 1..subm /\ asks = {"REL_REQ"} /\ data \in Seq({Cp("CP_ERROR", None)})
         \/ k = 0 /\ data = <<>>
  PROVE  IInv'
  <1> DEFINE D == {Cp("CP_ERROR", None)}
  <1>1. PICK x : x = Ended(data, asks, reps, {})
    OBVIOUS
  <1>2. TakeOf(2, x, k, q)
    BY <1>1
  <1>3. /\ Begun(x) = At("IDLE", "IDLE", <<>>, 0, No)
        /\ x.data = data /\ x.asks = asks /\ x.reps = reps /\ x.inds = {}
    BY <1>1, BegunEnded
  <1>4. subm \in Nat
    BY DEF IInv, Framed
  <1>5. "EST_REQ" \notin x.asks /\ ("REL_REQ" \in x.asks \/ k = 0)
    BY <1>3
  <1>6. x.data \in Seq(D)
    <2>1. <<>> \in Seq(D)
      OBVIOUS
    <2> QED BY <1>3, <2>1
  <1>7. k \in 1..subm => \A e \in D : [k |-> k, m |-> e] \in WayToOne(subm, taken)
    BY <1>4, PlainOnWay
  <1>8. k \in 1..subm \/ (k = 0 /\ ~CarriesData(x))
    BY <1>3 DEF CarriesData
  <1>9. PICK i : i = IF x.reps # <<>> THEN {} ELSE ind \cup {m.n : m \in x.inds}
    OBVIOUS
  <1>10. i = {}
    BY <1>3, <1>9
  <1>11. TwoIs(Begun(x), IF "REL_REQ" \in x.asks THEN 0 ELSE k, i, subm, taken)
    BY <1>3, <1>5, <1>10 DEF TwoIs
  <1> HIDE DEF D
  <1> QED BY <1>2, <1>5, <1>6, <1>7, <1>8, <1>9, <1>11, TwoTakes

\* Station 2 goes on, with the messages data sent and the state it has now.
LEMMA TwoGoesOn ==
  ASSUME IInv, NEW rp, NEW cp, NEW msg, NEW r, NEW rel, NEW data, NEW inds,
         NEW k \in 1..subm, NEW q \in Seq(WayToTwo(subm)), UNCHANGED <<subm, taken, loss>>,
         TakeOf(2, Now(rp, cp, msg, r, rel, data, {}, inds), k, q),
         NEW D, data \in Seq(D), \A e \in D : [k |-> k, m |-> e] \in WayToOne(subm, taken),
         NEW i, i = ind \cup {m.n : m \in inds},
         TwoIs(At(rp, cp, msg, r, rel), k, i, subm, taken)
  PROVE  IInv'
  <1>1. PICK x : x = Now(rp, cp, msg, r, rel, data, {}, inds)
    OBVIOUS
  <1>2. TakeOf(2, x, k, q)
    BY <1>1
  <1>3. /\ Begun(x) = At(rp, cp, msg, r, rel)
        /\ x.data = data /\ x.asks = {} /\ x.reps = <<>> /\ x.inds = inds
    BY <1>1, BegunNow
  <1>4. "EST_REQ" \notin x.asks /\ "REL_REQ" \notin x.asks
    BY <1>3
  <1>5. i = IF x.reps # <<>> THEN {} ELSE ind \cup {m.n : m \in x.inds}
    BY <1>3
  <1>6. TwoIs(Begun(x), IF "REL_REQ" \in x.asks THEN 0 ELSE k, i, subm, taken)
    BY <1>3, <1>4
  <1>7. x.data \in Seq(D)
    BY <1>3
  <1> QED BY <1>2, <1>4, <1>5, <1>6, <1>7, TwoTakes

\* The word to the user of a station that waits.
LEMMA WordOf ==
  ASSUME NEW rp \in RpStates
  PROVE  /\ rp # "IDLE" => Word(rp) = <<None>> /\ Word(rp) # <<>>
         /\ None \in [t : {"ACK", "ERROR", "none"}, n : Nat] /\ None.t # "ACK"
  BY DEF Word, None

-----------------------------------------------------------------------------
(* The steps.                                                              *)

\* Station 1 gets a message of its connection.
LEMMA OneGets ==
  ASSUME IInv, Destroy, NEW e \in WayToOne(subm, taken), NEW q \in Seq(WayToOne(subm, taken)),
         UNCHANGED <<subm, taken, loss>>, e.k = conn[1], e.m.type # "REL",
         TakeOf(1, gsm411_smc_recv(st[1], "DATA_IND", e.m), e.k, q)
  PROVE  IInv'
  <1> DEFINE k == e.k
             c == e.m
             w == "WAIT_FOR_RP_ACK"
             ce == <<Cp("CP_ERROR", None)>>
             ca == <<Cp("CP_ACK", None)>>
  <1>1. subm \in Nat /\ OneIs(st[1], conn[1], Len(reports), subm)
    BY DEF IInv, Framed
  <1>2. /\ k \in 1..subm /\ c.type \in {"CP_DATA", "CP_ACK", "CP_ERROR"}
        /\ c.type = "CP_DATA" => c.rp \in Ans(k) /\ (c.rp.t = "ACK" => k \in taken)
    BY <1>1, OnWay DEF CpTypes
  <1>3. /\ k = subm /\ subm > 0 /\ Len(reports) = subm - 1
        /\ \/ \E m \in Sub(subm), r \in 0..MaxRetr : st[1] = At(w, "WAIT_CP_ACK", <<m>>, r, No)
           \/ \E r \in 0..MaxRetr : st[1] = At(w, "MM_ESTABLISHED", <<>>, r, No)
    BY <1>1, <1>2, OneConnected
  <1>4. w \in RpStates /\ Word(w) = <<None>> /\ None \in [t : {"ACK", "ERROR", "none"}, n : Nat] /\ None.t # "ACK"
    BY WordOf DEF RpStates
  <1>5. PICK y : y = gsm411_smc_recv(st[1], "DATA_IND", c)
    OBVIOUS
  <1>6. TakeOf(1, y, k, q)
    BY <1>5
  <1>7. /\ ce \in Seq({Cp("CP_ERROR", None), Cp("CP_ACK", None)})
        /\ ca \in Seq({Cp("CP_ERROR", None), Cp("CP_ACK", None)})
        /\ <<>> \in Seq({Cp("CP_ERROR", None), Cp("CP_ACK", None)})
    OBVIOUS
  <1> HIDE DEF k, c, w, ce, ca
  <1>8. CASE y = Ended(ce, {"REL_REQ"}, <<None>>, {})
    BY <1>2, <1>3, <1>4, <1>6, <1>7, <1>8, OneEnds
  <1>9. CASE y = Ended(<<>>, {"REL_REQ"}, <<None>>, {})
    BY <1>2, <1>3, <1>4, <1>6, <1>7, <1>9, OneEnds
  <1>10. ASSUME NEW m \in Sub(subm), NEW r \in 0..MaxRetr, st[1] = At(w, "WAIT_CP_ACK", <<m>>, r, No)
         PROVE  IInv'
    <2>1. CASE c.type = "CP_DATA"
      <3>1. y = Ended(ce, {"REL_REQ"}, <<None>>, {})
        BY <1>4, <1>5, <1>10, <2>1, Unexpected DEF ce
      <3> QED BY <1>8, <3>1
    <2>2. CASE c.type = "CP_ERROR"
      <3>1. y = Ended(<<>>, {"REL_REQ"}, <<None>>, {})
        BY <1>4, <1>5, <1>10, <2>2, CpError
      <3> QED BY <1>9, <3>1
    <2>3. CASE c.type = "CP_ACK"
      <3>1. y = At(w, "MM_ESTABLISHED", <<>>, r, No)
        BY <1>5, <1>10, <2>3, CpAck
      <3>2. y = Now("WAIT_FOR_RP_ACK", "MM_ESTABLISHED", <<>>, r, No, <<>>, {}, {})
        BY <3>1 DEF At, w
      <3>3. OneIs(At("WAIT_FOR_RP_ACK", "MM_ESTABLISHED", <<>>, r, No), subm, Len(reports), subm)
        BY <1>3 DEF OneIs
      <3> QED BY <1>3, <1>6, <3>2, <3>3, OneGoesOn
    <2> QED BY <1>2, <2>1, <2>2, <2>3
  <1>11. ASSUME NEW r \in 0..MaxRetr, st[1] = At(w, "MM_ESTABLISHED", <<>>, r, No)
         PROVE  IInv'
    <2>1. CASE c.type = "CP_DATA"
      <3>1. c.rp.t \in {"ACK", "ERROR"} /\ c.rp \in [t : {"ACK", "ERROR", "none"}, n : Nat] /\ c.rp.n = subm
        BY <1>1, <1>2, <1>3, <2>1 DEF Ans
      <3>2. y = Ended(ca, {"REL_REQ"}, <<c.rp>>, {})
        BY <1>5, <1>11, <2>1, <3>1, GetsAnswer DEF ca, w
      <3>3. c.rp.t = "ACK" => c.rp.n = subm /\ subm \in taken
        BY <1>2, <1>3, <2>1, <3>1
      <3>4. PICK m \in [t : {"ACK", "ERROR", "none"}, n : Nat] : m = c.rp
        BY <3>1
      <3> QED BY <1>2, <1>3, <1>6, <1>7, <3>2, <3>3, <3>4, OneEnds
    <2>2. CASE c.type = "CP_ERROR"
      <3>1. y = Ended(<<>>, {"REL_REQ"}, <<None>>, {})
        BY <1>4, <1>5, <1>11, <2>2, CpError
      <3> QED BY <1>9, <3>1
    <2>3. CASE c.type = "CP_ACK"
      <3>1. y = Ended(ce, {"REL_REQ"}, <<None>>, {})
        BY <1>4, <1>5, <1>11, <2>3, Unexpected DEF ce
      <3> QED BY <1>8, <3>1
    <2> QED BY <1>2, <2>1, <2>2, <2>3
  <1> QED BY <1>3, <1>10, <1>11

\* Station 1 is told that its connection is released.
LEMMA OneReleased ==
  ASSUME IInv, Destroy, NEW e \in WayToOne(subm, taken), UNCHANGED <<subm, taken, loss>>, e.k = conn[1],
         TakeOf(1, Destroyed(gsm411_smc_recv(st[1], "REL_IND", e.m)), 0, <<>>)
  PROVE  IInv'
  <1> DEFINE k == e.k
             w == "WAIT_FOR_RP_ACK"
  <1>1. subm \in Nat /\ OneIs(st[1], conn[1], Len(reports), subm)
    BY DEF IInv, Framed
  <1>2. k \in 1..subm
    BY <1>1, OnWay
  <1>3. /\ subm > 0 /\ Len(reports) = subm - 1
        /\ \/ \E m \in Sub(subm), r \in 0..MaxRetr : st[1] = At(w, "WAIT_CP_ACK", <<m>>, r, No)
           \/ \E r \in 0..MaxRetr : st[1] = At(w, "MM_ESTABLISHED", <<>>, r, No)
    BY <1>1, <1>2, OneConnected
  <1>4. w \in RpStates /\ Word(w) = <<None>> /\ None \in [t : {"ACK", "ERROR", "none"}, n : Nat] /\ None.t # "ACK"
    BY WordOf DEF RpStates
  <1>5. PICK y : y = Destroyed(gsm411_smc_recv(st[1], "REL_IND", e.m))
    OBVIOUS
  <1> HIDE DEF w
  <1>6. y = Ended(<<>>, {}, <<None>>, {})
    <2>1. PICK cp, msg, r : cp \in {"WAIT_CP_ACK", "MM_ESTABLISHED"} /\ st[1] = At(w, cp, msg, r, No)
      <3>1. ASSUME NEW m \in Sub(subm), NEW r \in 0..MaxRetr, st[1] = At(w, "WAIT_CP_ACK", <<m>>, r, No)
            PROVE  \E cp, msg, s : cp \in {"WAIT_CP_ACK", "MM_ESTABLISHED"} /\ st[1] = At(w, cp, msg, s, No)
        BY <3>1
      <3>2. ASSUME NEW r \in 0..MaxRetr, st[1] = At(w, "MM_ESTABLISHED", <<>>, r, No)
            PROVE  \E cp, msg, s : cp \in {"WAIT_CP_ACK", "MM_ESTABLISHED"} /\ st[1] = At(w, cp, msg, s, No)
        BY <3>2
      <3> QED BY <1>3, <3>1, <3>2
    <2>2. cp # "IDLE"
      BY <2>1
    <2> QED BY <1>4, <1>5, <2>1, <2>2, RelInd
  <1> DEFINE a == {}
             d == <<>>
             z == 0
  <1>7. TakeOf(1, Ended(d, a, <<None>>, {}), z, d) /\ a \in {{}, {"REL_REQ"}} /\ z \in Int /\ z <= 0 /\ z = 0
    BY <1>5, <1>6
  <1>8. d \in Seq({Cp("CP_ERROR", None)}) /\ d \in Seq(WayToOne(subm, taken))
    BY Few
  <1> HIDE DEF a, d, z
  <1> QED BY <1>3, <1>4, <1>7, <1>8, OneEnds

\* A message is taken from the way and nothing else happens.
LEMMA Skips ==
  ASSUME IInv, NEW s \in 1..2, ch[s] # <<>>, ch' = [ch EXCEPT ![s] = Tail(ch[s])], loss' \in 0..MaxLoss,
         UNCHANGED <<st, conn, next, subm, ind, taken, reports, early>>
  PROVE  IInv'
  <1>1. ch[1] \in Seq(WayToOne(subm, taken)) /\ ch[2] \in Seq(WayToTwo(subm)) /\ Framed
    BY DEF IInv
  <1>2. Framed'
    BY <1>1 DEF Framed
  <1>3. ch'[1] \in Seq(WayToOne(subm, taken)) /\ ch'[2] \in Seq(WayToTwo(subm))
    <2>1. CASE s = 1
      <3>1. ch'[1] = Tail(ch[1]) /\ ch'[2] = ch[2] /\ Tail(ch[1]) \in Seq(WayToOne(subm, taken))
        BY <1>1, <2>1 DEF Framed
      <3> QED BY <1>1, <3>1
    <2>2. CASE s = 2
      <3>1. ch'[2] = Tail(ch[2]) /\ ch'[1] = ch[1] /\ Tail(ch[2]) \in Seq(WayToTwo(subm))
        BY <1>1, <2>2 DEF Framed
      <3> QED BY <1>1, <3>1
    <2> QED BY <2>1, <2>2
  <1> QED BY <1>2, <1>3 DEF IInv

\* A message is delivered to station 1.
LEMMA StepDeliverOne ==
  ASSUME IInv, Destroy, Deliver(1)
  PROVE  IInv'
  <1> DEFINE e == Head(ch[1])
             q == Tail(ch[1])
  <1>1. e \in WayToOne(subm, taken) /\ q \in Seq(WayToOne(subm, taken)) /\ ch[1] # <<>> /\ UNCHANGED <<subm, taken, loss>>
    BY DEF IInv, Deliver
  <1>2. \/ e.k = conn[1] /\ e.m.type # "REL" /\ TakeOf(1, gsm411_smc_recv(st[1], "DATA_IND", e.m), e.k, q)
        \/ e.k = conn[1] /\ TakeOf(1, Destroyed(gsm411_smc_recv(st[1], "REL_IND", e.m)), 0, <<>>)
        \/ ch' = [ch EXCEPT ![1] = q] /\ UNCHANGED <<st, conn, next, ind, reports, early>>
    BY DEF Deliver, Take
  <1>3. loss \in 0..MaxLoss
    BY DEF IInv, Framed
  <1> HIDE DEF e
  <1>4. CASE e.k = conn[1] /\ e.m.type # "REL" /\ TakeOf(1, gsm411_smc_recv(st[1], "DATA_IND", e.m), e.k, q)
    BY <1>1, <1>4, OneGets
  <1>5. CASE e.k = conn[1] /\ TakeOf(1, Destroyed(gsm411_smc_recv(st[1], "REL_IND", e.m)), 0, <<>>)
    BY <1>1, <1>5, OneReleased
  <1>6. CASE ch' = [ch EXCEPT ![1] = q] /\ UNCHANGED <<st, conn, next, ind, reports, early>>
    BY <1>1, <1>3, <1>6, Skips
  <1> QED BY <1>2, <1>4, <1>5, <1>6

\* Station 2 with a connection.
LEMMA TwoConnected ==
  ASSUME NEW x, NEW b \in Nat, NEW c \in 1..b, NEW i, NEW tk, TwoIs(x, c, i, b, tk)
  PROVE  \/ x = At("WAIT_TO_TX_RP_ACK", "MM_ESTABLISHED", <<>>, 0, No) /\ i = {c}
         \/ /\ i = {}
            /\ \E m \in Ans(c), r \in 0..MaxRetr, rel \in {No, Yes} :
                 /\ x = At("IDLE", "WAIT_CP_ACK", <<m>>, r, rel)
                 /\ rel = Yes \/ "OTHER" \in Strange
                 /\ m.t = "ACK" => c \in tk
         \/ /\ i = {} /\ "OTHER" \in Strange
            /\ \E r \in 0..MaxRetr : x = At("IDLE", "MM_ESTABLISHED", <<>>, r, No)
  <1>1. c # 0
    OBVIOUS
  <1> QED BY <1>1 DEF TwoIs

\* Station 2 gets a message of its connection.
LEMMA TwoGets ==
  ASSUME IInv, Destroy, NEW e \in WayToTwo(subm), NEW q \in Seq(WayToTwo(subm)),
         UNCHANGED <<subm, taken, loss>>, e.k = conn[2], e.m.type # "REL",
         TakeOf(2, gsm411_smc_recv(st[2], "DATA_IND", e.m), e.k, q)
  PROVE  IInv'
  <1> DEFINE k == e.k
             c == e.m
             v == "WAIT_TO_TX_RP_ACK"
             z == "IDLE"
             ce == <<Cp("CP_ERROR", None)>>
             ca == <<Cp("CP_ACK", None)>>
             D == {Cp("CP_ACK", None)}
  <1>1. subm \in Nat /\ TwoIs(st[2], conn[2], ind, subm, taken)
    BY DEF IInv, Framed
  <1>2. k \in 1..subm /\ c.type \in {"CP_DATA", "CP_ACK", "CP_ERROR"}
    BY <1>1, OnWay DEF CpTypes
  <1>3. \/ st[2] = At(v, "MM_ESTABLISHED", <<>>, 0, No) /\ ind = {k}
        \/ /\ ind = {}
           /\ \E m \in Ans(k), r \in 0..MaxRetr, rel \in {No, Yes} :
                st[2] = At(z, "WAIT_CP_ACK", <<m>>, r, rel) /\ (rel = Yes \/ "OTHER" \in Strange)
        \/ /\ ind = {} /\ "OTHER" \in Strange
           /\ \E r \in 0..MaxRetr : st[2] = At(z, "MM_ESTABLISHED", <<>>, r, No)
    <2> HIDE DEF k
    <2>1. TwoIs(st[2], k, ind, subm, taken)
      BY <1>1 DEF k
    <2>2. \/ st[2] = At("WAIT_TO_TX_RP_ACK", "MM_ESTABLISHED", <<>>, 0, No) /\ ind = {k}
          \/ /\ ind = {}
             /\ \E m \in Ans(k), r \in 0..MaxRetr, rel \in {No, Yes} :
                  /\ st[2] = At("IDLE", "WAIT_CP_ACK", <<m>>, r, rel)
                  /\ rel = Yes \/ "OTHER" \in Strange
                  /\ m.t = "ACK" => k \in taken
          \/ /\ ind = {} /\ "OTHER" \in Strange
             /\ \E r \in 0..MaxRetr : st[2] = At("IDLE", "MM_ESTABLISHED", <<>>, r, No)
      BY <1>1, <1>2, <2>1, TwoConnected
    <2> QED BY <2>2
  <1>4. v \in RpStates /\ Word(v) # <<>> /\ z \in RpStates /\ v # "WAIT_FOR_RP_ACK" /\ z # "WAIT_FOR_RP_ACK"
    BY WordOf DEF RpStates
  <1>5. PICK y : y = gsm411_smc_recv(st[2], "DATA_IND", c)
    OBVIOUS
  <1>6. TakeOf(2, y, k, q)
    BY <1>5
  <1>7. ce \in Seq({Cp("CP_ERROR", None)}) /\ <<>> \in Seq({Cp("CP_ERROR", None)}) /\ ca \in Seq(D) /\ <<>> \in Seq(D)
    OBVIOUS
  <1>8. \A f \in D : [k |-> k, m |-> f] \in WayToOne(subm, taken)
    BY <1>1, <1>2, PlainOnWay
  <1>9. PICK j : j = ind \cup {m.n : m \in {}}
    OBVIOUS
  <1>10. j = ind
    BY <1>9
  <1> HIDE DEF k, c, v, z, ce, ca, D
  <1>11. ASSUME NEW data \in Seq({Cp("CP_ERROR", None)}), NEW reps, reps # <<>> \/ ind = {},
                y = Ended(data, {"REL_REQ"}, reps, {})
         PROVE  IInv'
    BY <1>2, <1>6, <1>11, TwoEnds
  <1>12. ASSUME NEW rp, NEW r, NEW data \in Seq(D), y = Now(rp, "MM_ESTABLISHED", <<>>, r, No, data, {}, {}),
                TwoIs(At(rp, "MM_ESTABLISHED", <<>>, r, No), k, ind, subm, taken)
         PROVE  IInv'
    BY <1>2, <1>6, <1>8, <1>9, <1>10, <1>12, TwoGoesOn
  <1>13. ASSUME NEW rp \in RpStates, NEW cp, NEW msg, NEW r, NEW rel, st[2] = At(rp, cp, msg, r, rel),
                Word(rp) # <<>> \/ ind = {},
                \/ c.type = "CP_DATA" /\ cp = "WAIT_CP_ACK"
                \/ c.type = "CP_ACK" /\ cp = "MM_ESTABLISHED"
         PROVE  IInv'
    <2>1. y = Ended(ce, {"REL_REQ"}, Word(rp), {})
      BY <1>5, <1>13, Unexpected DEF ce
    <2> QED BY <1>7, <1>11, <1>13, <2>1
  <1>14. ASSUME NEW rp \in RpStates, NEW cp, NEW msg, NEW r, NEW rel, st[2] = At(rp, cp, msg, r, rel),
                Word(rp) # <<>> \/ ind = {}, c.type = "CP_ERROR"
         PROVE  IInv'
    <2>1. y = Ended(<<>>, {"REL_REQ"}, Word(rp), {})
      BY <1>5, <1>14, CpError
    <2> QED BY <1>7, <1>11, <1>14, <2>1
  <1>15. ASSUME NEW rp \in RpStates, rp # "WAIT_FOR_RP_ACK", NEW r, st[2] = At(rp, "MM_ESTABLISHED", <<>>, r, No),
                c.type = "CP_DATA", TwoIs(st[2], k, ind, subm, taken)
         PROVE  IInv'
    <2>1. y = Now(rp, "MM_ESTABLISHED", <<>>, r, No, ca, {}, {})
      BY <1>5, <1>15, GetsAgain DEF ca
    <2> QED BY <1>7, <1>12, <1>15, <2>1
  <1>16. TwoIs(st[2], k, ind, subm, taken)
    BY <1>1 DEF k
  <1>17. CASE st[2] = At(v, "MM_ESTABLISHED", <<>>, 0, No)
    BY <1>2, <1>4, <1>13, <1>14, <1>15, <1>16, <1>17
  <1>18. ASSUME NEW m \in Ans(k), NEW r \in 0..MaxRetr, NEW rel \in {No, Yes},
                st[2] = At(z, "WAIT_CP_ACK", <<m>>, r, rel), rel = Yes \/ "OTHER" \in Strange, ind = {}
         PROVE  IInv'
    <2>1. CASE c.type # "CP_ACK"
      BY <1>2, <1>4, <1>13, <1>14, <1>18, <2>1
    <2>2. CASE c.type = "CP_ACK" /\ rel = No
      <3>1. y = At(z, "MM_ESTABLISHED", <<>>, r, No)
        BY <1>5, <1>18, <2>2, CpAck
      <3>2. y = Now(z, "MM_ESTABLISHED", <<>>, r, No, <<>>, {}, {})
        BY <3>1 DEF At
      <3>3. "OTHER" \in Strange
        BY <1>18, <2>2 DEF No, Yes
      <3>4. TwoIs(At(z, "MM_ESTABLISHED", <<>>, r, No), k, ind, subm, taken)
        BY <1>2, <1>18, <3>3 DEF TwoIs, z
      <3> QED BY <1>7, <1>12, <3>2, <3>4
    <2>3. CASE c.type = "CP_ACK" /\ rel # No
      <3>1. y = Ended(<<>>, {"REL_REQ"}, <<>>, {})
        BY <1>5, <1>18, <2>3, CpAck
      <3> QED BY <1>7, <1>11, <1>18, <3>1
    <2> QED BY <2>1, <2>2, <2>3
  <1>19. ASSUME NEW r \in 0..MaxRetr, st[2] = At(z, "MM_ESTABLISHED", <<>>, r, No), ind = {}
         PROVE  IInv'
    BY <1>2, <1>4, <1>13, <1>14, <1>15, <1>16, <1>19
  <1> QED BY <1>3, <1>17, <1>18, <1>19

\* Station 2 is told that its connection is released.
LEMMA TwoReleased ==
  ASSUME IInv, Destroy, NEW e \in WayToTwo(subm), UNCHANGED <<subm, taken, loss>>, e.k = conn[2],
         TakeOf(2, Destroyed(gsm411_smc_recv(st[2], "REL_IND", e.m)), 0, <<>>)
  PROVE  IInv'
  <1> DEFINE k == e.k
  <1>1. subm \in Nat /\ TwoIs(st[2], conn[2], ind, subm, taken)
    BY DEF IInv, Framed
  <1>2. k \in 1..subm
    BY <1>1, OnWay
  <1>3. PICK rp \in {"IDLE", "WAIT_TO_TX_RP_ACK"}, cp \in {"WAIT_CP_ACK", "MM_ESTABLISHED"} :
          /\ \E msg, r, rel : st[2] = At(rp, cp, msg, r, rel)
          /\ rp = "IDLE" => ind = {}
    <2> HIDE DEF k
    <2>1. TwoIs(st[2], k, ind, subm, taken)
      BY <1>1 DEF k
    <2>2. \/ st[2] = At("WAIT_TO_TX_RP_ACK", "MM_ESTABLISHED", <<>>, 0, No) /\ ind = {k}
          \/ /\ ind = {}
             /\ \E m \in Ans(k), r \in 0..MaxRetr, rel \in {No, Yes} :
                  /\ st[2] = At("IDLE", "WAIT_CP_ACK", <<m>>, r, rel)
                  /\ rel = Yes \/ "OTHER" \in Strange
                  /\ m.t = "ACK" => k \in taken
          \/ /\ ind = {} /\ "OTHER" \in Strange
             /\ \E r \in 0..MaxRetr : st[2] = At("IDLE", "MM_ESTABLISHED", <<>>, r, No)
      BY <1>1, <1>2, <2>1, TwoConnected
    <2> QED BY <2>2
  <1>4. PICK msg, r, rel : st[2] = At(rp, cp, msg, r, rel)
    BY <1>3
  <1>5. rp \in RpStates /\ cp # "IDLE" /\ (Word(rp) # <<>> \/ ind = {})
    BY <1>3, WordOf DEF RpStates
  <1>6. Destroyed(gsm411_smc_recv(st[2], "REL_IND", e.m)) = Ended(<<>>, {}, Word(rp), {})
    BY <1>4, <1>5, RelInd
  <1>7. TakeOf(2, Ended(<<>>, {}, Word(rp), {}), 0, <<>>)
    BY <1>6
  <1>8. <<>> \in Seq(WayToTwo(subm))
    OBVIOUS
  <1> QED BY <1>5, <1>7, <1>8, TwoEnds

\* The first message of a new connection comes to station 2.
LEMMA TwoStarts ==
  ASSUME IInv, NEW e \in WayToTwo(subm), NEW q \in Seq(WayToTwo(subm)),
         UNCHANGED <<subm, taken, loss>>, conn[2] = 0, e.m.type = "CP_DATA",
         TakeOf(2, gsm411_smc_recv(st[2], "EST_IND", e.m), e.k, q)
  PROVE  IInv'
  <1> DEFINE k == e.k
             c == e.m
             f == Refusal(c.rp)
             D == {Cp("CP_ACK", None), Cp("CP_DATA", f)}
             ca == <<Cp("CP_ACK", None)>>
             cd == <<Cp("CP_ACK", None), Cp("CP_DATA", f)>>
  <1>1. subm \in Nat /\ TwoIs(st[2], conn[2], ind, subm, taken)
    BY DEF IInv, Framed
  <1>2. st[2] = At("IDLE", "IDLE", <<>>, 0, No) /\ ind = {}
    BY <1>1 DEF TwoIs
  <1>3. k \in 1..subm /\ c.rp \in Sub(k)
    BY <1>1, OnWay
  <1>4. c.rp.t \in {"DATA", "WRONG_WAY", "OTHER"} /\ c.rp.n = k /\ (c.rp.t = "OTHER" => "OTHER" \in Strange)
    BY <1>3, Sms411LinkAssumption DEF Sub
  <1>5. f \in Ans(k) /\ f.t # "ACK"
    BY <1>4 DEF Refusal, Ans
  <1>6. PICK y : y = gsm411_smc_recv(st[2], "EST_IND", c)
    OBVIOUS
  <1>7. TakeOf(2, y, k, q)
    BY <1>6
  <1>8. ca \in Seq(D) /\ cd \in Seq(D)
    OBVIOUS
  <1> HIDE DEF f
  <1>9. \A m \in D : [k |-> k, m |-> m] \in WayToOne(subm, taken)
    BY <1>1, <1>3, <1>5, PlainOnWay, DataOnWay
  <1> HIDE DEF k, c, ca, cd, D
  <1>10. CASE c.rp.t = "DATA"
    <2>1. y = Now("WAIT_TO_TX_RP_ACK", "MM_ESTABLISHED", <<>>, 0, No, ca, {}, {c.rp})
      BY <1>2, <1>6, <1>10, ArrivesData DEF ca
    <2>2. PICK i : i = ind \cup {m.n : m \in {c.rp}}
      OBVIOUS
    <2>3. i = {k}
      BY <1>2, <1>4, <2>2
    <2>4. TwoIs(At("WAIT_TO_TX_RP_ACK", "MM_ESTABLISHED", <<>>, 0, No), k, i, subm, taken)
      BY <1>3, <2>3 DEF TwoIs
    <2> QED BY <1>3, <1>7, <1>8, <1>9, <2>1, <2>2, <2>4, TwoGoesOn
  <1>11. CASE c.rp.t # "DATA"
    <2> DEFINE rel == IF c.rp.t = "WRONG_WAY" THEN Yes ELSE No
               msg == <<f>>
    <2>1. y = Now("IDLE", "WAIT_CP_ACK", msg, 0, rel, cd, {}, {})
      <3>1. c.rp.t \in {"WRONG_WAY", "OTHER"}
        BY <1>4, <1>11
      <3>2. gsm411_smc_recv(At("IDLE", "IDLE", <<>>, 0, No), "EST_IND", c) =
              Now("IDLE", "WAIT_CP_ACK", <<Refusal(c.rp)>>, 0, rel, <<Cp("CP_ACK", None), Cp("CP_DATA", Refusal(c.rp))>>, {}, {})
        BY <3>1, ArrivesStrange
      <3> QED BY <1>2, <1>6, <3>2 DEF cd, f
    <2>2. PICK i : i = ind \cup {m.n : m \in {}}
      OBVIOUS
    <2>3. i = {}
      BY <1>2, <2>2
    <2>4. rel \in {No, Yes} /\ (rel = Yes \/ "OTHER" \in Strange) /\ 0 \in 0..MaxRetr
      BY <1>4, <1>11, Sms411Assumption
    <2> HIDE DEF rel
    <2>5. TwoIs(At("IDLE", "WAIT_CP_ACK", msg, 0, rel), k, i, subm, taken)
      BY <1>3, <1>5, <2>3, <2>4 DEF TwoIs
    <2> HIDE DEF msg
    <2> QED BY <1>3, <1>7, <1>8, <1>9, <2>1, <2>2, <2>5, TwoGoesOn
  <1> QED BY <1>10, <1>11

\* A message is delivered to station 2.
LEMMA StepDeliverTwo ==
  ASSUME IInv, Destroy, Deliver(2)
  PROVE  IInv'
  <1> DEFINE e == Head(ch[2])
             q == Tail(ch[2])
  <1>1. e \in WayToTwo(subm) /\ q \in Seq(WayToTwo(subm)) /\ ch[2] # <<>> /\ UNCHANGED <<subm, taken, loss>>
    BY DEF IInv, Deliver
  <1>2. \/ e.k = conn[2] /\ e.m.type # "REL" /\ TakeOf(2, gsm411_smc_recv(st[2], "DATA_IND", e.m), e.k, q)
        \/ e.k = conn[2] /\ TakeOf(2, Destroyed(gsm411_smc_recv(st[2], "REL_IND", e.m)), 0, <<>>)
        \/ conn[2] = 0 /\ e.m.type = "CP_DATA" /\ TakeOf(2, gsm411_smc_recv(st[2], "EST_IND", e.m), e.k, q)
        \/ ch' = [ch EXCEPT ![2] = q] /\ UNCHANGED <<st, conn, next, ind, reports, early>>
    BY DEF Deliver, Take
  <1>3. loss \in 0..MaxLoss
    BY DEF IInv, Framed
  <1> HIDE DEF e
  <1>4. CASE e.k = conn[2] /\ e.m.type # "REL" /\ TakeOf(2, gsm411_smc_recv(st[2], "DATA_IND", e.m), e.k, q)
    BY <1>1, <1>4, TwoGets
  <1>5. CASE e.k = conn[2] /\ TakeOf(2, Destroyed(gsm411_smc_recv(st[2], "REL_IND", e.m)), 0, <<>>)
    BY <1>1, <1>5, TwoReleased
  <1>6. CASE conn[2] = 0 /\ e.m.type = "CP_DATA" /\ TakeOf(2, gsm411_smc_recv(st[2], "EST_IND", e.m), e.k, q)
    BY <1>1, <1>6, TwoStarts
  <1>7. CASE ch' = [ch EXCEPT ![2] = q] /\ UNCHANGED <<st, conn, next, ind, reports, early>>
    BY <1>1, <1>3, <1>7, Skips
  <1> QED BY <1>2, <1>4, <1>5, <1>6, <1>7

\* The timers of a station between two steps.
LEMMA AtTimers ==
  ASSUME NEW rp, NEW cp, NEW msg, NEW r, NEW rel
  PROVE  /\ At(rp, cp, msg, r, rel).rpt => rp # "IDLE"
         /\ At(rp, cp, msg, r, rel).cpt => cp = "WAIT_CP_ACK"
  <1> DEFINE rpt == IF rp = "IDLE" THEN No ELSE Yes
             cpt == IF cp = "WAIT_CP_ACK" THEN Yes ELSE No
  <1>1. At(rp, cp, msg, r, rel).rpt = rpt /\ At(rp, cp, msg, r, rel).cpt = cpt
    BY DEF At, Now, Sta
  <1>2. (rp = "IDLE" => rpt = FALSE) /\ (cp # "WAIT_CP_ACK" => cpt = FALSE)
    BY DEF No
  <1> QED BY <1>1, <1>2

\* The timers of station 1.
LEMMA StepTimersOne ==
  ASSUME IInv, Destroy, CpTimer(1) \/ RpTimer(1)
  PROVE  IInv'
  <1> DEFINE w == "WAIT_FOR_RP_ACK"
             ce == <<Cp("CP_ERROR", None)>>
  <1>1. /\ subm \in Nat /\ OneIs(st[1], conn[1], Len(reports), subm) /\ ch[1] \in Seq(WayToOne(subm, taken))
        /\ UNCHANGED <<subm, taken, loss>>
    BY DEF IInv, Framed, CpTimer, RpTimer
  <1>2. w \in RpStates /\ w # "IDLE" /\ Word(w) = <<None>> /\ None \in [t : {"ACK", "ERROR", "none"}, n : Nat] /\ None.t # "ACK"
    BY WordOf DEF RpStates
  <1>3. /\ <<>> \in Seq({Cp("CP_ERROR", None)}) /\ <<>> \in Seq({Cp("CP_ERROR", None), Cp("CP_ACK", None)})
        /\ ce \in Seq({Cp("CP_ERROR", None)}) /\ ce \in Seq({Cp("CP_ERROR", None), Cp("CP_ACK", None)})
    OBVIOUS
  <1> HIDE DEF w, ce
  <1>4. CASE CpTimer(1)
    <2>1. st[1].cpt /\ TakeOf(1, cp_timer_expired(st[1]), conn[1], ch[1])
      BY <1>4 DEF CpTimer, Take
    <2>2. /\ subm > 0 /\ conn[1] = subm /\ Len(reports) = subm - 1
          /\ \E m \in Sub(subm), r \in 0..MaxRetr : st[1] = At(w, "WAIT_CP_ACK", <<m>>, r, No)
      BY <1>1, <2>1, AtTimers DEF OneIs, w
    <2>3. PICK m \in Sub(subm), r \in 0..MaxRetr : st[1] = At(w, "WAIT_CP_ACK", <<m>>, r, No)
      BY <2>2
    <2>4. CASE r = MaxRetr
      <3>1. cp_timer_expired(st[1]) = Ended(<<>>, {"REL_REQ"}, <<None>>, {})
        BY <1>2, <2>3, <2>4, CpExpires
      <3>2. TakeOf(1, Ended(<<>>, {"REL_REQ"}, <<None>>, {}), subm, ch[1])
        BY <2>1, <2>2, <3>1
      <3>3. subm \in 1..subm
        BY <1>1, <2>2
      <3> QED BY <1>1, <1>2, <1>3, <2>2, <3>2, <3>3, OneEnds
    <2>5. CASE r # MaxRetr
      <3> DEFINE d == <<Cp("CP_DATA", m)>>
                 msg == <<m>>
      <3>1. cp_timer_expired(st[1]) = Now(w, "WAIT_CP_ACK", msg, r + 1, No, d, {}, {})
        BY <1>2, <2>3, <2>5, CpExpires
      <3>2. TakeOf(1, Now("WAIT_FOR_RP_ACK", "WAIT_CP_ACK", msg, r + 1, No, d, {}, {}), subm, ch[1])
        BY <2>1, <2>2, <3>1 DEF w
      <3>3. r + 1 \in 0..MaxRetr
        BY <2>3, <2>5, Sms411Assumption
      <3>4. OneIs(At("WAIT_FOR_RP_ACK", "WAIT_CP_ACK", msg, r + 1, No), subm, Len(reports), subm)
        BY <2>2, <2>3, <3>3 DEF OneIs
      <3>5. \E n \in Sub(subm) : d = <<Cp("CP_DATA", n)>>
        BY <2>3
      <3> HIDE DEF d, msg
      <3> QED BY <1>1, <2>2, <3>2, <3>4, <3>5, OneGoesOn
    <2> QED BY <2>4, <2>5
  <1>5. CASE RpTimer(1)
    <2>1. st[1].rpt /\ TakeOf(1, rp_timer_expired(st[1]), conn[1], ch[1])
      BY <1>5 DEF RpTimer, Take
    <2>2. /\ subm > 0 /\ conn[1] \in {subm, -subm} /\ Len(reports) = subm - 1
          /\ \E cp \in {"MM_CONN_PENDING", "WAIT_CP_ACK", "MM_ESTABLISHED"} : \E msg, r : st[1] = At(w, cp, msg, r, No)
      BY <1>1, <2>1, AtTimers DEF OneIs, w
    <2>3. PICK cp \in {"MM_CONN_PENDING", "WAIT_CP_ACK", "MM_ESTABLISHED"} : \E msg, r : st[1] = At(w, cp, msg, r, No)
      BY <2>2
    <2>4. PICK msg, r : st[1] = At(w, cp, msg, r, No)
      BY <2>3
    <2>5. rp_timer_expired(st[1]) = Ended(ce, {"REL_REQ"}, <<None>>, {})
      BY <2>3, <2>4, RpExpires DEF ce
    <2>6. PICK k : k = conn[1]
      OBVIOUS
    <2>7. TakeOf(1, Ended(ce, {"REL_REQ"}, <<None>>, {}), k, ch[1])
      BY <2>1, <2>5, <2>6
    <2>8. k \in 1..subm \/ (k \in Int /\ k <= 0)
      BY <1>1, <2>2, <2>6
    <2> QED BY <1>1, <1>2, <1>3, <2>2, <2>7, <2>8, OneEnds
  <1> QED BY <1>4, <1>5

\* The timers of station 2.
LEMMA StepTimersTwo ==
  ASSUME IInv, Destroy, CpTimer(2) \/ RpTimer(2)
  PROVE  IInv'
  <1> DEFINE ce == <<Cp("CP_ERROR", None)>>
             z == "IDLE"
  <1>1. /\ subm \in Nat /\ TwoIs(st[2], conn[2], ind, subm, taken) /\ ch[2] \in Seq(WayToTwo(subm))
        /\ UNCHANGED <<subm, taken, loss>>
    BY DEF IInv, Framed, CpTimer, RpTimer
  <1>2. ce \in Seq({Cp("CP_ERROR", None)}) /\ <<>> \in Seq({Cp("CP_ERROR", None)}) /\ z \in RpStates
    BY DEF RpStates
  <1> HIDE DEF ce, z
  <1>3. CASE CpTimer(2)
    <2>1. st[2].cpt /\ TakeOf(2, cp_timer_expired(st[2]), conn[2], ch[2])
      BY <1>3 DEF CpTimer, Take
    <2>2. /\ conn[2] \in 1..subm /\ ind = {}
          /\ \E m \in Ans(conn[2]), r \in 0..MaxRetr, rel \in {No, Yes} :
               /\ st[2] = At(z, "WAIT_CP_ACK", <<m>>, r, rel)
               /\ rel = Yes \/ "OTHER" \in Strange
               /\ m.t = "ACK" => conn[2] \in taken
      BY <1>1, <2>1, AtTimers DEF TwoIs, z
    <2>3. PICK k \in 1..subm : k = conn[2]
      BY <2>2
    <2>4. PICK m \in Ans(k), r \in 0..MaxRetr, rel \in {No, Yes} :
            /\ st[2] = At(z, "WAIT_CP_ACK", <<m>>, r, rel)
            /\ rel = Yes \/ "OTHER" \in Strange
            /\ m.t = "ACK" => k \in taken
      BY <2>2, <2>3
    <2>5. CASE r = MaxRetr
      <3>1. cp_timer_expired(st[2]) = Ended(<<>>, {"REL_REQ"}, Word(z), {})
        BY <1>2, <2>4, <2>5, CpExpires
      <3>2. TakeOf(2, Ended(<<>>, {"REL_REQ"}, Word(z), {}), k, ch[2])
        BY <2>1, <2>3, <3>1
      <3> QED BY <1>1, <1>2, <2>2, <3>2, TwoEnds
    <2>6. CASE r # MaxRetr
      <3> DEFINE d == <<Cp("CP_DATA", m)>>
                 D == {Cp("CP_DATA", m)}
                 msg == <<m>>
      <3>1. cp_timer_expired(st[2]) = Now(z, "WAIT_CP_ACK", msg, r + 1, rel, d, {}, {})
        BY <1>2, <2>4, <2>6, CpExpires
      <3>2. TakeOf(2, Now(z, "WAIT_CP_ACK", msg, r + 1, rel, d, {}, {}), k, ch[2])
        BY <2>1, <2>3, <3>1
      <3>3. r + 1 \in 0..MaxRetr
        BY <2>4, <2>6, Sms411Assumption
      <3>4. d \in Seq(D)
        OBVIOUS
      <3>5. \A f \in D : [k |-> k, m |-> f] \in WayToOne(subm, taken)
        BY <1>1, <2>4, DataOnWay
      <3>6. PICK i : i = ind \cup {n.n : n \in {}}
        OBVIOUS
      <3>7. i = {}
        BY <2>2, <3>6
      <3>8. TwoIs(At(z, "WAIT_CP_ACK", msg, r + 1, rel), k, i, subm, taken)
        BY <2>4, <3>3, <3>7 DEF TwoIs, z
      <3> HIDE DEF d, D, msg
      <3> QED BY <1>1, <3>2, <3>4, <3>5, <3>6, <3>8, TwoGoesOn
    <2> QED BY <2>5, <2>6
  <1>4. CASE RpTimer(2)
    <2>1. st[2].rpt /\ TakeOf(2, rp_timer_expired(st[2]), conn[2], ch[2])
      BY <1>4 DEF RpTimer, Take
    <2>2. conn[2] \in 1..subm /\ st[2] = At("WAIT_TO_TX_RP_ACK", "MM_ESTABLISHED", <<>>, 0, No)
      BY <1>1, <2>1, AtTimers DEF TwoIs
    <2>3. PICK k \in 1..subm : k = conn[2]
      BY <2>2
    <2>4. rp_timer_expired(st[2]) = Ended(ce, {"REL_REQ"}, <<None>>, {})
      BY <2>2, RpExpires DEF ce
    <2>5. TakeOf(2, Ended(ce, {"REL_REQ"}, <<None>>, {}), k, ch[2])
      BY <2>1, <2>3, <2>4
    <2>6. <<None>> # <<>>
      OBVIOUS
    <2> QED BY <1>1, <1>2, <2>5, <2>6, TwoEnds
  <1> QED BY <1>3, <1>4

\* The connection of station 1 is there.
LEMMA StepEstCnf ==
  ASSUME IInv, EstCnf
  PROVE  IInv'
  <1>1. /\ subm \in Nat /\ OneIs(st[1], conn[1], Len(reports), subm) /\ ch[1] \in Seq(WayToOne(subm, taken))
        /\ UNCHANGED <<subm, taken, loss>> /\ conn[1] < 0
        /\ TakeOf(1, gsm411_smc_recv(st[1], "EST_CNF", Cp("none", None)), -conn[1], ch[1])
    BY DEF IInv, Framed, EstCnf, Take
  <1>2. /\ subm > 0 /\ Len(reports) = subm - 1 /\ conn[1] = -subm
        /\ \E m \in Sub(subm) : st[1] = At("WAIT_FOR_RP_ACK", "MM_CONN_PENDING", <<m>>, 0, No)
    BY <1>1 DEF OneIs
  <1>3. PICK m \in Sub(subm) : st[1] = At("WAIT_FOR_RP_ACK", "MM_CONN_PENDING", <<m>>, 0, No)
    BY <1>2
  <1> DEFINE d == <<Cp("CP_DATA", m)>>
             msg == <<m>>
  <1>4. gsm411_smc_recv(st[1], "EST_CNF", Cp("none", None)) = Now("WAIT_FOR_RP_ACK", "WAIT_CP_ACK", msg, 0, No, d, {}, {})
    BY <1>3, Establishes
  <1>5. -conn[1] = subm
    BY <1>1, <1>2
  <1>6. TakeOf(1, Now("WAIT_FOR_RP_ACK", "WAIT_CP_ACK", msg, 0, No, d, {}, {}), subm, ch[1])
    BY <1>1, <1>4, <1>5
  <1>7. OneIs(At("WAIT_FOR_RP_ACK", "WAIT_CP_ACK", msg, 0, No), subm, Len(reports), subm)
    <2>1. 0 \in 0..MaxRetr
      BY Sms411Assumption
    <2> QED BY <1>2, <1>3, <2>1 DEF OneIs
  <1>8. \E n \in Sub(subm) : d = <<Cp("CP_DATA", n)>>
    BY <1>3
  <1> HIDE DEF d, msg
  <1> QED BY <1>1, <1>2, <1>6, <1>7, <1>8, OneGoesOn

\* The MM layer loses a message, or the connection.
LEMMA StepLosses ==
  ASSUME IInv, (\E s \in 1..2 : Lose(s)) \/ Drop
  PROVE  IInv'
  <1>1. CASE \E s \in 1..2 : Lose(s)
    <2>1. PICK s \in 1..2 : Lose(s)
      BY <1>1
    <2>2. /\ ch[s] # <<>> /\ ch' = [ch EXCEPT ![s] = Tail(ch[s])]
          /\ UNCHANGED <<st, conn, next, subm, ind, taken, reports, early>>
      BY <2>1 DEF Lose
    <2>3. loss' \in 0..MaxLoss
      BY <2>1, Sms411LinkAssumption DEF Lose, IInv, Framed
    <2> QED BY <2>2, <2>3, Skips
  <1>2. CASE Drop
    <2>1. /\ Framed /\ subm \in Nat /\ OneIs(st[1], conn[1], Len(reports), subm) /\ conn[1] > 0
          /\ UNCHANGED <<st, conn, next, subm, ind, taken, reports, early>>
          /\ ch' = [s \in 1..2 |-> <<[k |-> conn[1], m |-> Cp("REL", None)]>>]
      BY <1>2 DEF Drop, IInv, Framed
    <2>2. conn[1] \in 1..subm
      BY <2>1 DEF OneIs
    <2>3. loss' \in 0..MaxLoss
      BY <1>2, Sms411LinkAssumption DEF Drop, IInv, Framed
    <2> DEFINE e == [k |-> conn[1], m |-> Cp("REL", None)]
    <2>4. e \in WayToOne(subm, taken) /\ e \in WayToTwo(subm)
      BY <2>1, <2>2, PlainOnWay
    <2>5. ch'[1] = <<e>> /\ ch'[2] = <<e>> /\ DOMAIN ch' = 1..2
      BY <2>1
    <2> HIDE DEF e
    <2>6. ch'[1] \in Seq(WayToOne(subm, taken)) /\ ch'[2] \in Seq(WayToTwo(subm))
      BY <2>4, <2>5
    <2>7. Framed'
      BY <2>1, <2>3, <2>5 DEF Framed
    <2> QED BY <2>1, <2>6, <2>7 DEF IInv
  <1> QED BY <1>1, <1>2

\* What holds of the stations and of the reports still holds when more is
\* submitted and accepted.
LEMMA StillIs ==
  ASSUME NEW b \in Nat, NEW c \in Nat, b <= c, NEW tk, NEW tl, tk \subseteq tl
  PROVE  /\ \A x, n, i : TwoIs(x, n, i, b, tk) => TwoIs(x, n, i, c, tl)
         /\ \A q : Told(q, tk) => Told(q, tl)
  <1>1. 1..b \subseteq 1..c
    OBVIOUS
  <1>2. ASSUME NEW x, NEW n, NEW i, TwoIs(x, n, i, b, tk) PROVE TwoIs(x, n, i, c, tl)
    <2>1. CASE n \in 1..b
      <3>1. n \in 1..c
        BY <1>1, <2>1
      <3>2. CASE x = At("WAIT_TO_TX_RP_ACK", "MM_ESTABLISHED", <<>>, 0, No) /\ i = {n}
        BY <3>1, <3>2 DEF TwoIs
      <3>3. ASSUME i = {}, NEW m \in Ans(n), NEW r \in 0..MaxRetr, NEW rel \in {No, Yes},
                   x = At("IDLE", "WAIT_CP_ACK", <<m>>, r, rel), rel = Yes \/ "OTHER" \in Strange, m.t = "ACK" => n \in tk
            PROVE  TwoIs(x, n, i, c, tl)
        <4>1. m.t = "ACK" => n \in tl
          BY <3>3
        <4> QED BY <3>1, <3>3, <4>1 DEF TwoIs
      <3>4. CASE i = {} /\ "OTHER" \in Strange /\ \E r \in 0..MaxRetr : x = At("IDLE", "MM_ESTABLISHED", <<>>, r, No)
        BY <3>1, <3>4 DEF TwoIs
      <3> QED BY <1>2, <2>1, <3>2, <3>3, <3>4, TwoConnected
    <2>2. CASE n \notin 1..b
      BY <1>2, <2>2 DEF TwoIs
    <2> QED BY <2>1, <2>2
  <1>3. ASSUME NEW q, Told(q, tk) PROVE Told(q, tl)
    BY <1>3 DEF Told
  <1> QED BY <1>2, <1>3

\* The user submits a message.
LEMMA StepSubmit ==
  ASSUME IInv, Submit
  PROVE  IInv'
  <1> DEFINE b == subm + 1
             w == "WAIT_FOR_RP_ACK"
  <1>1. /\ Framed /\ subm \in Nat /\ OneIs(st[1], conn[1], Len(reports), subm) /\ TwoIs(st[2], conn[2], ind, subm, taken)
        /\ ch[1] \in Seq(WayToOne(subm, taken)) /\ ch[2] \in Seq(WayToTwo(subm))
        /\ reports \in Seq(Reports) /\ Told(reports, taken)
    BY DEF IInv, Framed
  <1>2. PICK t \in {"DATA"} \cup Strange :
          /\ subm < MaxSubmit /\ subm' = b /\ conn[1] = 0 /\ UNCHANGED <<taken, loss>>
          /\ TakeOf(1, gsm411_smr_send(st[1], "DATA_REQ", [t |-> t, n |-> b]), conn[1], ch[1])
    BY DEF Submit, Take
  <1>3. PICK m \in Sub(b) : m = [t |-> t, n |-> b]
    BY DEF Sub
  <1>4. st[1] = At("IDLE", "IDLE", <<>>, 0, No) /\ conn[1] = 0 /\ Len(reports) = subm
    BY <1>1, <1>2 DEF OneIs
  <1> DEFINE msg == <<m>>
             a == {"EST_REQ"}
             d == <<>>
  <1>5. PICK x : x = Now(w, "MM_CONN_PENDING", msg, 0, No, d, a, {})
    OBVIOUS
  <1>6. gsm411_smr_send(st[1], "DATA_REQ", m) = x
    BY <1>4, <1>5, Submits
  <1>7. TakeOf(1, x, 0, ch[1])
    BY <1>2, <1>3, <1>4, <1>6
  <1>8. "EST_REQ" \in a /\ "REL_REQ" \notin a
    OBVIOUS
  <1> HIDE DEF a
  <1>9. Begun(x) = At(w, "MM_CONN_PENDING", msg, 0, No) /\ x.data = d /\ x.asks = a /\ x.reps = d
    BY <1>5, BegunNow
  <1>10. /\ st' = [st EXCEPT ![1] = Begun(x)] /\ conn' = [conn EXCEPT ![1] = -next] /\ next' = next + 1 /\ ind' = ind
         /\ ch' = [ch EXCEPT ![1] = ch[1], ![2] = @ \o <<>>]
         /\ reports' = reports \o [i \in DOMAIN x.reps |-> <<subm, x.reps[i]>>]
    BY <1>7, <1>8, <1>9 DEF TakeOf, Peer
  <1>11. early' = FALSE
    <2>1. ~(0 <= 0 /\ CarriesData(x))
      BY <1>9 DEF CarriesData
    <2>2. early' = (early \/ (0 <= 0 /\ CarriesData(x)))
      BY <1>7, Zenon DEF TakeOf
    <2>3. early = FALSE
      BY <1>1 DEF Framed
    <2> QED BY <2>1, <2>2, <2>3, Zenon
  <1>12. /\ st'[1] = At(w, "MM_CONN_PENDING", msg, 0, No) /\ st'[2] = st[2] /\ conn'[1] = -b /\ conn'[2] = conn[2]
         /\ DOMAIN st' = 1..2 /\ DOMAIN conn' = 1..2
    BY <1>1, <1>9, <1>10 DEF Framed
  <1>13. ch'[1] = ch[1] /\ ch'[2] = ch[2] /\ DOMAIN ch' = 1..2
    BY <1>1, <1>10 DEF Framed
  <1>14. reports' = reports
    <2> DEFINE more == [i \in DOMAIN x.reps |-> <<subm, x.reps[i]>>]
    <2>1. more = <<>>
      BY <1>9
    <2> HIDE DEF more
    <2>2. reports' = reports \o more
      BY <1>10 DEF more
    <2> QED BY <1>1, <2>1, <2>2
  <1>15. b \in Nat /\ subm <= b /\ b > 0 /\ b - 1 = subm
    BY <1>1
  <1>16. Framed'
    <2>1. b \in 0..MaxSubmit /\ 1..subm \subseteq 1..b
      BY <1>1, <1>2, Sms411LinkAssumption
    <2> QED BY <1>1, <1>2, <1>10, <1>11, <1>12, <1>13, <2>1 DEF Framed
  <1> HIDE DEF b
  <1>17. ch[1] \in Seq(WayToOne(b, taken)) /\ ch[2] \in Seq(WayToTwo(b))
    BY <1>1, <1>15, StillOnWay
  <1>18. TwoIs(st[2], conn[2], ind, b, taken)
    BY <1>1, <1>15, StillIs
  <1>19. OneIs(st'[1], conn'[1], Len(reports'), b)
    <2>1. OneIs(At("WAIT_FOR_RP_ACK", "MM_CONN_PENDING", <<m>>, 0, No), -b, subm, b)
      BY <1>15 DEF OneIs
    <2> QED BY <1>4, <1>12, <1>14, <2>1
  <1> QED BY <1>1, <1>2, <1>10, <1>12, <1>13, <1>14, <1>16, <1>17, <1>18, <1>19 DEF IInv

\* The user of station 2 answers.
LEMMA StepAnswer ==
  ASSUME IInv, Answer
  PROVE  IInv'
  <1>1. /\ Framed /\ subm \in Nat /\ OneIs(st[1], conn[1], Len(reports), subm) /\ TwoIs(st[2], conn[2], ind, subm, taken)
        /\ ch[1] \in Seq(WayToOne(subm, taken)) /\ ch[2] \in Seq(WayToTwo(subm))
        /\ reports \in Seq(Reports) /\ Told(reports, taken) /\ taken \subseteq 1..subm
    BY DEF IInv, Framed
  <1>2. PICK n \in ind, t \in {"ACK", "ERROR"} :
          \E x \in {gsm411_smr_send(st[2], "REPORT_REQ", [t |-> t, n |-> n])} :
            /\ st' = [st EXCEPT ![2] = Begun(x)] /\ conn' = [conn EXCEPT ![2] = IF "REL_REQ" \in x.asks THEN 0 ELSE @]
            /\ ch' = [ch EXCEPT ![1] = @ \o (IF conn[2] > 0 THEN Sent(x, conn[2]) ELSE <<>>)]
            /\ ind' = ind \ {n} /\ taken' = IF t = "ACK" THEN taken \cup {n} ELSE taken
            /\ early' = (early \/ (conn[2] <= 0 /\ CarriesData(x)))
            /\ UNCHANGED <<next, subm, reports, loss>>
    BY Zenon DEF Answer
  <1>3. PICK x : x = gsm411_smr_send(st[2], "REPORT_REQ", [t |-> t, n |-> n])
    OBVIOUS
  <1>4. /\ st' = [st EXCEPT ![2] = Begun(x)] /\ conn' = [conn EXCEPT ![2] = IF "REL_REQ" \in x.asks THEN 0 ELSE @]
        /\ ch' = [ch EXCEPT ![1] = @ \o (IF conn[2] > 0 THEN Sent(x, conn[2]) ELSE <<>>)]
        /\ ind' = ind \ {n} /\ taken' = (IF t = "ACK" THEN taken \cup {n} ELSE taken)
        /\ UNCHANGED <<next, subm, reports, loss>>
    BY <1>2, <1>3
  <1>5. early' = (early \/ (conn[2] <= 0 /\ CarriesData(x)))
    BY <1>2, <1>3, Zenon
  <1>6. n \in 1..subm /\ conn[2] = n /\ ind = {n} /\ st[2] = At("WAIT_TO_TX_RP_ACK", "MM_ESTABLISHED", <<>>, 0, No)
    BY <1>1, <1>2 DEF TwoIs
  <1>7. PICK m \in Ans(n) : m = [t |-> t, n |-> n]
    BY DEF Ans
  <1> DEFINE z == "IDLE"
             msg == <<m>>
             d == <<Cp("CP_DATA", m)>>
             D == {Cp("CP_DATA", m)}
  <1>8. x = Now(z, "WAIT_CP_ACK", msg, 0, Yes, d, {}, {})
    BY <1>3, <1>6, <1>7, Answers
  <1>9. Begun(x) = At(z, "WAIT_CP_ACK", msg, 0, Yes) /\ x.data = d /\ x.asks = {}
    BY <1>8, BegunNow
  <1>10. taken \subseteq taken' /\ taken' \subseteq 1..subm /\ (m.t = "ACK" => n \in taken')
    BY <1>1, <1>4, <1>6, <1>7
  <1>11. early' = FALSE
    <2>1. ~(conn[2] <= 0 /\ CarriesData(x))
      BY <1>1, <1>6
    <2>2. early = FALSE
      BY <1>1 DEF Framed
    <2> QED BY <1>5, <2>1, <2>2, Zenon
  <1>12. /\ st'[2] = At(z, "WAIT_CP_ACK", msg, 0, Yes) /\ st'[1] = st[1] /\ conn'[1] = conn[1] /\ conn'[2] = n
         /\ DOMAIN st' = 1..2 /\ DOMAIN conn' = 1..2
    <2>1. "REL_REQ" \notin x.asks
      BY <1>9
    <2> QED BY <1>1, <1>4, <1>6, <1>9, <2>1 DEF Framed
  <1>13. ch'[1] = ch[1] \o Sent(x, n) /\ ch'[2] = ch[2] /\ DOMAIN ch' = 1..2
    BY <1>1, <1>4, <1>6 DEF Framed
  <1>14. ch[1] \in Seq(WayToOne(subm, taken')) /\ Told(reports, taken')
    <2>1. PICK tl : tl = taken'
      OBVIOUS
    <2>2. taken \subseteq tl /\ subm <= subm
      BY <1>1, <1>10, <2>1
    <2>3. ch[1] \in Seq(WayToOne(subm, tl))
      BY <1>1, <2>2, StillOnWay
    <2>4. Told(reports, tl)
      BY <1>1, <2>2, StillIs
    <2> QED BY <2>1, <2>3, <2>4
  <1>15. ch'[1] \in Seq(WayToOne(subm, taken'))
    <2>1. x.data \in Seq(D)
      BY <1>9
    <2>2. \A e \in D : [k |-> n, m |-> e] \in WayToOne(subm, taken')
      <3>1. PICK tl : tl = taken'
        OBVIOUS
      <3>2. [k |-> n, m |-> Cp("CP_DATA", m)] \in WayToOne(subm, tl)
        BY <1>1, <1>6, <1>10, <3>1, DataOnWay
      <3> QED BY <3>1, <3>2
    <2> HIDE DEF D
    <2>3. Sent(x, n) \in Seq(WayToOne(subm, taken'))
      BY <2>1, <2>2, Carried DEF Sent
    <2> QED BY <1>13, <1>14, <2>3
  <1>16. TwoIs(st'[2], conn'[2], ind', subm, taken')
    <2>1. ind' = {} /\ 0 \in 0..MaxRetr
      BY <1>4, <1>6, Sms411Assumption
    <2>2. PICK tl : tl = taken'
      OBVIOUS
    <2>3. TwoIs(At("IDLE", "WAIT_CP_ACK", <<m>>, 0, Yes), n, {}, subm, tl)
      BY <1>6, <1>10, <2>1, <2>2 DEF TwoIs
    <2> QED BY <1>12, <2>1, <2>2, <2>3
  <1>17. Framed'
    BY <1>1, <1>4, <1>10, <1>11, <1>12, <1>13 DEF Framed
  <1> QED BY <1>1, <1>4, <1>12, <1>13, <1>14, <1>15, <1>16, <1>17 DEF IInv

-----------------------------------------------------------------------------
(* The theorems.                                                           *)

\* Both stations begin without a transaction.
LEMMA Begins ==
  ASSUME Init
  PROVE  IInv
  <1>1. Fresh = At("IDLE", "IDLE", <<>>, 0, No)
    <2>1. SUFFICES ASSUME NEW x, x = Fresh PROVE x = Sta("IDLE", No, "IDLE", No, <<>>, 0, No, <<>>, {}, <<>>, {})
      BY DEF At, Now
    <2> QED BY <2>1 DEF Fresh, Sta, No
  <1>2. st[1] = Fresh /\ st[2] = Fresh /\ conn[1] = 0 /\ conn[2] = 0 /\ ch[1] = <<>> /\ ch[2] = <<>>
    BY DEF Init
  <1>3. subm = 0 /\ ind = {} /\ taken = {} /\ reports = <<>>
    BY DEF Init
  <1>4. Framed
    BY Sms411LinkAssumption DEF Init, Framed
  <1>5. OneIs(st[1], conn[1], Len(reports), subm)
    <2>1. Len(reports) = 0
      BY <1>3
    <2> QED BY <1>1, <1>2, <1>3, <2>1 DEF OneIs
  <1>6. TwoIs(st[2], conn[2], ind, subm, taken)
    BY <1>1, <1>2, <1>3 DEF TwoIs
  <1>7. ch[1] \in Seq(WayToOne(subm, taken)) /\ ch[2] \in Seq(WayToTwo(subm)) /\ reports \in Seq(Reports)
    BY <1>2, <1>3, Few
  <1>8. Told(reports, taken)
    BY <1>3 DEF Told
  <1> QED BY <1>4, <1>5, <1>6, <1>7, <1>8 DEF IInv

\* Every step keeps the invariant.
LEMMA Stays ==
  ASSUME IInv, Destroy, [Next]_vars
  PROVE  IInv'
  <1>1. CASE UNCHANGED vars
    BY <1>1 DEF vars, IInv, Framed
  <1>2. CASE Submit
    BY <1>2, StepSubmit
  <1>3. CASE Answer
    BY <1>3, StepAnswer
  <1>4. CASE EstCnf
    BY <1>4, StepEstCnf
  <1>5. CASE Drop
    BY <1>5, StepLosses
  <1>6. ASSUME NEW s \in 1..2, Deliver(s) \/ CpTimer(s) \/ RpTimer(s) \/ Lose(s)
        PROVE  IInv'
    <2>1. CASE Lose(s)
      BY <2>1, StepLosses
    <2>2. CASE s = 1
      BY <1>6, <2>1, <2>2, StepDeliverOne, StepTimersOne
    <2>3. CASE s = 2
      BY <1>6, <2>1, <2>3, StepDeliverTwo, StepTimersTwo
    <2> QED BY <2>2, <2>3
  <1> QED BY <1>1, <1>2, <1>3, <1>4, <1>5, <1>6 DEF Next

\* The invariant holds throughout, when a station is destroyed with its
\* connection (gsm0411_smc.c, "may destroy").
LEMMA Always ==
  ASSUME Destroy
  PROVE  Spec => []IInv
  <1>1. Init => IInv
    BY Begins
  <1>2. IInv /\ [Next]_vars => IInv'
    BY Stays
  <1> QED BY <1>1, <1>2, PTL DEF Spec

\* The station of the invariant is a sound one.
Sound(x) ==
  /\ x.retx \in 0..MaxRetr /\ ~x.never /\ ~x.late
  /\ x.msg # <<>> => x.cp \in {"MM_CONN_PENDING", "WAIT_CP_ACK"}
  /\ x.cp = "WAIT_CP_ACK" => x.cpt /\ x.msg # <<>>
  /\ x.rp = "IDLE" /\ x.cp # "IDLE" => x.rel \/ "OTHER" \in Strange

\* See above.
LEMMA SoundAt ==
  ASSUME NEW rp, NEW cp, NEW msg, NEW r \in 0..MaxRetr, NEW rel,
         cp = "WAIT_CP_ACK" => msg # <<>>, msg # <<>> => cp \in {"MM_CONN_PENDING", "WAIT_CP_ACK"},
         rp # "IDLE" \/ cp = "IDLE" \/ rel = Yes \/ "OTHER" \in Strange
  PROVE  Sound(At(rp, cp, msg, r, rel))
  <1>1. PICK x : x = At(rp, cp, msg, r, rel)
    OBVIOUS
  <1>2. x.rp = rp /\ x.cp = cp /\ x.msg = msg /\ x.retx = r /\ x.rel = rel
    BY <1>1 DEF At, Now, Sta
  <1>3. x.never = FALSE /\ x.late = FALSE /\ (cp = "WAIT_CP_ACK" => x.cpt = TRUE)
    BY <1>1 DEF At, Now, Sta, Yes
  <1>4. rel = Yes => x.rel
    BY <1>2 DEF Yes
  <1> QED BY <1>1, <1>2, <1>3, <1>4 DEF Sound

\* Both stations are.
LEMMA BothSound ==
  ASSUME IInv
  PROVE  \A s \in 1..2 : Sound(st[s])
  <1>1. subm \in Nat /\ OneIs(st[1], conn[1], Len(reports), subm) /\ TwoIs(st[2], conn[2], ind, subm, taken)
    BY DEF IInv, Framed
  <1>2. 0 \in 0..MaxRetr /\ \A m : <<m>> # <<>>
    BY Sms411Assumption
  <1>3. Sound(At("IDLE", "IDLE", <<>>, 0, No))
    BY <1>2, SoundAt
  <1>4. \A m, r : r \in 0..MaxRetr => Sound(At("WAIT_FOR_RP_ACK", "MM_CONN_PENDING", <<m>>, r, No))
    BY <1>2, SoundAt
  <1>5. \A m, r : r \in 0..MaxRetr => Sound(At("WAIT_FOR_RP_ACK", "WAIT_CP_ACK", <<m>>, r, No))
    BY <1>2, SoundAt
  <1>6. \A r \in 0..MaxRetr : Sound(At("WAIT_FOR_RP_ACK", "MM_ESTABLISHED", <<>>, r, No))
    BY SoundAt
  <1>7. Sound(At("WAIT_TO_TX_RP_ACK", "MM_ESTABLISHED", <<>>, 0, No))
    BY <1>2, SoundAt
  <1>8. \A m, r, rel : r \in 0..MaxRetr /\ (rel = Yes \/ "OTHER" \in Strange)
                         => Sound(At("IDLE", "WAIT_CP_ACK", <<m>>, r, rel))
    BY <1>2, SoundAt
  <1>9. "OTHER" \in Strange => \A r \in 0..MaxRetr : Sound(At("IDLE", "MM_ESTABLISHED", <<>>, r, No))
    BY SoundAt
  <1>10. Sound(st[1])
    BY <1>1, <1>2, <1>3, <1>4, <1>5, <1>6 DEF OneIs
  <1>11. Sound(st[2])
    BY <1>1, <1>3, <1>7, <1>8, <1>9 DEF TwoIs
  <1> QED BY <1>10, <1>11

\* The user is told of every message once, and as acknowledged only when the other
\* user accepted that message, whatever is lost, sent again or late
\* (rl_recv, gsm411_mnsms_data_ind_tx, cp_timer_expired, rp_timer_expired).
THEOREM ReportsAreTrue ==
  ASSUME Destroy
  PROVE  Spec => []ReportsTrue
  <1>1. IInv => ReportsTrue
    <2> SUFFICES ASSUME IInv PROVE ReportsTrue
      OBVIOUS
    <2>1. subm \in 0..MaxSubmit /\ taken \subseteq 1..subm /\ loss \in 0..MaxLoss /\ Told(reports, taken)
      BY DEF IInv, Framed
    <2>2. TypeOK
      <3>1. taken \subseteq 1..MaxSubmit
        BY <2>1, Sms411LinkAssumption
      <3> QED BY <2>1, <3>1, BothSound DEF TypeOK, Sound
    <2>3. Genuine
      BY <2>1 DEF Genuine, Told
    <2>4. Once
      BY <2>1 DEF Once, Told
    <2> QED BY <2>2, <2>3, <2>4 DEF ReportsTrue
  <1> QED BY <1>1, Always, PTL

\* What "should never happen" does not, and nothing is sent before the connection
\* is there or after the request to release it, whatever kinds of RP messages come
\* (gsm411_mmsms_est_cnf, gsm411_mnsms_data_req, mm_send).
THEOREM NothingAmiss ==
  ASSUME Destroy
  PROVE  Spec => [](NeverHappens /\ Connected /\ LastThing)
  <1>1. IInv => NeverHappens /\ Connected /\ LastThing
    BY BothSound DEF IInv, Framed, Connected, NeverHappens, LastThing, Sound
  <1> QED BY <1>1, Always, PTL

\* And no connection is left behind by an SMR without a transaction, unless RP
\* messages of another kind come, whose connection gsm411_mnsms_est_ind leaves.
THEOREM StaysOrderly ==
  ASSUME Destroy, "OTHER" \notin Strange
  PROVE  Spec => []Orderly
  <1>1. IInv => NoneLeft
    BY BothSound DEF NoneLeft, Sound
  <1> QED BY <1>1, Always, NothingAmiss, PTL DEF Orderly

=============================================================================
