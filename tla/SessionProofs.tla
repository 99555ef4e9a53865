--------------------------- MODULE SessionProofs ---------------------------
(***************************************************************************)
(* Session: type correctness, message ownership, freedom from faults,      *)
(* uniqueness of the reported ids, and that no short message is lost, for  *)
(* any number of messages, any bounds and any number of input files.       *)
(***************************************************************************)
EXTENDS Session, TLAPS

-----------------------------------------------------------------------------
(* The invariant, on the components of a world.                            *)

Distinct(q) == \A i, j \in 1..Len(q) : q[i] = q[j] => i = j

Listed(ss) == Elems(ss[CS].msgs) \cup Elems(ss[PS].msgs)

\* The two lists hold each live message but those of extra, once.
Owned(ss, lv, extra) ==
  /\ lv = Listed(ss) \cup extra
  /\ extra \cap Listed(ss) = {}
  /\ Elems(ss[CS].msgs) \cap Elems(ss[PS].msgs) = {}
  /\ \A d \in Domain : Distinct(ss[d].msgs)

\* Ids in use are distinct and not yet reported; ids below s_id may be used up.
IdsOK(ss, sid, rs) ==
  /\ \A d \in Domain : ss[d].id <= sid
  /\ ss[CS].id # ss[PS].id
  /\ \A i \in 1..Len(rs) : rs[i].id < sid
  /\ \A i \in 1..Len(rs) : \A d \in Domain : rs[i].id # ss[d].id
  /\ \A i, j \in 1..Len(rs) : rs[i].id = rs[j].id => i = j

\* What the step that began in the current state owes the session of domain
\* d: it still goes on with its short messages, or it has been written.
SmsKept(i, j) == (i.started => j.started) /\ Elems(i.sms) \subseteq Elems(j.sms)

Written(rs, d) ==
  \E k \in 1..Len(rs) : /\ k > Len(rows)
                        /\ rs[k].id = s[d].id /\ rs[k].domain = d
                        /\ Elems(s[d].sms) \subseteq Elems(rs[k].sms)

Carried(ss, rs) ==
  /\ Len(rows) \in Nat /\ Len(rows) <= Len(rs)
  /\ \A d \in Domain : s[d].started => \/ ss[d].id = s[d].id /\ SmsKept(s[d], ss[d])
                                       \/ Written(rs, d)

Common(w) ==
  /\ w \in World
  /\ w.faults = {}
  /\ w.live \cap lost = {}
  /\ \A d \in Domain : w.s[d].closed = FALSE
  /\ IdsOK(w.s, w.s_id, w.rows)
  /\ Carried(w.s, w.rows)

\* The message being handled belongs to the step ...
Held(w) ==
  /\ Common(w)
  /\ w.m \in Msg
  /\ Owned(w.s, w.live, {w.m})
  /\ w.s[CS].new_msg = w.m
  /\ w.s[PS].new_msg \in {w.m, NULL}

\* (at first both sessions point to it)
Both(w) == Held(w) /\ w.s[PS].new_msg = w.m

\* ... or there is none, or a release has freed it.
Gone(w) ==
  /\ Common(w)
  /\ Owned(w.s, w.live, {})
  /\ w.s[CS].new_msg = NULL

\* The inductive invariant.  _s[PS].new_msg is not constrained: it dangles.
IInv ==
  /\ TypeOK
  /\ faults = {}
  /\ live \cap lost = {}
  /\ \A d \in Domain : s[d].closed = FALSE
  /\ IdsOK(s, s_id, rows)
  /\ Owned(s, live, {})
  /\ s[CS].new_msg = NULL
  /\ ~open => live = {} /\ \A d \in Domain : s[d].started = FALSE

-----------------------------------------------------------------------------
(* Sequences.                                                              *)

\* Appending adds one element and keeps the entries distinct when it is new.
LEMMA ElemsAppend ==
  ASSUME NEW S, NEW q \in Seq(S), NEW e \in S
  PROVE  /\ Append(q, e) \in Seq(S)
         /\ Elems(Append(q, e)) = Elems(q) \cup {e}
         /\ Distinct(q) /\ e \notin Elems(q) => Distinct(Append(q, e))
<1>1. Append(q, e) \in Seq(S) /\ Len(Append(q, e)) = Len(q) + 1
  OBVIOUS
<1>2. \A i \in 1..Len(q) : Append(q, e)[i] = q[i]
  OBVIOUS
<1>3. Append(q, e)[Len(q) + 1] = e
  OBVIOUS
<1>4. Len(q) \in Nat
  OBVIOUS
<1>5. Elems(Append(q, e)) = Elems(q) \cup {e}
  BY <1>1, <1>2, <1>3, <1>4 DEF Elems
<1>6. ASSUME Distinct(q), e \notin Elems(q)
      PROVE  Distinct(Append(q, e))
  BY <1>1, <1>2, <1>3, <1>4, <1>6 DEF Distinct, Elems
<1>7. QED
  BY <1>1, <1>5, <1>6

\* The list of a session after memset holds nothing.
LEMMA EmptyList == Elems(<<>>) = {} /\ Distinct(<<>>)
  BY DEF Elems, Distinct

-----------------------------------------------------------------------------
(* The operators of session.c on a world.                                  *)

\* Two worlds that agree on what the invariant reads.
SameCore(w, v) ==
  /\ v \in World
  /\ v.s_id = w.s_id /\ v.rows = w.rows /\ v.live = w.live
  /\ v.faults = w.faults /\ v.m = w.m
  /\ \A d \in Domain : /\ v.s[d].id = w.s[d].id
                       /\ v.s[d].closed = w.s[d].closed
                       /\ v.s[d].msgs = w.s[d].msgs
                       /\ v.s[d].new_msg = w.s[d].new_msg
                       /\ SmsKept(w.s[d], v.s[d])

\* A session that goes on with all its short messages is not lost.
LEMMA CarriedOn ==
  ASSUME NEW ss, NEW tt, NEW rs, Carried(ss, rs),
         \A d \in Domain : tt[d].id = ss[d].id /\ SmsKept(ss[d], tt[d])
  PROVE  Carried(tt, rs)
<1>1. \A d \in Domain : s[d].started /\ SmsKept(s[d], ss[d]) => SmsKept(s[d], tt[d])
  BY DEF SmsKept
<1>2. QED
  BY <1>1 DEF Carried

\* Worlds that agree on what the invariant reads satisfy it together.
LEMMA CoreKeepsInvariant ==
  ASSUME NEW w, NEW v, SameCore(w, v)
  PROVE  /\ Held(w) => Held(v)
         /\ Both(w) => Both(v)
         /\ Gone(w) => Gone(v)
<1>1. Carried(w.s, w.rows) => Carried(v.s, v.rows)
  BY CarriedOn DEF SameCore
<1>2. QED
  BY <1>1 DEF SameCore, Held, Both, Gone, Common, Owned, Listed, IdsOK, Domain, CS, PS

\* Sessions that agree on what the invariant reads.
SameSession(i, j) ==
  /\ j \in SessionInfo
  /\ j.id = i.id /\ j.closed = i.closed /\ j.msgs = i.msgs /\ j.new_msg = i.new_msg
  /\ SmsKept(i, j)

\* Changing only flags of the sessions keeps what the invariant reads.
LEMMA UpdateCore ==
  ASSUME NEW w \in World, NEW ss \in [Domain -> SessionInfo],
         \A d \in Domain : SameSession(w.s[d], ss[d])
  PROVE  SameCore(w, [w EXCEPT !.s = ss])
<1>1. [w EXCEPT !.s = ss] \in World
  BY DEF World
<1>2. QED
  BY <1>1 DEF SameCore, SameSession, World

\* Setting started, mo, mt or a service flag of a session, as the handlers do.
LEMMA FlagSetters ==
  ASSUME NEW i \in SessionInfo
  PROVE  /\ SameSession(i, i)
         /\ SameSession(i, [i EXCEPT !.moved = TRUE])
         /\ SameSession(i, [i EXCEPT !.service = TRUE])
         /\ i.closed = FALSE => SameSession(i, [i EXCEPT !.started = TRUE, !.closed = FALSE])
<1>1. SameSession(i, i)
  BY DEF SameSession, SmsKept
<1>2. SameSession(i, [i EXCEPT !.moved = TRUE])
  BY DEF SameSession, SessionInfo, SmsKept
<1>3. SameSession(i, [i EXCEPT !.service = TRUE])
  BY DEF SameSession, SessionInfo, SmsKept
<1>4. i.closed = FALSE => SameSession(i, [i EXCEPT !.started = TRUE, !.closed = FALSE])
  BY DEF SameSession, SessionInfo, SmsKept
<1>5. QED
  BY <1>1, <1>2, <1>3, <1>4

\* Setting the technology of a session or of its last stored message.
LEMMA RatSetters ==
  ASSUME NEW i \in SessionInfo, NEW r \in Rat
  PROVE  /\ SameSession(i, [i EXCEPT !.rat = r])
         /\ SameSession(i, [i EXCEPT !.last_rat = r])
  BY DEF SameSession, SessionInfo, SmsKept

\* Replacing one of the two sessions.
LEMMA ReplaceCore ==
  ASSUME NEW w \in World, NEW d \in Domain, NEW i, SameSession(w.s[d], i)
  PROVE  /\ [w EXCEPT !.s[d] = i] = [w EXCEPT !.s = [w.s EXCEPT ![d] = i]]
         /\ SameCore(w, [w EXCEPT !.s[d] = i])
<1> DEFINE ss == [w.s EXCEPT ![d] = i]
<1>1. [w EXCEPT !.s[d] = i] = [w EXCEPT !.s = ss]
  BY DEF World
<1>2. w.s \in [Domain -> SessionInfo] /\ i \in SessionInfo
  BY DEF World, SameSession
<1>3. ss \in [Domain -> SessionInfo]
  BY <1>2
<1>4. \A e \in Domain : SameSession(w.s[e], ss[e])
  BY <1>2 DEF SameSession, SmsKept
<1>5. QED
  BY <1>1, <1>3, <1>4, UpdateCore

\* Setting a flag, the technology or the domain of the message.
LEMMA SettersKeepCore ==
  ASSUME NEW w \in World, NEW d \in Domain, NEW r \in Rat
  PROVE  /\ w.s[d].closed = FALSE => SameCore(w, Started(w, d))
         /\ SameCore(w, Moved(w, d))
         /\ SameCore(w, Served(w, d))
         /\ SameCore(w, SetRat(w, r))
         /\ SameCore(w, Undecoded(w))
         /\ SameCore(w, [w EXCEPT !.domain = d])
         /\ SameCore(w, [w EXCEPT !.s[CS].rat = r])
         /\ SameCore(w, [w EXCEPT !.s[CS].last_rat = r])
<1>0. /\ CS \in Domain
      /\ \A e \in Domain : w.s[e] \in SessionInfo
      /\ w.s \in [Domain -> SessionInfo]
  BY DEF World, Domain, CS
<1>1. w.s[d].closed = FALSE => SameCore(w, Started(w, d))
  <2> DEFINE i == [w.s[d] EXCEPT !.started = TRUE, !.closed = FALSE]
  <2>1. Started(w, d) = [w EXCEPT !.s[d] = i]
    BY <1>0 DEF Started, World, SessionInfo
  <2>2. w.s[d].closed = FALSE => SameSession(w.s[d], i)
    BY <1>0, FlagSetters
  <2> HIDE DEF i
  <2>3. QED
    BY <2>1, <2>2, ReplaceCore
<1>2. SameCore(w, Moved(w, d))
  <2> DEFINE i == [w.s[d] EXCEPT !.moved = TRUE]
  <2>1. Moved(w, d) = [w EXCEPT !.s[d] = i]
    BY DEF Moved
  <2>2. SameSession(w.s[d], i)
    BY <1>0, FlagSetters
  <2> HIDE DEF i
  <2>3. QED
    BY <2>1, <2>2, ReplaceCore
<1>3. SameCore(w, Served(w, d))
  <2> DEFINE i == [w.s[d] EXCEPT !.service = TRUE]
  <2>1. Served(w, d) = [w EXCEPT !.s[d] = i]
    BY DEF Served
  <2>2. SameSession(w.s[d], i)
    BY <1>0, FlagSetters
  <2> HIDE DEF i
  <2>3. QED
    BY <2>1, <2>2, ReplaceCore
<1>4. SameCore(w, SetRat(w, r))
  <2> DEFINE ss == [e \in Domain |-> [w.s[e] EXCEPT !.rat = r]]
  <2>1. SetRat(w, r) = [w EXCEPT !.s = ss]
    BY DEF SetRat, World
  <2>2. \A e \in Domain : SameSession(w.s[e], ss[e])
    BY <1>0, RatSetters
  <2>3. ss \in [Domain -> SessionInfo]
    BY <2>2 DEF SameSession
  <2>4. QED
    BY <2>1, <2>2, <2>3, UpdateCore
<1>5. SameCore(w, Undecoded(w))
  BY DEF SameCore, Undecoded, World, SmsKept
<1>6. SameCore(w, [w EXCEPT !.domain = d])
  BY DEF SameCore, World, SmsKept
<1>7. SameCore(w, [w EXCEPT !.s[CS].rat = r])
  <2>1. [w EXCEPT !.s[CS].rat = r] = [w EXCEPT !.s[CS] = [w.s[CS] EXCEPT !.rat = r]]
    OBVIOUS
  <2>2. QED
    BY <1>0, <2>1, RatSetters, ReplaceCore
<1>8. SameCore(w, [w EXCEPT !.s[CS].last_rat = r])
  <2>1. [w EXCEPT !.s[CS].last_rat = r] = [w EXCEPT !.s[CS] = [w.s[CS] EXCEPT !.last_rat = r]]
    OBVIOUS
  <2>2. QED
    BY <1>0, <2>1, RatSetters, ReplaceCore
<1>9. QED
  BY <1>1, <1>2, <1>3, <1>4, <1>5, <1>6, <1>7, <1>8

\* Where the message can be read, reading it changes nothing.
LEMMA SetMsgInfoHarmless ==
  ASSUME NEW w \in World, NEW d \in Domain, w.s[d].new_msg \in w.live
  PROVE  SetMsgInfo(w, d) = w
  BY DEF SetMsgInfo, Fault, World

\* A session that has been written to the database.
Reported(i) == i.started /\ i.closed

\* v is w with session d renewed and holding m.
Renewed(w, d, m, v) ==
  /\ v \in World
  /\ Reported(w.s[d])  => v.s_id = w.s_id + 1 /\ v.s[d].id = w.s_id + 1
  /\ ~Reported(w.s[d]) => v.s_id = w.s_id /\ v.s[d].id = w.s[d].id
  /\ v.s[d].closed = FALSE /\ v.s[d].started = FALSE
  /\ v.s[d].msgs = <<>>
  /\ v.s[d].new_msg = m
  /\ \A e \in Domain \ {d} : v.s[e] = w.s[e]
  /\ v.rows = w.rows /\ v.m = w.m /\ v.faults = w.faults
  /\ v.live = w.live \ Elems(w.s[d].msgs)

\* What session_reset does once the session is linked and closed.
LEMMA RenewFacts ==
  ASSUME NEW w \in World, NEW d \in Domain, NEW m \in Msg \cup {NULL},
         m \notin Elems(w.s[d].msgs), Elems(w.s[d].msgs) \subseteq w.live
  PROVE  Renewed(w, d, m, Renew(w, d, m))
<1> DEFINE v == Renew(w, d, m)
           report == Reported(w.s[d])
           nid == IF report THEN w.s_id + 1 ELSE w.s_id
           cl == Cleared(IF report THEN nid ELSE w.s[d].id, RatGSM, m, w.s[d].last_rat)
<1>0. w.s[d] \in SessionInfo /\ w.s_id \in Nat /\ w.s \in [Domain -> SessionInfo]
  BY DEF World
<1>1. nid \in Nat /\ cl \in SessionInfo
  BY <1>0 DEF Cleared, SessionInfo, Rat, RatGSM
<1>2. v = [w EXCEPT !.s[d] = cl, !.s_id = nid, !.live = @ \ Elems(w.s[d].msgs),
                    !.faults = @ \cup {} \cup {}]
  BY DEF Renew, Reported
<1> HIDE DEF cl, nid
<1>3. v = [w EXCEPT !.s = [w.s EXCEPT ![d] = cl], !.s_id = nid,
                    !.live = w.live \ Elems(w.s[d].msgs)]
  BY <1>2 DEF World
<1> HIDE DEF v
<1>4. /\ v.s = [w.s EXCEPT ![d] = cl] /\ v.s_id = nid
      /\ v.live = w.live \ Elems(w.s[d].msgs)
      /\ v.rows = w.rows /\ v.m = w.m /\ v.faults = w.faults
  BY <1>3 DEF World
<1>5. v \in World
  BY <1>0, <1>1, <1>3 DEF World
<1>6. /\ cl.id = (IF report THEN w.s_id + 1 ELSE w.s[d].id)
      /\ cl.closed = FALSE /\ cl.started = FALSE /\ cl.msgs = <<>> /\ cl.new_msg = m
  BY DEF Cleared, cl, nid
<1>7. v.s[d] = cl /\ \A e \in Domain \ {d} : v.s[e] = w.s[e]
  BY <1>0, <1>4
<1>8. QED
  BY <1>4, <1>5, <1>6, <1>7 DEF v, nid, Renewed

\* link_to_msg_list appends the message to one list and does nothing else.
LEMMA LinkFacts ==
  ASSUME NEW w \in World, NEW d \in Domain, NEW m \in Msg
  PROVE  LET v == link_to_msg_list(w, d, m)
         IN /\ v \in World
            /\ v.s[d].msgs = Append(w.s[d].msgs, m)
            /\ v.s[d].id = w.s[d].id /\ v.s[d].started = w.s[d].started
            /\ v.s[d].closed = w.s[d].closed /\ v.s[d].new_msg = w.s[d].new_msg
            /\ v.s[d].sms = w.s[d].sms
            /\ \A e \in Domain \ {d} : v.s[e] = w.s[e]
            /\ v.s_id = w.s_id /\ v.rows = w.rows /\ v.live = w.live
            /\ v.faults = w.faults /\ v.m = w.m
<1> DEFINE v == link_to_msg_list(w, d, m)
           i == [w.s[d] EXCEPT !.msgs = Append(@, m)]
<1>1. w.s \in [Domain -> SessionInfo] /\ w.s[d] \in SessionInfo
  BY DEF World
<1>2. /\ i \in SessionInfo /\ i.msgs = Append(w.s[d].msgs, m) /\ i.id = w.s[d].id
      /\ i.started = w.s[d].started /\ i.closed = w.s[d].closed /\ i.new_msg = w.s[d].new_msg
      /\ i.sms = w.s[d].sms
  BY <1>1, ElemsAppend DEF SessionInfo
<1>3. v = [w EXCEPT !.s = [w.s EXCEPT ![d] = i]]
  BY <1>1 DEF link_to_msg_list, World
<1> HIDE DEF i, v
<1>4. v \in World
  BY <1>1, <1>2, <1>3 DEF World
<1>5. v.s[d] = i /\ \A e \in Domain \ {d} : v.s[e] = w.s[e]
  BY <1>1, <1>3 DEF World
<1>6. /\ v.s_id = w.s_id /\ v.rows = w.rows /\ v.live = w.live
      /\ v.faults = w.faults /\ v.m = w.m
  BY <1>3 DEF World
<1>7. QED
  BY <1>2, <1>4, <1>5, <1>6 DEF v

\* r is the row of session i of domain d.
RowOf(i, d, r) == r.id = i.id /\ r.domain = d /\ r.sms = i.sms

\* session_close adds one row, with the id of the session, and marks it closed.
LEMMA CloseFacts ==
  ASSUME NEW w \in World, NEW d \in Domain
  PROVE  LET v == session_close(w, d)
         IN /\ v \in World
            /\ \E r \in Row : RowOf(w.s[d], d, r) /\ v.rows = Append(w.rows, r)
            /\ v.s[d].closed = TRUE
            /\ v.s[d].id = w.s[d].id /\ v.s[d].started = w.s[d].started
            /\ v.s[d].msgs = w.s[d].msgs /\ v.s[d].new_msg = w.s[d].new_msg
            /\ \A e \in Domain \ {d} : v.s[e] = w.s[e]
            /\ v.s_id = w.s_id /\ v.live = w.live
            /\ v.faults = w.faults /\ v.m = w.m
<1> DEFINE v == session_close(w, d)
           i == [w.s[d] EXCEPT !.closed = TRUE]
           r == [id |-> w.s[d].id, domain |-> d, rat |-> w.s[d].rat, sms |-> w.s[d].sms]
<1>1. w.s \in [Domain -> SessionInfo] /\ w.s[d] \in SessionInfo /\ w.rows \in Seq(Row)
  BY DEF World
<1>2. /\ i \in SessionInfo /\ i.msgs = w.s[d].msgs /\ i.id = w.s[d].id
      /\ i.started = w.s[d].started /\ i.closed = TRUE /\ i.new_msg = w.s[d].new_msg
  BY <1>1 DEF SessionInfo
<1>3. r \in Row /\ RowOf(w.s[d], d, r)
  BY <1>1 DEF SessionInfo, Row, RowOf
<1>4. v = [w EXCEPT !.rows = Append(w.rows, r), !.s = [w.s EXCEPT ![d] = i]]
  BY <1>1 DEF session_close, World
<1> HIDE DEF i, r, v
<1>5. Append(w.rows, r) \in Seq(Row)
  BY <1>1, <1>3
<1>6. v \in World
  BY <1>1, <1>2, <1>4, <1>5 DEF World
<1>7. v.s[d] = i /\ \A e \in Domain \ {d} : v.s[e] = w.s[e]
  BY <1>1, <1>4 DEF World
<1>8. /\ v.s_id = w.s_id /\ v.rows = Append(w.rows, r) /\ v.live = w.live
      /\ v.faults = w.faults /\ v.m = w.m
  BY <1>4 DEF World
<1>9. QED
  BY <1>2, <1>3, <1>6, <1>7, <1>8 DEF v

\* The message list that a reset frees, and the pointer it keeps.
Freed(w, d, forced) ==
  IF ~forced /\ w.s[d].new_msg # NULL THEN Append(w.s[d].msgs, w.s[d].new_msg)
                                      ELSE w.s[d].msgs
Kept(w, d, forced) == IF forced THEN w.s[d].new_msg ELSE NULL

\* A reset writes a row with the id of the session and gives it a new id, or
\* does neither.
AfterReset(w, d, forced, v) ==
  /\ v \in World
  /\ \/ /\ v.s_id = w.s_id + 1 /\ v.s[d].id = w.s_id + 1
        /\ \E r \in Row : RowOf(w.s[d], d, r) /\ v.rows = Append(w.rows, r)
     \/ v.s_id = w.s_id /\ v.s[d].id = w.s[d].id /\ v.rows = w.rows /\ ~w.s[d].started
  /\ v.s[d].closed = FALSE /\ v.s[d].started = FALSE
  /\ v.s[d].msgs = <<>>
  /\ v.s[d].new_msg = Kept(w, d, forced)
  /\ \A e \in Domain \ {d} : v.s[e] = w.s[e]
  /\ v.m = w.m /\ v.faults = w.faults
  /\ v.live = w.live \ Elems(Freed(w, d, forced))

\* session_reset as a whole: link or keep the message, close, renew, free.
LEMMA ResetFacts ==
  ASSUME NEW w \in World, NEW d \in Domain, NEW forced \in BOOLEAN,
         w.s[d].closed = FALSE,
         Kept(w, d, forced) \notin Elems(Freed(w, d, forced)),
         Elems(Freed(w, d, forced)) \subseteq w.live
  PROVE  AfterReset(w, d, forced, session_reset(w, d, forced))
<1> DEFINE m  == w.s[d].new_msg
           w1 == IF ~forced /\ m # NULL THEN link_to_msg_list(w, d, m) ELSE w
           w2 == IF w1.s[d].started /\ ~w1.s[d].closed THEN session_close(w1, d) ELSE w1
           k  == IF forced THEN m ELSE NULL
           v  == Renew(w2, d, k)
<1>1. w.s[d] \in SessionInfo /\ m \in Msg \cup {NULL}
  BY DEF World, SessionInfo
<1>2. /\ w1 \in World
      /\ w1.s[d].msgs = Freed(w, d, forced)
      /\ w1.s[d].id = w.s[d].id /\ w1.s[d].closed = FALSE
      /\ w1.s[d].started = w.s[d].started /\ w1.s[d].sms = w.s[d].sms
      /\ \A e \in Domain \ {d} : w1.s[e] = w.s[e]
      /\ w1.s_id = w.s_id /\ w1.rows = w.rows /\ w1.live = w.live
      /\ w1.faults = w.faults /\ w1.m = w.m
  BY <1>1, LinkFacts DEF Freed
<1> HIDE DEF w1
<1>3. /\ w2 \in World
      /\ \/ /\ Reported(w2.s[d])
            /\ \E r \in Row : RowOf(w.s[d], d, r) /\ w2.rows = Append(w.rows, r)
         \/ ~Reported(w2.s[d]) /\ w2.rows = w.rows /\ ~w.s[d].started
      /\ w2.s[d].msgs = Freed(w, d, forced)
      /\ w2.s[d].id = w.s[d].id
      /\ \A e \in Domain \ {d} : w2.s[e] = w.s[e]
      /\ w2.s_id = w.s_id /\ w2.live = w.live
      /\ w2.faults = w.faults /\ w2.m = w.m
  <2>1. CASE w1.s[d].started /\ ~w1.s[d].closed
    <3> DEFINE c == session_close(w1, d)
    <3>1. w2 = c
      BY <2>1
    <3>2. /\ c \in World /\ c.s[d].closed = TRUE
          /\ \E r \in Row : RowOf(w1.s[d], d, r) /\ c.rows = Append(w1.rows, r)
          /\ c.s[d].id = w1.s[d].id /\ c.s[d].started = w1.s[d].started
          /\ c.s[d].msgs = w1.s[d].msgs
          /\ \A e \in Domain \ {d} : c.s[e] = w1.s[e]
          /\ c.s_id = w1.s_id /\ c.live = w1.live /\ c.faults = w1.faults /\ c.m = w1.m
      BY <1>2, CloseFacts
    <3> HIDE DEF c
    <3>3. QED
      BY <1>2, <2>1, <3>1, <3>2 DEF Reported, RowOf
  <2>2. CASE ~(w1.s[d].started /\ ~w1.s[d].closed)
    BY <1>2, <2>2 DEF Reported
  <2>3. QED
    BY <2>1, <2>2
<1> HIDE DEF w2
<1>4. Renewed(w2, d, k, v)
  <2>1. k \in Msg \cup {NULL} /\ k = Kept(w, d, forced)
    BY <1>1 DEF Kept
  <2> HIDE DEF k
  <2>2. k \notin Elems(w2.s[d].msgs) /\ Elems(w2.s[d].msgs) \subseteq w2.live
    BY <1>3, <2>1
  <2>3. w2 \in World
    BY <1>3
  <2>4. QED
    BY <2>1, <2>2, <2>3, RenewFacts
<1>5. v = session_reset(w, d, forced)
  BY DEF session_reset, w1, w2
<1> HIDE DEF v
<1>6. k = Kept(w, d, forced)
  BY DEF Kept
<1> HIDE DEF k
<1>7. QED
  BY <1>3, <1>4, <1>5, <1>6 DEF Renewed, AfterReset

\* session_reset never gives out an id that is in use or reported.
LEMMA ResetIds ==
  ASSUME NEW w \in World, NEW d \in Domain, NEW forced, NEW v,
         IdsOK(w.s, w.s_id, w.rows), AfterReset(w, d, forced, v)
  PROVE  IdsOK(v.s, v.s_id, v.rows)
<1>1. /\ \A e \in Domain : w.s[e].id \in Nat /\ v.s[e].id \in Nat
      /\ w.s_id \in Nat /\ v.s_id \in Nat
      /\ w.rows \in Seq(Row) /\ \A i \in 1..Len(w.rows) : w.rows[i].id \in Nat
  <2>1. w \in World /\ v \in World
    BY DEF AfterReset
  <2>2. \A u \in World : u.s \in [Domain -> SessionInfo] /\ u.s_id \in Nat /\ u.rows \in Seq(Row)
    BY DEF World
  <2>3. \A i \in SessionInfo : i.id \in Nat
    BY DEF SessionInfo
  <2>4. \A r \in Row : r.id \in Nat
    BY DEF Row
  <2>5. \A i \in 1..Len(w.rows) : w.rows[i] \in Row
    BY <2>1, <2>2
  <2>6. QED
    BY <2>1, <2>2, <2>3, <2>4, <2>5
<1>2. \A e \in Domain : e # d => v.s[e].id = w.s[e].id
  BY DEF AfterReset
<1>3. CASE v.s_id = w.s_id /\ v.s[d].id = w.s[d].id /\ v.rows = w.rows
  BY <1>2, <1>3 DEF IdsOK, Domain, CS, PS
<1>4. ASSUME v.s_id = w.s_id + 1, v.s[d].id = w.s_id + 1,
             NEW r \in Row, r.id = w.s[d].id, v.rows = Append(w.rows, r)
      PROVE  IdsOK(v.s, v.s_id, v.rows)
  <2>1. /\ Len(v.rows) = Len(w.rows) + 1 /\ Len(w.rows) \in Nat
        /\ \A i \in 1..Len(w.rows) : v.rows[i] = w.rows[i]
        /\ v.rows[Len(w.rows) + 1] = r
    BY <1>1, <1>4
  <2>2. \A i \in 1..Len(v.rows) :
          \/ i \in 1..Len(w.rows) /\ v.rows[i].id = w.rows[i].id
          \/ i = Len(w.rows) + 1 /\ v.rows[i].id = w.s[d].id
    <3>1. \A i \in 1..Len(v.rows) : i \in 1..Len(w.rows) \/ i = Len(w.rows) + 1
      BY <2>1
    <3>2. r.id = w.s[d].id
      BY <1>4
    <3> HIDE <1>4
    <3>3. QED
      BY <2>1, <3>1, <3>2
  <2>3. /\ \A e \in Domain : w.s[e].id <= w.s_id
        /\ \A i \in 1..Len(w.rows) : w.rows[i].id < w.s_id /\ \A e \in Domain : w.rows[i].id # w.s[e].id
        /\ \A i, j \in 1..Len(w.rows) : w.rows[i].id = w.rows[j].id => i = j
        /\ w.s[CS].id # w.s[PS].id
    BY DEF IdsOK
  <2>4. \A e \in Domain : v.s[e].id <= v.s_id
    BY <1>1, <1>2, <1>4, <2>3
  <2>5. v.s[CS].id # v.s[PS].id
    BY <1>1, <1>2, <1>4, <2>3 DEF Domain, CS, PS
  <2>6. \A i \in 1..Len(v.rows) : v.rows[i].id < v.s_id
    BY <1>1, <1>4, <2>2, <2>3
  <2>7. \A i \in 1..Len(v.rows) : \A e \in Domain : v.rows[i].id # v.s[e].id
    <3> SUFFICES ASSUME NEW i \in 1..Len(v.rows), NEW e \in Domain
                 PROVE  v.rows[i].id # v.s[e].id
      OBVIOUS
    <3>1. CASE e = d
      BY <1>1, <1>4, <2>2, <2>3, <3>1
    <3>2. CASE e # d
      <4>1. w.s[d].id # w.s[e].id
        BY <2>3, <3>2 DEF Domain, CS, PS
      <4>2. QED
        BY <1>2, <2>2, <2>3, <3>2, <4>1
    <3>3. QED
      BY <3>1, <3>2
  <2>8. \A i, j \in 1..Len(v.rows) : v.rows[i].id = v.rows[j].id => i = j
    <3> SUFFICES ASSUME NEW i \in 1..Len(v.rows), NEW j \in 1..Len(v.rows),
                        v.rows[i].id = v.rows[j].id
                 PROVE  i = j
      OBVIOUS
    <3>1. QED
      BY <2>2, <2>3
  <2>9. QED
    BY <2>4, <2>5, <2>6, <2>7, <2>8 DEF IdsOK
<1>5. QED
  BY <1>3, <1>4 DEF AfterReset, RowOf

\* What a reset ends has been written, with all its short messages.
LEMMA ResetCarries ==
  ASSUME NEW w \in World, NEW d \in Domain, NEW forced, NEW v,
         Carried(w.s, w.rows), AfterReset(w, d, forced, v)
  PROVE  Carried(v.s, v.rows)
<1>1. \A e \in Domain : e # d => v.s[e] = w.s[e]
  BY DEF AfterReset
<1>2. CASE v.rows = w.rows /\ ~w.s[d].started
  BY <1>1, <1>2 DEF Carried, SmsKept
<1>3. ASSUME NEW r \in Row, RowOf(w.s[d], d, r), v.rows = Append(w.rows, r)
      PROVE  Carried(v.s, v.rows)
  <2>1. /\ Len(v.rows) = Len(w.rows) + 1 /\ Len(w.rows) \in Nat
        /\ \A i \in 1..Len(w.rows) : v.rows[i] = w.rows[i]
        /\ v.rows[Len(w.rows) + 1] = r
    <3>1. w.rows \in Seq(Row)
      BY DEF World
    <3>2. QED
      BY <1>3, <3>1
  <2>2. Len(rows) \in Nat /\ Len(rows) <= Len(w.rows)
    BY DEF Carried
  <2>3. ASSUME NEW e \in Domain, Written(w.rows, e)
        PROVE  Written(v.rows, e)
    <3>1. PICK k \in 1..Len(w.rows) : /\ k > Len(rows)
                                      /\ w.rows[k].id = s[e].id /\ w.rows[k].domain = e
                                      /\ Elems(s[e].sms) \subseteq Elems(w.rows[k].sms)
      BY <2>3 DEF Written
    <3>2. k \in 1..Len(v.rows) /\ v.rows[k] = w.rows[k]
      BY <2>1
    <3>3. QED
      BY <3>1, <3>2 DEF Written
  <2>4. ASSUME w.s[d].id = s[d].id, SmsKept(s[d], w.s[d])
        PROVE  Written(v.rows, d)
    <3> DEFINE k == Len(w.rows) + 1
    <3>1. k \in 1..Len(v.rows) /\ v.rows[k] = r
      BY <2>1
    <3>2. k > Len(rows)
      BY <2>1, <2>2
    <3>3. /\ r.id = s[d].id /\ r.domain = d
          /\ Elems(s[d].sms) \subseteq Elems(r.sms)
      BY <1>3, <2>4 DEF RowOf, SmsKept
    <3> HIDE DEF k
    <3>4. QED
      BY <3>1, <3>2, <3>3 DEF Written
  <2>5. Len(rows) \in Nat /\ Len(rows) <= Len(v.rows)
    BY <2>1, <2>2
  <2>6. QED
    BY <1>1, <2>3, <2>4, <2>5 DEF Carried
<1>4. QED
  BY <1>2, <1>3 DEF AfterReset

\* The list of a session holds messages, never the null pointer.
LEMMA ListFacts ==
  ASSUME NEW w \in World, NEW d \in Domain
  PROVE  /\ Elems(w.s[d].msgs) \subseteq Msg
         /\ NULL \notin Elems(w.s[d].msgs)
         /\ w.s[d].msgs \in Seq(Msg)
         /\ w.s[d].new_msg \in Msg \cup {NULL}
  BY SessionAssumption DEF World, SessionInfo, Elems

\* A forced reset keeps the message in the hands of the step.
LEMMA ResetForced ==
  ASSUME NEW w, NEW d \in Domain, Held(w)
  PROVE  /\ Held(session_reset(w, d, TRUE))
         /\ Both(w) => Both(session_reset(w, d, TRUE))
<1> DEFINE v == session_reset(w, d, TRUE)
<1>1. /\ w \in World /\ w.m \in Msg /\ w.faults = {} /\ w.live \cap lost = {}
      /\ \A e \in Domain : w.s[e].closed = FALSE
      /\ IdsOK(w.s, w.s_id, w.rows) /\ Carried(w.s, w.rows)
      /\ Owned(w.s, w.live, {w.m})
      /\ w.s[CS].new_msg = w.m /\ w.s[PS].new_msg \in {w.m, NULL}
  BY DEF Held, Common
<1>2. Freed(w, d, TRUE) = w.s[d].msgs /\ Kept(w, d, TRUE) = w.s[d].new_msg
  BY DEF Freed, Kept
<1>3. w.s[d].new_msg \in {w.m, NULL}
  BY <1>1 DEF Domain
<1>4. w.s[d].new_msg \notin Elems(w.s[d].msgs) /\ Elems(w.s[d].msgs) \subseteq w.live
  BY <1>1, <1>3, ListFacts DEF Owned, Listed, Domain
<1>5. AfterReset(w, d, TRUE, v)
  BY <1>1, <1>2, <1>4, ResetFacts
<1> HIDE DEF v
<1>6. IdsOK(v.s, v.s_id, v.rows) /\ Carried(v.s, v.rows)
  BY <1>1, <1>5, ResetIds, ResetCarries
<1>7. /\ v \in World /\ v.m = w.m /\ v.faults = {}
      /\ \A e \in Domain : v.s[e].closed = FALSE /\ v.s[e].new_msg = w.s[e].new_msg
      /\ v.s[d].msgs = <<>> /\ \A e \in Domain \ {d} : v.s[e].msgs = w.s[e].msgs
      /\ v.live = w.live \ Elems(w.s[d].msgs)
  BY <1>1, <1>2, <1>5 DEF AfterReset
<1>8. Owned(v.s, v.live, {v.m})
  BY <1>1, <1>7, EmptyList DEF Owned, Listed, Domain, CS, PS
<1>9. QED
  BY <1>1, <1>6, <1>7, <1>8 DEF Held, Both, Common, v, Domain, CS, PS

\* A release of the circuit switched session frees the message with it.
LEMMA ResetRelease ==
  ASSUME NEW w, Held(w)
  PROVE  Gone(session_reset(w, CS, FALSE))
<1> DEFINE v == session_reset(w, CS, FALSE)
<1>1. /\ w \in World /\ w.m \in Msg /\ w.faults = {} /\ w.live \cap lost = {}
      /\ \A e \in Domain : w.s[e].closed = FALSE
      /\ IdsOK(w.s, w.s_id, w.rows) /\ Carried(w.s, w.rows)
      /\ Owned(w.s, w.live, {w.m})
      /\ w.s[CS].new_msg = w.m /\ w.m # NULL
      /\ CS \in Domain
  BY SessionAssumption DEF Held, Common, Domain
<1>2. Freed(w, CS, FALSE) = Append(w.s[CS].msgs, w.m) /\ Kept(w, CS, FALSE) = NULL
  BY <1>1 DEF Freed, Kept
<1>3. Elems(Freed(w, CS, FALSE)) = Elems(w.s[CS].msgs) \cup {w.m}
  <2>1. w.s[CS].msgs \in Seq(Msg)
    BY <1>1, ListFacts
  <2>2. Elems(Append(w.s[CS].msgs, w.m)) = Elems(w.s[CS].msgs) \cup {w.m}
    <3> DEFINE q == w.s[CS].msgs
    <3>1. q \in Seq(Msg) /\ w.m \in Msg
      BY <1>1, <2>1
    <3> HIDE DEF q
    <3>2. Elems(Append(q, w.m)) = Elems(q) \cup {w.m}
      BY <3>1, ElemsAppend
    <3>3. QED
      BY <3>2 DEF q
  <2>3. QED
    BY <1>2, <2>2, Zenon
<1>4. NULL \notin Elems(Freed(w, CS, FALSE)) /\ Elems(Freed(w, CS, FALSE)) \subseteq w.live
  BY <1>1, <1>3, ListFacts DEF Owned, Listed
<1>5. AfterReset(w, CS, FALSE, v)
  BY <1>1, <1>2, <1>4, ResetFacts
<1> HIDE DEF v
<1>6. IdsOK(v.s, v.s_id, v.rows) /\ Carried(v.s, v.rows)
  BY <1>1, <1>5, ResetIds, ResetCarries
<1>7. /\ v \in World /\ v.faults = {} /\ v.s[CS].new_msg = NULL
      /\ \A e \in Domain : v.s[e].closed = FALSE
      /\ v.s[CS].msgs = <<>> /\ v.s[PS].msgs = w.s[PS].msgs
      /\ v.live = w.live \ (Elems(w.s[CS].msgs) \cup {w.m})
  <2>1. PS \in Domain \ {CS} /\ Domain = {CS} \cup (Domain \ {CS})
    BY DEF Domain, CS, PS
  <2>2. QED
    BY <1>1, <1>2, <1>3, <1>5, <2>1 DEF AfterReset
<1>8. Owned(v.s, v.live, {})
  BY <1>1, <1>7, EmptyList DEF Owned, Listed, Domain, CS, PS
<1>9. QED
  BY <1>1, <1>6, <1>7, <1>8 DEF Gone, Common, v

\* Without a message at hand a reset frees just the list of its session.
LEMMA ResetGone ==
  ASSUME NEW w, NEW d \in Domain, Gone(w), w.s[d].new_msg = NULL
  PROVE  /\ Gone(session_reset(w, d, FALSE))
         /\ session_reset(w, d, FALSE).s[d].msgs = <<>>
         /\ session_reset(w, d, FALSE).s[d].started = FALSE
         /\ \A e \in Domain \ {d} : session_reset(w, d, FALSE).s[e] = w.s[e]
<1> DEFINE v == session_reset(w, d, FALSE)
<1>1. /\ w \in World /\ w.faults = {} /\ w.live \cap lost = {}
      /\ \A e \in Domain : w.s[e].closed = FALSE
      /\ IdsOK(w.s, w.s_id, w.rows) /\ Carried(w.s, w.rows)
      /\ Owned(w.s, w.live, {})
      /\ w.s[CS].new_msg = NULL
  BY DEF Gone, Common
<1>2. Freed(w, d, FALSE) = w.s[d].msgs /\ Kept(w, d, FALSE) = NULL
  BY DEF Freed, Kept
<1>3. NULL \notin Elems(w.s[d].msgs) /\ Elems(w.s[d].msgs) \subseteq w.live
  BY <1>1, ListFacts DEF Owned, Listed, Domain
<1>4. AfterReset(w, d, FALSE, v)
  BY <1>1, <1>2, <1>3, ResetFacts
<1> HIDE DEF v
<1>5. IdsOK(v.s, v.s_id, v.rows) /\ Carried(v.s, v.rows)
  BY <1>1, <1>4, ResetIds, ResetCarries
<1>6. /\ v \in World /\ v.faults = {} /\ v.s[CS].new_msg = NULL
      /\ \A e \in Domain : v.s[e].closed = FALSE
      /\ v.s[d].msgs = <<>> /\ v.s[d].started = FALSE
      /\ \A e \in Domain \ {d} : v.s[e] = w.s[e]
      /\ v.live = w.live \ Elems(w.s[d].msgs)
  BY <1>1, <1>2, <1>4 DEF AfterReset, Domain, CS, PS
<1>7. Owned(v.s, v.live, {})
  BY <1>1, <1>6, EmptyList DEF Owned, Listed, Domain, CS, PS
<1>8. QED
  BY <1>1, <1>5, <1>6, <1>7 DEF Gone, Common, v

\* Dropping the packet switched session's pointer to the message.
DropPS(w) == [w EXCEPT !.s[PS].new_msg = NULL]

\* Clearing _s[PS].new_msg disturbs nothing.
LEMMA DropPSFacts ==
  ASSUME NEW w \in World
  PROVE  /\ Held(w) => Held(DropPS(w))
         /\ Gone(w) => Gone(DropPS(w))
         /\ DropPS(w).s[PS].new_msg = NULL
         /\ DropPS(w).s[CS] = w.s[CS]
<1> DEFINE v == DropPS(w)
           i == [w.s[PS] EXCEPT !.new_msg = NULL]
<1>1. w.s \in [Domain -> SessionInfo] /\ w.s[PS] \in SessionInfo /\ PS \in Domain /\ CS \in Domain
  BY DEF World, Domain
<1>2. /\ i \in SessionInfo /\ i.msgs = w.s[PS].msgs /\ i.id = w.s[PS].id
      /\ i.closed = w.s[PS].closed /\ i.new_msg = NULL /\ SmsKept(w.s[PS], i)
  BY <1>1 DEF SessionInfo, SmsKept
<1>3. v = [w EXCEPT !.s = [w.s EXCEPT ![PS] = i]]
  BY <1>1 DEF World, DropPS
<1> HIDE DEF i, v
<1>4. v \in World
  BY <1>1, <1>2, <1>3 DEF World
<1>5. v.s[PS] = i /\ v.s[CS] = w.s[CS]
  BY <1>1, <1>3 DEF World, CS, PS
<1>6. /\ v.s_id = w.s_id /\ v.rows = w.rows /\ v.live = w.live
      /\ v.faults = w.faults /\ v.m = w.m
  BY <1>3 DEF World
<1>7. Carried(w.s, w.rows) => Carried(v.s, v.rows)
  BY <1>2, <1>5, <1>6, CarriedOn DEF Domain, SmsKept
<1>8. QED
  BY <1>2, <1>4, <1>5, <1>6, <1>7 DEF v, Held, Gone, Common, Owned, Listed, IdsOK, Domain

-----------------------------------------------------------------------------
(* The handlers keep the message in the hands of the step, or free it.     *)

\* While a step holds its message, SET_MSG_INFO finds it in the CS session.
LEMMA HeldFacts ==
  ASSUME NEW w, Held(w)
  PROVE  /\ w \in World
         /\ \A d \in Domain : w.s[d].closed = FALSE
         /\ w.m \in Msg /\ w.m \in w.live /\ w.s[CS].new_msg = w.m
         /\ SetMsgInfo(w, CS) = w
         /\ Both(w) => SetMsgInfo(w, PS) = w
<1>1. /\ w \in World /\ w.m \in w.live /\ w.s[CS].new_msg = w.m /\ CS \in Domain /\ PS \in Domain
      /\ w.m \in Msg /\ \A d \in Domain : w.s[d].closed = FALSE
  BY DEF Held, Common, Owned, Domain
<1>2. SetMsgInfo(w, CS) = w
  BY <1>1, SetMsgInfoHarmless
<1>3. Both(w) => SetMsgInfo(w, PS) = w
  BY <1>1, SetMsgInfoHarmless DEF Both
<1>4. QED
  BY <1>1, <1>2, <1>3

\* The flags that handlers set do not disturb the message at hand.
LEMMA HeldSetters ==
  ASSUME NEW w, NEW d \in Domain, Held(w)
  PROVE  /\ Held(Started(w, d))
         /\ Held(Moved(w, d))
         /\ Held(Served(w, d))
         /\ Held(Undecoded(w))
         /\ Held([w EXCEPT !.domain = d])
<1>1. w \in World /\ w.s[d].closed = FALSE /\ RatGSM \in Rat
  BY HeldFacts DEF Rat
<1>2. /\ SameCore(w, Started(w, d)) /\ SameCore(w, Moved(w, d)) /\ SameCore(w, Served(w, d))
      /\ SameCore(w, Undecoded(w)) /\ SameCore(w, [w EXCEPT !.domain = d])
  BY <1>1, SettersKeepCore
<1>3. QED
  BY <1>2, CoreKeepsInvariant

\* Nor does a change of the technology.
LEMMA RatHeld ==
  ASSUME NEW w, NEW r \in Rat, Held(w)
  PROVE  /\ Held(SetRat(w, r))
         /\ Held([w EXCEPT !.s[CS].rat = r])
         /\ Held([w EXCEPT !.s[CS].last_rat = r])
<1>1. w \in World /\ CS \in Domain
  BY HeldFacts DEF Domain
<1>2. /\ SameCore(w, SetRat(w, r)) /\ SameCore(w, [w EXCEPT !.s[CS].rat = r])
      /\ SameCore(w, [w EXCEPT !.s[CS].last_rat = r])
  BY <1>1, SettersKeepCore
<1>3. QED
  BY <1>2, CoreKeepsInvariant

\* Before layer 3 both sessions point to the message, whatever the bearer sets.
LEMMA BothSetters ==
  ASSUME NEW w, NEW d \in Domain, NEW r \in Rat, Both(w)
  PROVE  /\ Both([w EXCEPT !.domain = d])
         /\ Both(SetRat(w, r))
         /\ Both([w EXCEPT !.s[CS].last_rat = r])
<1>1. w \in World
  BY HeldFacts DEF Both
<1>2. /\ SameCore(w, [w EXCEPT !.domain = d]) /\ SameCore(w, SetRat(w, r))
      /\ SameCore(w, [w EXCEPT !.s[CS].last_rat = r])
  BY <1>1, SettersKeepCore
<1>3. QED
  BY <1>2, CoreKeepsInvariant

\* handle_cc leaves the message with the step.
LEMMA CCHeld ==
  ASSUME NEW w, NEW t, NEW ul, Held(w)
  PROVE  Held(handle_cc(w, t, ul))
  BY HeldFacts, HeldSetters DEF handle_cc, Domain

\* handle_mm leaves the message with the step, also through its forced resets.
LEMMA MMHeld ==
  ASSUME NEW w, NEW t \in MMType, Held(w)
  PROVE  Held(handle_mm(w, t))
<1> DEFINE fresh == SetMsgInfo(session_reset(SetMsgInfo(w, CS), CS, TRUE), CS)
<1>1. CS \in Domain /\ SetMsgInfo(w, CS) = w
  BY HeldFacts DEF Domain
<1>2. Held(fresh)
  <2>1. Held(session_reset(w, CS, TRUE))
    BY <1>1, ResetForced
  <2>2. QED
    BY <1>1, <2>1, HeldFacts
<1> HIDE DEF fresh
<1>3. /\ Held(Moved(Started(fresh, CS), CS)) /\ Held(Served(Moved(Started(fresh, CS), CS), CS))
      /\ Held(Moved(w, CS)) /\ Held(Served(Moved(w, CS), CS))
  BY <1>1, <1>2, HeldSetters
<1>4. QED
  BY <1>1, <1>2, <1>3 DEF handle_mm, MMType, fresh

\* handle_sysinfo leaves the message with the step, also when it ends a session.
LEMMA SysinfoHeld ==
  ASSUME NEW w, NEW b, Held(w)
  PROVE  Held(handle_sysinfo(w, b))
  BY ResetForced DEF handle_sysinfo, Domain

\* handle_rr leaves the message with the step, or has freed it: Channel Release.
LEMMA RRHeld ==
  ASSUME NEW w, NEW t \in RRType, NEW b, Held(w)
  PROVE  Held(handle_rr(w, t, b)) \/ Gone(handle_rr(w, t, b))
<1> DEFINE w1 == [w EXCEPT !.s[CS].rat = RatGSM]
           rel == session_reset(w1, CS, FALSE)
           fresh == session_reset(w1, CS, TRUE)
<1>1. CS \in Domain /\ RatGSM \in Rat
  BY DEF Domain, Rat
<1>2. Held(w1) /\ SetMsgInfo(w1, CS) = w1
  BY <1>1, RatHeld, HeldFacts
<1> HIDE DEF w1
<1>3. Held(handle_sysinfo(w1, b))
  BY <1>2, SysinfoHeld
<1>4. Gone(DropPS(rel))
  <2>1. Gone(rel)
    BY <1>2, ResetRelease
  <2> HIDE DEF rel
  <2>2. rel \in World
    BY <2>1 DEF Gone, Common
  <2>3. QED
    BY <2>1, <2>2, DropPSFacts
<1>5. Held(Moved(Started(SetMsgInfo(fresh, CS), CS), CS))
  <2>1. Held(fresh)
    BY <1>1, <1>2, ResetForced
  <2> HIDE DEF fresh
  <2>2. QED
    BY <1>1, <2>1, HeldFacts, HeldSetters
<1>6. QED
  BY <1>2, <1>3, <1>4, <1>5 DEF handle_rr, RRType, w1, DropPS

\* handle_gmm and handle_sm leave the message with the step.
LEMMA GMMHeld ==
  ASSUME NEW w, NEW t \in GMMType, Both(w)
  PROVE  Held(handle_gmm(w, t)) /\ Held(handle_sm(w))
<1> DEFINE w1 == [w EXCEPT !.domain = PS]
           fresh == session_reset(w1, PS, TRUE)
<1>1. PS \in Domain /\ RatGSM \in Rat /\ Held(w) /\ SetMsgInfo(w, PS) = w
  BY HeldFacts DEF Domain, Rat, Both
<1>2. Both(w1) /\ Held(w1)
  BY <1>1, BothSetters DEF Both
<1>3. Held(handle_sm(w))
  BY <1>1, <1>2 DEF handle_sm
<1> HIDE DEF w1
<1>4. Both(fresh)
  BY <1>1, <1>2, ResetForced
<1> HIDE DEF fresh
<1>5. Held(fresh) /\ SetMsgInfo(fresh, PS) = fresh
  BY <1>4, HeldFacts DEF Both
<1>6. /\ Held(Started(w1, PS)) /\ Held(Served(w1, PS)) /\ Held(Started(fresh, PS))
      /\ Held(Moved(Started(fresh, PS), PS))
  BY <1>1, <1>2, <1>5, HeldSetters
<1>7. Held(handle_gmm(w, t))
  BY <1>1, <1>2, <1>5, <1>6 DEF handle_gmm, GMMType, w1, fresh
<1>8. QED
  BY <1>3, <1>7

\* handle_sms leaves the message with the step.
LEMMA SMSHeld ==
  ASSUME NEW w, NEW t \in SMSType, Held(w)
  PROVE  Held(handle_sms(w, t))
<1>1. CS \in Domain /\ SetMsgInfo(w, CS) = w
  BY HeldFacts DEF Domain
<1>2. ASSUME NEW v, Held(v)
      PROVE  Held(handle_tpdu(v))
  <2> DEFINE q == <<v.nsms + 1>> \o v.s[CS].sms
             i == [v.s[CS] EXCEPT !.sms = q]
             u == [v EXCEPT !.nsms = v.nsms + 1]
  <2>1. v \in World /\ v.nsms \in Nat /\ v.s[CS] \in SessionInfo /\ v.s[CS].sms \in Seq(Nat)
    <3>1. v \in World
      BY <1>2, HeldFacts
    <3>2. v.nsms \in Nat /\ v.s \in [Domain -> SessionInfo]
      BY <3>1 DEF World
    <3>3. v.s[CS] \in SessionInfo
      BY <1>1, <3>2
    <3>4. QED
      BY <3>1, <3>2, <3>3 DEF SessionInfo
  <2> HIDE DEF q, i
  <2>2. SameCore(v, u) /\ u.s = v.s
    <3> DEFINE n == v.nsms + 1
    <3>1. n \in Nat
      BY <2>1
    <3> HIDE DEF n
    <3>2. u = [v EXCEPT !.nsms = n]
      BY DEF n
    <3>3. u \in World
      BY <2>1, <3>1, <3>2 DEF World
    <3>4. /\ u.s = v.s /\ u.s_id = v.s_id /\ u.rows = v.rows /\ u.live = v.live
          /\ u.faults = v.faults /\ u.m = v.m
      BY <2>1, <3>2 DEF World
    <3>5. QED
      BY <3>3, <3>4 DEF SameCore, SmsKept
  <2>3. q \in Seq(Nat) /\ handle_tpdu(v) = [v EXCEPT !.nsms = v.nsms + 1, !.s[CS].sms = q]
    BY <2>1 DEF handle_tpdu, q
  <2>4. SameSession(v.s[CS], i)
    <3>1. Elems(v.s[CS].sms) \subseteq Elems(q)
      <4> DEFINE z == v.s[CS].sms
      <4>1. q = <<v.nsms + 1>> \o z /\ z \in Seq(Nat)
        BY <2>1 DEF q
      <4> HIDE DEF z
      <4>2. \A k \in 1..Len(z) : k + 1 \in 1..Len(q) /\ q[k + 1] = z[k]
        BY <2>1, <4>1
      <4>3. QED
        BY <4>2 DEF Elems, z
    <3>2. QED
      BY <2>1, <2>3, <3>1 DEF SameSession, SessionInfo, SmsKept, i
  <2>5. handle_tpdu(v) = [u EXCEPT !.s[CS] = i]
    BY <2>1, <2>3 DEF World, i
  <2> HIDE DEF i, u
  <2>6. Held(u) /\ u \in World
    BY <1>2, <2>2, CoreKeepsInvariant DEF SameCore
  <2>7. SameCore(u, [u EXCEPT !.s[CS] = i])
    BY <1>1, <2>2, <2>4, <2>6, ReplaceCore
  <2>8. QED
    BY <2>5, <2>6, <2>7, CoreKeepsInvariant
<1>3. Held(Served(w, CS))
  BY <1>1, HeldSetters
<1>4. Held(handle_tpdu(Served(w, CS)))
  BY <1>2, <1>3
<1>5. Held(Moved(handle_tpdu(Served(w, CS)), CS)) /\ Held(Moved(Served(w, CS), CS))
  BY <1>1, <1>3, <1>4, HeldSetters
<1>6. QED
  BY <1>1, <1>3, <1>5 DEF handle_sms, SMSType

-----------------------------------------------------------------------------
(* The way into and out of the handlers.                                   *)

\* Between two messages no step holds a message.
LEMMA HereGone ==
  ASSUME IInv
  PROVE  Gone(Here) /\ Here.s = s
<1>1. Here \in World
  BY DEF IInv, TypeOK, Here, World, Domain
<1>2. /\ Here.s = s /\ Here.s_id = s_id /\ Here.rows = rows /\ Here.live = live
      /\ Here.faults = faults
  BY DEF Here
<1>3. Carried(Here.s, Here.rows)
  <2>1. Len(rows) \in Nat
    BY DEF IInv, TypeOK
  <2>2. QED
    BY <1>2, <2>1 DEF Carried, SmsKept
<1>4. QED
  BY <1>1, <1>2, <1>3 DEF IInv, Gone, Common

\* The start of handle_radio_msg: the new message is with the step.
LEMMA BeginBoth ==
  ASSUME IInv, NEW m \in Msg \ (live \cup lost)
  PROVE  Both(Begin(m))
<1> DEFINE ss == [d \in Domain |-> [s[d] EXCEPT !.new_msg = m]]
           w == Begin(m)
<1>1. Here \in World /\ Gone(Here)
  BY HereGone DEF Gone, Common
<1>2. /\ \A d \in Domain : s[d] \in SessionInfo /\ s[d].closed = FALSE
      /\ faults = {} /\ IdsOK(s, s_id, rows) /\ Owned(s, live, {}) /\ live \cap lost = {}
  BY DEF IInv, TypeOK
<1>3. \A d \in Domain : /\ ss[d] \in SessionInfo /\ ss[d].new_msg = m /\ ss[d].id = s[d].id
                        /\ ss[d].closed = FALSE /\ ss[d].msgs = s[d].msgs
                        /\ SmsKept(s[d], ss[d])
  BY <1>2 DEF SessionInfo, SmsKept
<1>4. ss \in [Domain -> SessionInfo]
  BY <1>3
<1>5. w = [Here EXCEPT !.s = ss, !.live = live \cup {m}, !.m = m]
  BY DEF Begin, Here
<1> HIDE DEF ss, w
<1>6. w \in World
  <2> DEFINE lv == live \cup {m}
  <2>1. lv \in SUBSET Msg /\ m \in Msg \cup {NULL}
    BY DEF IInv, TypeOK
  <2> HIDE DEF lv
  <2>2. w = [Here EXCEPT !.s = ss, !.live = lv, !.m = m]
    BY <1>5 DEF lv
  <2>3. QED
    BY <1>1, <1>4, <2>1, <2>2 DEF World
<1>7. /\ w.s = ss /\ w.s_id = s_id /\ w.rows = rows /\ w.live = live \cup {m}
      /\ w.faults = faults /\ w.m = m
  BY <1>5 DEF Here
<1>8. IdsOK(w.s, w.s_id, w.rows)
  BY <1>2, <1>3, <1>7 DEF IdsOK, Domain
<1>9. Owned(w.s, w.live, {m})
  BY <1>2, <1>3, <1>7 DEF Owned, Listed, Domain
<1>10. Carried(w.s, w.rows)
  <2>1. Carried(s, rows)
    BY HereGone DEF Gone, Common, Here
  <2>2. QED
    BY <1>3, <1>7, <2>1, CarriedOn
<1>11. QED
  BY <1>2, <1>3, <1>6, <1>7, <1>8, <1>9, <1>10 DEF Both, Held, Common, Domain, w

\* The way to the protocol handlers: both sessions point to the message.
LEMMA CarryBoth ==
  ASSUME IInv, NEW m \in Msg \ (live \cup lost), NEW b \in Bearer
  PROVE  Both(Carry(m, b)) /\ Both(handle_dtap(m, b))
<1>1. b.domain \in Domain /\ b.rat \in Rat /\ RatUMTS \in Rat
  BY DEF Bearer, Domain, Rat
<1>2. Both([Begin(m) EXCEPT !.domain = b.domain])
  BY <1>1, BeginBoth, BothSetters
<1>3. Both(Carry(m, b))
  BY <1>1, <1>2, BothSetters DEF Carry
<1>4. SetMsgInfo(Carry(m, b), CS) = Carry(m, b)
  BY <1>3, HeldFacts DEF Both
<1>5. Both([Carry(m, b) EXCEPT !.s[CS].last_rat = b.rat])
  BY <1>1, <1>3, BothSetters
<1>6. QED
  BY <1>3, <1>4, <1>5 DEF handle_dtap

\* The circuit switched session lets go of the message.
DropCS(w) == [w EXCEPT !.s[CS].new_msg = NULL]

\* Clearing _s[CS].new_msg at the end of handle_radio_msg.
LEMMA DropCSFacts ==
  ASSUME NEW w, Held(w)
  PROVE  /\ Common(DropCS(w)) /\ Owned(DropCS(w).s, DropCS(w).live, {w.m})
         /\ DropCS(w).s[CS].new_msg = NULL /\ DropCS(w).m = w.m
<1> DEFINE v == DropCS(w)
           i == [w.s[CS] EXCEPT !.new_msg = NULL]
<1>0. w \in World
  BY HeldFacts
<1>1. w.s \in [Domain -> SessionInfo] /\ w.s[CS] \in SessionInfo /\ PS \in Domain /\ CS \in Domain
  BY <1>0 DEF World, Domain
<1>2. /\ i \in SessionInfo /\ i.msgs = w.s[CS].msgs /\ i.id = w.s[CS].id
      /\ i.closed = w.s[CS].closed /\ i.new_msg = NULL /\ SmsKept(w.s[CS], i)
  BY <1>1 DEF SessionInfo, SmsKept
<1>3. v = [w EXCEPT !.s = [w.s EXCEPT ![CS] = i]]
  BY <1>0, <1>1 DEF World, DropCS
<1> HIDE DEF i, v
<1>4. v \in World
  BY <1>0, <1>1, <1>2, <1>3 DEF World
<1>5. v.s[CS] = i /\ v.s[PS] = w.s[PS]
  BY <1>0, <1>1, <1>3 DEF World, CS, PS
<1>6. /\ v.s_id = w.s_id /\ v.rows = w.rows /\ v.live = w.live
      /\ v.faults = w.faults /\ v.m = w.m
  BY <1>0, <1>3 DEF World
<1>7. Carried(w.s, w.rows) => Carried(v.s, v.rows)
  BY <1>2, <1>5, <1>6, CarriedOn DEF Domain, SmsKept
<1>8. QED
  BY <1>2, <1>4, <1>5, <1>6, <1>7 DEF v, Held, Common, Owned, Listed, IdsOK, Domain

\* update_timestamps reads no freed message.
LEMMA UpdateTimestampsHarmless ==
  ASSUME NEW w, Held(w)
  PROVE  update_timestamps(w) = w
<1>1. w \in World /\ w.m \in w.live /\ w.domain \in Domain
  <2>1. w \in World /\ w.m \in w.live
    BY HeldFacts
  <2>2. QED
    BY <2>1 DEF World
<1>2. w.s[w.domain].new_msg \in {w.m, NULL}
  BY <1>1 DEF Held, Domain
<1>3. QED
  BY <1>1, <1>2 DEF update_timestamps, Fault, World

\* Linking or freeing the message leaves every live message on one list.
LEMMA FinishGone ==
  ASSUME NEW w, Held(w) \/ Gone(w)
  PROVE  Gone(Finish(w))
<1>1. CASE Gone(w)
  BY <1>1 DEF Gone, Finish
<1>2. CASE Held(w)
  <2> DEFINE done == DropCS(w)
             l == link_to_msg_list(done, w.domain, w.m)
             f == [done EXCEPT !.live = @ \ {w.m}]
  <2>1. /\ w \in World /\ w.m \in Msg /\ w.m \in w.live /\ w.s[CS].new_msg = w.m
        /\ w.m # NULL /\ w.domain \in Domain /\ CS \in Domain
    <3>1. w \in World /\ w.m \in Msg /\ w.m \in w.live /\ w.s[CS].new_msg = w.m
      BY <1>2, HeldFacts
    <3>2. w.domain \in Domain
      BY <3>1 DEF World
    <3>3. QED
      BY <3>1, <3>2, SessionAssumption DEF Domain
  <2>2. /\ Common(done) /\ Owned(done.s, done.live, {w.m})
        /\ done.s[CS].new_msg = NULL /\ done \in World
    BY <1>2, DropCSFacts DEF Common
  <2>3. [update_timestamps(w) EXCEPT !.s[CS].new_msg = NULL] = done
    BY <1>2, UpdateTimestampsHarmless DEF DropCS
  <2> HIDE DEF done
  <2>4. Finish(w) = IF w.decoded THEN l ELSE f
    <3>1. Fault(done, "not_m", w.s[CS].new_msg # w.m) = done
      BY <2>1, <2>2 DEF Fault, World
    <3>2. Fault(done, "double_free", w.m \notin w.live) = done
      BY <2>1, <2>2 DEF Fault, World
    <3>3. QED
      BY <2>1, <2>3, <3>1, <3>2 DEF Finish
  <2>5. Gone(f)
    <3>1. f \in World /\ f.s = done.s /\ f.s_id = done.s_id /\ f.rows = done.rows
      BY <2>2 DEF World
    <3>2. f.faults = done.faults /\ f.live = done.live \ {w.m}
      BY <2>2 DEF World
    <3> HIDE DEF f
    <3>3. QED
      BY <2>2, <3>1, <3>2 DEF Gone, Common, Owned
  <2>6. Gone(l)
    <3> DEFINE d == w.domain
               q == done.s[d].msgs
    <3>1. /\ l \in World /\ l.s[d].msgs = Append(q, w.m)
          /\ l.s[d].id = done.s[d].id /\ l.s[d].closed = done.s[d].closed
          /\ l.s[d].new_msg = done.s[d].new_msg
          /\ l.s[d].started = done.s[d].started /\ l.s[d].sms = done.s[d].sms
          /\ \A e \in Domain \ {d} : l.s[e] = done.s[e]
          /\ l.s_id = done.s_id /\ l.rows = done.rows /\ l.live = done.live
          /\ l.faults = done.faults
      <4>1. done \in World /\ w.m \in Msg /\ d \in Domain
        BY <2>1, <2>2
      <4> HIDE DEF d
      <4>2. QED
        BY <4>1, LinkFacts DEF d
    <3>2. q \in Seq(Msg) /\ d \in Domain
      BY <2>1, <2>2, ListFacts
    <3> HIDE DEF l, d
    <3>3. w.m \notin Elems(q) /\ Distinct(q)
      BY <2>2, <3>2 DEF Owned, Listed, Domain
    <3>4. Elems(Append(q, w.m)) = Elems(q) \cup {w.m} /\ Distinct(Append(q, w.m))
      <4> HIDE DEF q
      <4>1. QED
        BY <2>1, <3>2, <3>3, ElemsAppend
    <3>5. Owned(l.s, l.live, {})
      <4> DEFINE e == IF d = CS THEN PS ELSE CS
      <4>1. e \in Domain \ {d} /\ Domain = {d, e} /\ ((d = CS /\ e = PS) \/ (d = PS /\ e = CS))
        BY <3>2 DEF Domain, CS, PS
      <4>2. Elems(l.s[d].msgs) = Elems(q) \cup {w.m} /\ Distinct(l.s[d].msgs)
        BY <3>1, <3>4
      <4>3. l.s[e].msgs = done.s[e].msgs
        BY <3>1, <4>1
      <4>4. /\ l.live = Elems(q) \cup Elems(done.s[e].msgs) \cup {w.m}
            /\ w.m \notin Elems(done.s[e].msgs) /\ Elems(q) \cap Elems(done.s[e].msgs) = {}
            /\ Distinct(done.s[e].msgs)
        BY <2>2, <3>1, <4>1 DEF Owned, Listed
      <4> HIDE DEF e, q
      <4>5. QED
        BY <4>1, <4>2, <4>3, <4>4 DEF Owned, Listed
    <3>6. \A e \in Domain : /\ l.s[e].id = done.s[e].id /\ l.s[e].closed = done.s[e].closed
                            /\ l.s[e].new_msg = done.s[e].new_msg
                            /\ SmsKept(done.s[e], l.s[e])
      BY <3>1 DEF SmsKept
    <3>7. Common(l) /\ l.s[CS].new_msg = NULL
      <4>1. Carried(l.s, l.rows)
        BY <2>2, <3>1, <3>6, CarriedOn DEF Common
      <4>2. QED
        BY <2>1, <2>2, <3>1, <3>6, <4>1 DEF Common, IdsOK, Domain
    <3>8. QED
      BY <3>5, <3>7 DEF Gone
  <2>7. QED
    BY <2>4, <2>5, <2>6
<1>3. QED
  BY <1>1, <1>2

-----------------------------------------------------------------------------
(* Steps.                                                                  *)

\* The step leaves no session behind that has not been written.
SmsStep ==
  \A d \in Domain : s[d].started =>
    \/ s'[d].id = s[d].id /\ s'[d].started /\ Elems(s[d].sms) \subseteq Elems(s'[d].sms)
    \/ \E i \in 1..Len(rows') : /\ i > Len(rows)
                                /\ rows'[i].id = s[d].id /\ rows'[i].domain = d
                                /\ Elems(s[d].sms) \subseteq Elems(rows'[i].sms)

\* The step ends in a world that keeps what the sessions are owed.
LEMMA CarriedStep ==
  ASSUME NEW w, Common(w), s' = w.s, rows' = w.rows
  PROVE  SmsStep
  BY DEF Common, Carried, SmsKept, Written, SmsStep

\* A message handled to its end leaves a state of the invariant.
LEMMA HandledKeepsIInv ==
  ASSUME IInv, NEW m, Input(m), NEW w, Held(w) \/ Gone(w), Becomes(Finish(w))
  PROVE  IInv' /\ SmsStep
<1>1. Gone(Finish(w))
  BY FinishGone
<1> DEFINE f == Finish(w)
<1>2. /\ s' = f.s /\ s_id' = f.s_id /\ rows' = f.rows /\ live' = f.live /\ nsms' = f.nsms
      /\ faults' = f.faults /\ open' = TRUE /\ lost' = lost
  BY DEF Becomes, Input, IInv, TypeOK
<1>3. Gone(f)
  BY <1>1
<1> HIDE DEF f
<1>4. f \in World
  BY <1>3 DEF Gone, Common
<1>5. TypeOK'
  BY <1>2, <1>4 DEF IInv, TypeOK, World
<1>6. SmsStep
  BY <1>2, <1>3, CarriedStep DEF Gone
<1>7. QED
  BY <1>2, <1>3, <1>5, <1>6 DEF IInv, Gone, Common

\* malloc returns an address that is not in use.
LEMMA InputFresh ==
  ASSUME NEW m, Input(m)
  PROVE  m \in Msg \ (live \cup lost)
  BY DEF Input

\* The messages of layer 3.
LEMMA LayerThreeSteps ==
  ASSUME IInv, NEW m \in Msg, NEW b \in Bearer,
         \/ RadioDouble(m, b)
         \/ \E t \in CCType : RadioCC(m, b, t)
         \/ \E t \in MMType : RadioMM(m, b, t)
         \/ \E t \in RRType : RadioRR(m, b, t)
         \/ \E t \in GMMType : RadioGMM(m, b, t)
         \/ RadioSM(m, b)
         \/ \E t \in SMSType : RadioSMS(m, b, t)
         \/ RadioOther(m, b)
  PROVE  IInv' /\ SmsStep
<1> DEFINE h == handle_dtap(m, b)
<1>1. Input(m) /\ m \in Msg \ (live \cup lost)
  BY InputFresh DEF RadioDouble, RadioCC, RadioMM, RadioRR, RadioGMM, RadioSM, RadioSMS, RadioOther
<1>2. Both(Carry(m, b)) /\ Both(h) /\ Held(h) /\ Held(Carry(m, b))
  BY <1>1, CarryBoth DEF Both
<1> HIDE DEF h
<1>3. CASE RadioDouble(m, b)
  <2> DEFINE c == Carry(m, b)
             r == [c EXCEPT !.s[CS].rat = b.rat]
  <2>1. SetMsgInfo(c, CS) = c /\ b.rat \in Rat /\ CS \in Domain
    BY <1>2, HeldFacts DEF Bearer, Rat, Domain
  <2>2. Held(c)
    BY <1>2
  <2>3. Held(Undecoded(r)) /\ Held(Undecoded(c))
    <3> HIDE DEF c
    <3>1. QED
      BY <2>1, <2>2, RatHeld, HeldSetters
  <2>4. \/ Becomes(Finish(Undecoded(r)))
        \/ Becomes(Finish(Undecoded(c)))
    BY <1>3, <2>1 DEF RadioDouble
  <2> HIDE DEF c, r
  <2>5. QED
    BY <1>1, <2>3, <2>4, HandledKeepsIInv
<1>4. ASSUME NEW t \in CCType, RadioCC(m, b, t) PROVE IInv' /\ SmsStep
  BY <1>1, <1>2, <1>4, CCHeld, HandledKeepsIInv DEF RadioCC, h
<1>5. ASSUME NEW t \in MMType, RadioMM(m, b, t) PROVE IInv' /\ SmsStep
  BY <1>1, <1>2, <1>5, MMHeld, HandledKeepsIInv DEF RadioMM, h
<1>6. ASSUME NEW t \in RRType, RadioRR(m, b, t) PROVE IInv' /\ SmsStep
  BY <1>1, <1>2, <1>6, RRHeld, HandledKeepsIInv DEF RadioRR, h
<1>7. ASSUME NEW t \in GMMType, RadioGMM(m, b, t) PROVE IInv' /\ SmsStep
  BY <1>1, <1>2, <1>7, GMMHeld, HandledKeepsIInv DEF RadioGMM, h
<1>8. CASE RadioSM(m, b)
  <2>1. "OTHER" \in GMMType
    BY DEF GMMType
  <2>2. QED
    BY <1>1, <1>2, <1>8, <2>1, GMMHeld, HandledKeepsIInv DEF RadioSM, h
<1>9. ASSUME NEW t \in SMSType, RadioSMS(m, b, t) PROVE IInv' /\ SmsStep
  BY <1>1, <1>2, <1>9, SMSHeld, HandledKeepsIInv DEF RadioSMS, h
<1>10. CASE RadioOther(m, b)
  BY <1>1, <1>2, <1>10, HandledKeepsIInv DEF RadioOther, h
<1>11. QED
  BY <1>3, <1>4, <1>5, <1>6, <1>7, <1>8, <1>9, <1>10

\* The messages handled before layer 3: kept frames, RRC and EPS messages.
LEMMA OtherMessageSteps ==
  ASSUME IInv, NEW m \in Msg,
         \/ RadioKept(m)
         \/ RrcSetupComplete(m)
         \/ RrcRelease(m)
         \/ \E d \in Domain : RrcOther(m, d)
         \/ \E d \in Domain : RrcEmptyTransfer(m, d)
         \/ RrcUnsupported(m)
         \/ \E p \in BOOLEAN : LteEps(m, p)
  PROVE  IInv' /\ SmsStep
<1> DEFINE g == Begin(m)
           u == SetRat(g, RatUMTS)
           l == SetRat(g, RatLTE)
<1>1. Input(m) /\ m \in Msg \ (live \cup lost)
  BY InputFresh DEF RadioKept, RrcSetupComplete, RrcRelease, RrcOther, RrcEmptyTransfer, RrcUnsupported, LteEps
<1>2. Both(g)
  BY <1>1, BeginBoth
<1>3. CS \in Domain /\ PS \in Domain /\ RatUMTS \in Rat /\ RatLTE \in Rat /\ \A d \in Domain : d \in {CS, PS}
  BY DEF Domain, Rat
<1> HIDE DEF g
<1>4. Both(u) /\ Both(l)
  BY <1>2, <1>3, BothSetters
<1> HIDE DEF u, l
<1>5. /\ Held(g) /\ Held(u) /\ Held(l)
      /\ SetMsgInfo(g, CS) = g /\ SetMsgInfo(u, CS) = u /\ SetMsgInfo(l, CS) = l
      /\ SetMsgInfo(u, PS) = u
  BY <1>2, <1>4, HeldFacts DEF Both
<1>6. CASE RadioKept(m)
  BY <1>1, <1>5, <1>6, HandledKeepsIInv DEF RadioKept, g
<1>7. CASE RrcSetupComplete(m)
  <2> DEFINE w == session_reset(u, CS, TRUE)
             v == DropPS(w)
             x == session_reset(v, PS, TRUE)
  <2>1. Held(w)
    BY <1>3, <1>5, ResetForced
  <2> HIDE DEF w
  <2>2. Held(v)
    BY <2>1, HeldFacts, DropPSFacts
  <2> HIDE DEF v
  <2>3. Held(x)
    BY <1>3, <2>2, ResetForced
  <2>4. Becomes(Finish(x))
    BY <1>5, <1>7 DEF RrcSetupComplete, ResetPS, DropPS, u, g, w, v
  <2> HIDE DEF x
  <2>5. QED
    BY <1>1, <2>3, <2>4, HandledKeepsIInv
<1>8. CASE RrcRelease(m)
  <2> DEFINE w == session_reset(u, CS, FALSE)
             v == DropPS(w)
             x == session_reset(v, PS, FALSE)
  <2>1. Gone(w) /\ w \in World
    BY <1>5, ResetRelease DEF Gone, Common
  <2> HIDE DEF w
  <2>2. Gone(v) /\ v.s[PS].new_msg = NULL
    BY <2>1, DropPSFacts
  <2> HIDE DEF v
  <2>3. Gone(x)
    BY <1>3, <2>2, ResetGone
  <2>4. Becomes(Finish(x))
    BY <1>5, <1>8 DEF RrcRelease, ResetPS, DropPS, u, g, w, v
  <2> HIDE DEF x
  <2>5. QED
    BY <1>1, <2>3, <2>4, HandledKeepsIInv
<1>9. ASSUME NEW d \in Domain, RrcOther(m, d) PROVE IInv' /\ SmsStep
  <2>1. SetMsgInfo(u, d) = u
    BY <1>3, <1>5
  <2>2. Becomes(Finish(u))
    BY <1>9, <2>1 DEF RrcOther, u, g
  <2>3. QED
    BY <1>1, <1>5, <2>2, HandledKeepsIInv
<1>10. ASSUME NEW d \in Domain, RrcEmptyTransfer(m, d) PROVE IInv' /\ SmsStep
  <2> DEFINE x == [u EXCEPT !.domain = d]
  <2>1. Held(x)
    BY <1>5, HeldSetters
  <2>2. Becomes(Finish(x))
    BY <1>5, <1>10 DEF RrcEmptyTransfer, u, g
  <2> HIDE DEF x
  <2>3. QED
    BY <1>1, <2>1, <2>2, HandledKeepsIInv
<1>11. CASE RrcUnsupported(m)
  <2>1. Held(Undecoded(u))
    BY <1>3, <1>5, HeldSetters
  <2>2. Becomes(Finish(Undecoded(u)))
    BY <1>5, <1>11 DEF RrcUnsupported, u, g
  <2>3. QED
    BY <1>1, <2>1, <2>2, HandledKeepsIInv
<1>12. ASSUME NEW p \in BOOLEAN, LteEps(m, p) PROVE IInv' /\ SmsStep
  <2>1. Held(Undecoded(l))
    BY <1>3, <1>5, HeldSetters
  <2>2. Becomes(Finish(Undecoded(l))) \/ Becomes(Finish(l))
    BY <1>5, <1>12 DEF LteEps, l, g
  <2>3. QED
    BY <1>1, <1>5, <2>1, <2>2, HandledKeepsIInv
<1>13. QED
  BY <1>6, <1>7, <1>8, <1>9, <1>10, <1>11, <1>12

Empty(i, n) == /\ i \in SessionInfo /\ i.id = n /\ i.closed = FALSE
               /\ i.msgs = <<>> /\ i.new_msg = NULL

\* Opening a file: two sessions with the next two ids, no message.
FreshFile(ss, sid) ==
  /\ ss \in [Domain -> SessionInfo]
  /\ ss[CS].id = sid /\ ss[PS].id = sid + 1
  /\ \A d \in Domain : ss[d].closed = FALSE /\ ss[d].msgs = <<>> /\ ss[d].new_msg = NULL

\* The sessions of a new file are well formed and own nothing.
LEMMA FileFacts ==
  ASSUME NEW sid \in Nat, NEW r \in Rat
  PROVE  FreshFile(session_from_filename(sid, r), sid)
<1> DEFINE ss == session_from_filename(sid, r)
<1>1. \A d \in Domain : ss[d] = Cleared(sid + d, IF d = CS THEN r ELSE RatGSM, NULL, NoRat)
  BY DEF session_from_filename
<1>2. \A d \in Domain : sid + d \in Nat
  BY DEF Domain, CS, PS
<1>3. \A n \in Nat, q \in Rat : Empty(Cleared(n, q, NULL, NoRat), n)
  BY DEF Cleared, SessionInfo, Empty
<1>4. RatGSM \in Rat
  BY DEF Rat
<1>5. \A d \in Domain : Empty(ss[d], sid + d)
  <2> SUFFICES ASSUME NEW d \in Domain
               PROVE  Empty(ss[d], sid + d)
    OBVIOUS
  <2>1. (IF d = CS THEN r ELSE RatGSM) \in Rat
    BY <1>4
  <2>2. QED
    BY <1>1, <1>2, <1>3, <2>1
<1>6. ss \in [Domain -> SessionInfo]
  BY <1>5 DEF session_from_filename, Empty
<1>7. QED
  BY <1>5, <1>6 DEF FreshFile, Empty, Domain, CS, PS

\* The invariant holds when the first file is opened.
LEMMA InitIInv == Init => IInv
<1> SUFFICES ASSUME Init PROVE IInv
  OBVIOUS
<1>1. PICK r \in Rat : s = session_from_filename(StartSid, r)
  BY DEF Init
<1>2. /\ s \in [Domain -> SessionInfo] /\ s[CS].id = StartSid /\ s[PS].id = StartSid + 1
      /\ \A d \in Domain : s[d].closed = FALSE /\ s[d].msgs = <<>> /\ s[d].new_msg = NULL
  <2>1. FreshFile(s, StartSid)
    BY <1>1, FileFacts, SessionAssumption
  <2>2. QED
    BY <2>1 DEF FreshFile
<1>3. TypeOK
  BY <1>2, SessionAssumption DEF Init, TypeOK
<1>4. IdsOK(s, s_id, rows)
  BY <1>2, SessionAssumption DEF Init, IdsOK, Domain
<1>5. Owned(s, live, {})
  BY <1>2, EmptyList DEF Init, Owned, Listed, Domain
<1>6. QED
  BY <1>2, <1>3, <1>4, <1>5 DEF Init, IInv, Domain

\* session_init keeps the invariant: the ids of the next file are fresh.
LEMMA InitFileStep ==
  ASSUME IInv, NEW r \in Rat, session_init(r)
  PROVE  IInv' /\ SmsStep
<1>0. s_id \in Nat /\ rows \in Seq(Row) /\ \A i \in 1..Len(rows) : rows[i].id \in Nat
  <2>1. s_id \in Nat /\ rows \in Seq(Row)
    BY DEF IInv, TypeOK
  <2>2. \A i \in 1..Len(rows) : rows[i] \in Row
    BY <2>1
  <2>3. \A r0 \in Row : r0.id \in Nat
    BY DEF Row
  <2>4. QED
    BY <2>1, <2>2, <2>3
<1>1. /\ s' = session_from_filename(s_id, r) /\ s_id' = s_id + 2 /\ rows' = rows /\ live' = live
      /\ open' = TRUE /\ nsms' = nsms /\ faults' = faults /\ live = {}
      /\ lost' = lost
  BY DEF session_init, IInv
<1>2. /\ s' \in [Domain -> SessionInfo] /\ s'[CS].id = s_id /\ s'[PS].id = s_id + 1
      /\ \A d \in Domain : s'[d].closed = FALSE /\ s'[d].msgs = <<>> /\ s'[d].new_msg = NULL
  <2>1. FreshFile(s', s_id)
    BY <1>0, <1>1, FileFacts
  <2>2. QED
    BY <2>1 DEF FreshFile
<1>3. TypeOK'
  BY <1>0, <1>1, <1>2 DEF IInv, TypeOK
<1>4. /\ \A i \in 1..Len(rows) : rows[i].id < s_id
      /\ \A i, j \in 1..Len(rows) : rows[i].id = rows[j].id => i = j
  BY DEF IInv, IdsOK
<1>5. IdsOK(s, s_id, rows)'
  <2>1. \A d \in Domain : s'[d].id \in {s_id, s_id + 1}
    BY <1>2 DEF Domain
  <2>2. \A d \in Domain : s'[d].id <= s_id'
    BY <1>0, <1>1, <2>1
  <2>3. s'[CS].id # s'[PS].id
    BY <1>0, <1>2
  <2>4. \A i \in 1..Len(rows') : rows'[i].id < s_id'
    BY <1>0, <1>1, <1>4
  <2>5. \A i \in 1..Len(rows') : \A d \in Domain : rows'[i].id # s'[d].id
    BY <1>0, <1>1, <1>4, <2>1
  <2>6. \A i, j \in 1..Len(rows') : rows'[i].id = rows'[j].id => i = j
    BY <1>1, <1>4
  <2>7. QED
    BY <2>2, <2>3, <2>4, <2>5, <2>6 DEF IdsOK
<1>6. Owned(s, live, {})'
  BY <1>1, <1>2, EmptyList DEF Owned, Listed, Domain
<1>7. SmsStep
  BY DEF SmsStep, IInv, session_init
<1>8. QED
  BY <1>1, <1>2, <1>3, <1>5, <1>6, <1>7 DEF IInv, Domain

\* session_destroy keeps the invariant and frees every message.
LEMMA DestroyStep ==
  ASSUME IInv, session_destroy
  PROVE  IInv' /\ SmsStep
<1> DEFINE w == session_reset(Here, CS, FALSE)
           v == DropPS(w)
           x == session_reset(v, PS, FALSE)
<1>1. CS \in Domain /\ PS \in Domain /\ CS \in Domain \ {PS}
  BY DEF Domain, CS, PS
<1>2. Gone(Here) /\ Here.s[CS].new_msg = NULL
  BY HereGone DEF Gone
<1>3. Gone(w) /\ w.s[CS].msgs = <<>> /\ w.s[CS].started = FALSE /\ w \in World
  BY <1>1, <1>2, ResetGone DEF Gone, Common
<1> HIDE DEF w
<1>4. /\ Gone(v) /\ v.s[PS].new_msg = NULL
      /\ v.s[CS].msgs = <<>> /\ v.s[CS].started = FALSE
  BY <1>3, DropPSFacts
<1> HIDE DEF v
<1>5. /\ Gone(x) /\ x.s[PS].msgs = <<>> /\ x.s[PS].started = FALSE
      /\ x.s[CS] = v.s[CS]
  BY <1>1, <1>4, ResetGone
<1>6. /\ s' = x.s /\ s_id' = x.s_id /\ rows' = x.rows /\ live' = x.live /\ nsms' = x.nsms
      /\ faults' = x.faults /\ open' = FALSE /\ lost' = lost
  BY DEF session_destroy, Becomes, ResetPS, DropPS, w, v
<1> HIDE DEF x
<1>7. x.live = {}
  BY <1>4, <1>5, EmptyList DEF Gone, Owned, Listed
<1>8. TypeOK'
  BY <1>5, <1>6 DEF IInv, TypeOK, World, Gone, Common
<1>9. \A d \in Domain : s'[d].started = FALSE
  BY <1>4, <1>5, <1>6 DEF Domain
<1>10. SmsStep
  BY <1>5, <1>6, CarriedStep DEF Gone
<1>11. QED
  BY <1>5, <1>6, <1>7, <1>8, <1>9, <1>10 DEF IInv, Gone, Common

\* A message of LTE RRC, which handle_4G forgets, is taken from the free ones.
LEMMA LostStep ==
  ASSUME IInv, NEW m \in Msg, handle_4G(m)
  PROVE  IInv' /\ SmsStep
<1>1. /\ m \notin live \cup lost /\ lost' = lost \cup {m}
      /\ s' = s /\ s_id' = s_id /\ rows' = rows /\ live' = live
      /\ open' = open /\ nsms' = nsms /\ faults' = faults
  BY DEF handle_4G
<1>2. TypeOK' /\ (live \cap lost = {})'
  BY <1>1 DEF IInv, TypeOK
<1>3. IdsOK(s, s_id, rows)' /\ Owned(s, live, {})'
  BY <1>1 DEF IInv, IdsOK, Owned, Listed
<1>4. SmsStep
  BY <1>1, HereGone, CarriedStep DEF Gone, Here
<1>5. QED
  BY <1>1, <1>2, <1>3, <1>4 DEF IInv

\* Every message, and the begin and end of a file, keeps the invariant.
LEMMA NextIInv == IInv /\ [Next]_vars => IInv' /\ [SmsStep]_vars
<1> SUFFICES ASSUME IInv, [Next]_vars PROVE IInv' /\ [SmsStep]_vars
  OBVIOUS
<1>1. CASE UNCHANGED vars
  BY <1>1 DEF vars, IInv, TypeOK, IdsOK, Owned, Listed
<1>2. CASE Next
  BY <1>2, LayerThreeSteps, OtherMessageSteps, InitFileStep, DestroyStep, LostStep DEF Next
<1>3. QED
  BY <1>1, <1>2

-----------------------------------------------------------------------------
(* Theorems.                                                               *)

\* The inductive invariant: between two messages each live message is on one
\* list, ids in use are fresh, and _s[CS].new_msg is null (handle_radio_msg,
\* session_reset, session_init and session_destroy together).
THEOREM Inductive == Spec => []IInv
  BY InitIInv, NextIInv, PTL DEF Spec

\* Every variable keeps its type: session_reset, session_close and the
\* handlers leave well-formed sessions, whatever the order of the messages.
THEOREM TypeCorrect == Spec => []TypeOK
<1>1. IInv => TypeOK
  BY DEF IInv
<1>2. QED
  BY <1>1, Inductive, PTL

\* No radio message given to handle_radio_msg is leaked, linked twice or kept
\* on a list after it was freed (link_to_msg_list, session_reset, the end of
\* handle_radio_msg), whatever number of others handle_4G has lost.
THEOREM MessagesOwned == Spec => []Ownership
<1>1. IInv => Ownership
  BY DEF IInv, Owned, Listed, Distinct, Ownership
<1>2. QED
  BY <1>1, Inductive, PTL

\* No assertion of the message pointers fails, no freed message is read and
\* none is freed twice (SET_MSG_INFO, session_reset, update_timestamps).
THEOREM FaultFree == Spec => []NoFault
<1>1. IInv => NoFault
  BY DEF IInv, NoFault
<1>2. QED
  BY <1>1, Inductive, PTL

\* No two rows of session_info carry the same session id (session_reset and
\* the hand-over of the counter by session_init and session_destroy).
THEOREM RowIdsNeverRepeat == Spec => []RowIdsUnique
<1>1. IInv => RowIdsUnique
  BY DEF IInv, IdsOK, RowIdsUnique
<1>2. QED
  BY <1>1, Inductive, PTL

\* Whatever ends a session that has started (the next request, a release, the
\* end of the file), one row with its id has all its short messages
\* (handle_tpdu, session_reset, session_close, session_destroy).
THEOREM SmsNeverLost == Spec => SmsFollowSession
<1>1. SmsStep <=> \A d \in Domain : s[d].started =>
       \/ s'[d].id = s[d].id /\ s'[d].started /\ Elems(s[d].sms) \subseteq Elems(s'[d].sms)
       \/ \E i \in 1..Len(rows') : /\ i > Len(rows)
                                   /\ rows'[i].id = s[d].id /\ rows'[i].domain = d
                                   /\ Elems(s[d].sms) \subseteq Elems(rows'[i].sms)
  BY DEF SmsStep
<1>2. QED
  BY <1>1, Inductive, NextIInv, PTL DEF Spec, SmsFollowSession
=============================================================================
