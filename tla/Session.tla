------------------------------ MODULE Session ------------------------------
(***************************************************************************)
(* The transaction sessions of gsm-parser: the two records _s[CS] and      *)
(* _s[PS] of session.c, the ownership of the radio messages they hold, and *)
(* the database rows a session leaves behind (session.c, handle_radio_msg  *)
(* and the protocol handlers of l3_handler.c, umts_rrc.c, lte_eps.c and    *)
(* sms.c), in the default mode auto_reset = 1.                             *)
(*                                                                         *)
(* The program is single threaded: a step handles one radio message from   *)
(* its allocation to the end of handle_radio_msg, or opens or closes an    *)
(* input file.  Inside a step the code threads its state through nested    *)
(* calls; the operators named after C functions do the same on a record w  *)
(* (the "world"): the five variables and the message being handled.        *)
(*                                                                         *)
(* A radio message is its heap address.  malloc may return an address that *)
(* was freed before, so a pointer that outlives its message can point to   *)
(* another one.  live is the set of addresses that are allocated and were  *)
(* given to handle_radio_msg, lost the set of those that handle_4G         *)
(* allocates for LTE RRC and forgets.  (The burst decoders of ccch.c and   *)
(* tch.c forget messages too; nothing calls process_handle_burst, the way  *)
(* into them.)                                                             *)
(***************************************************************************)
EXTENDS Naturals, Sequences

CONSTANTS
  Msg,       \* the addresses malloc can return for a struct radio_message
  NULL,      \* the null pointer
  StartSid,  \* first session id, given on the command line
  MaxSid,    \* bound: no file is opened once s_id has reached it
  MaxRows,   \* bound: no message is handled once as many rows are written
  MaxSms     \* bound: short messages stored over a whole behaviour

ASSUME SessionAssumption ==
  /\ NULL \notin Msg
  /\ StartSid \in Nat
  /\ MaxSid \in Nat /\ MaxRows \in Nat
  /\ MaxSms \in Nat

CS == 0
PS == 1
Domain == {CS, PS}

RatGSM  == "GSM"      \* RAT_GSM is 0: the value memset leaves in a session
RatUMTS == "UMTS"
RatLTE  == "LTE"
Rat     == {RatGSM, RatUMTS, RatLTE}
NoRat   == "none"     \* last_dtap_len = 0: no message stored yet

VARIABLES
  s,       \* _s[2], the two sessions
  s_id,    \* the session id counter
  rows,    \* what session_close wrote: one record per session_info row
  live,    \* allocated radio messages given to handle_radio_msg
  lost,    \* allocated radio messages that no pointer leads to
  open,    \* between session_init and session_destroy
  nsms,    \* short messages stored so far (history: names each of them)
  faults   \* failed assertions and memory faults (history)

vars == <<s, s_id, rows, live, lost, open, nsms, faults>>

(***************************************************************************)
(* A session.  service stands for sms_presence, call_presence, lu_acc and  *)
(* lu_reject, moved for mo and mt: the code reads them only as these       *)
(* disjunctions.  last_rat is last_dtap_rat.                               *)
(***************************************************************************)
SessionInfo ==
  [id : Nat, started : BOOLEAN, closed : BOOLEAN, rat : Rat,
   moved : BOOLEAN, service : BOOLEAN, last_rat : Rat \cup {NoRat},
   new_msg : Msg \cup {NULL}, msgs : Seq(Msg), sms : Seq(Nat)]

\* A session after memset, with the given id, rat, new_msg and last_rat.
Cleared(id, rat, m, last) ==
  [id |-> id, started |-> FALSE, closed |-> FALSE, rat |-> rat,
   moved |-> FALSE, service |-> FALSE, last_rat |-> last,
   new_msg |-> m, msgs |-> <<>>, sms |-> <<>>]

Row == [id : Nat, domain : Domain, rat : Rat, sms : Seq(Nat)]

Elems(q) == {q[i] : i \in 1..Len(q)}

-----------------------------------------------------------------------------
(* Messages and how they reach the layer 3 handlers.                       *)

(***************************************************************************)
(* The bearer of a layer 3 message: the radio access technology, the       *)
(* channel of m->flags, the direction, and the domain put into m->domain   *)
(* before the layer 3 handler runs.  Only an uplink direct transfer of     *)
(* UMTS sets it from the message.                                          *)
(***************************************************************************)
Bearer ==
  [rat : {RatGSM}, chan : {"SACCH", "SDCCH", "FACCH"}, ul : BOOLEAN, domain : {CS}]
  \cup [rat : {RatGSM}, chan : {"BCCH"}, ul : {FALSE}, domain : {CS}]
  \cup [rat : {RatUMTS}, chan : {"DCCH"}, ul : {TRUE}, domain : Domain]
  \cup [rat : {RatUMTS}, chan : {"DCCH"}, ul : {FALSE}, domain : {CS}]

\* GSM frames on the dedicated channels are skipped while the circuit
\* switched session is on another technology.
Admitted(b) == b.chan \in {"SACCH", "SDCCH"} => s[CS].rat = RatGSM

FaultKind == {"new_msg", "new_msg_freed", "double_free", "not_m"}

World == [s : [Domain -> SessionInfo], s_id : Nat, rows : Seq(Row),
          live : SUBSET Msg, nsms : Nat, faults : SUBSET FaultKind,
          m : Msg \cup {NULL}, domain : Domain, decoded : BOOLEAN]

\* The state between two messages.
Here == [s |-> s, s_id |-> s_id, rows |-> rows, live |-> live, nsms |-> nsms,
         faults |-> faults, m |-> NULL, domain |-> CS, decoded |-> TRUE]

\* Both sessions are given the new message; it counts as decoded.
Begin(m) ==
  [Here EXCEPT !.s    = [d \in Domain |-> [s[d] EXCEPT !.new_msg = m]],
               !.live = @ \cup {m},
               !.m    = m]

Fault(w, name, bad) == [w EXCEPT !.faults = IF bad THEN @ \cup {name} ELSE @]

\* assert((s)->new_msg) and the access to the message behind the pointer.
SetMsgInfo(w, d) ==
  Fault(w, "new_msg", w.s[d].new_msg \notin w.live)

Undecoded(w) == [w EXCEPT !.decoded = FALSE]

SetRat(w, r) == [w EXCEPT !.s = [d \in Domain |-> [@[d] EXCEPT !.rat = r]]]

-----------------------------------------------------------------------------
(* session.c                                                               *)

link_to_msg_list(w, d, m) == [w EXCEPT !.s[d].msgs = Append(@, m)]

\* Faulty variant of session_close: the row has the technology of the last
\* stored message, which only the circuit switched session keeps.
CloseLastRat(w, d) ==
  [w EXCEPT !.rows = Append(@, [id |-> w.s[d].id, domain |-> d,
                                rat |-> w.s[d].last_rat, sms |-> w.s[d].sms]),
            !.s[d].closed = TRUE]

\* The session row and, in the same call, one row per stored short message.
session_close(w, d) ==
  [w EXCEPT !.rows = Append(@, [id |-> w.s[d].id, domain |-> d,
                                rat |-> w.s[d].rat, sms |-> w.s[d].sms]),
            !.s[d].closed = TRUE]

\* Faulty variant of Renew: the counter is not advanced for the new id.
RenewSameId(w, d, m) ==
  LET old == w.s[d]
  IN [w EXCEPT
        !.s[d]   = Cleared(IF old.started /\ old.closed THEN w.s_id ELSE old.id,
                           RatGSM, m, old.last_rat),
        !.live   = @ \ Elems(old.msgs)]

\* The end of session_reset: set up a fresh session, free the old lists.
Renew(w, d, m) ==
  LET old    == w.s[d]
      report == old.started /\ old.closed
      next   == IF report THEN w.s_id + 1 ELSE w.s_id
  IN [w EXCEPT
        !.s[d]   = Cleared(IF report THEN next ELSE old.id, RatGSM, m, old.last_rat),
        !.s_id   = next,
        !.live   = @ \ Elems(old.msgs),
        !.faults = @ \cup (IF m \in Elems(old.msgs) THEN {"new_msg_freed"} ELSE {})
                     \cup (IF Elems(old.msgs) \subseteq w.live THEN {} ELSE {"double_free"})]

\* Faulty variants of session_reset: the message is always linked to the old
\* session; a forced release does not close the old session.
ResetLinksAlways(w, d, forced) ==
  LET m  == w.s[d].new_msg
      w1 == IF m # NULL THEN link_to_msg_list(w, d, m) ELSE w
      w2 == IF w1.s[d].started THEN session_close(w1, d) ELSE w1
  IN Renew(w2, d, IF forced THEN m ELSE NULL)

ResetForcedNoClose(w, d, forced) ==
  LET m  == w.s[d].new_msg
      w1 == IF ~forced /\ m # NULL THEN link_to_msg_list(w, d, m) ELSE w
      w2 == IF w1.s[d].started /\ ~forced THEN session_close(w1, d) ELSE w1
  IN Renew(w2, d, IF forced THEN m ELSE NULL)

\* A forced release keeps the current message for the session that follows;
\* otherwise the message is the last one of the session that ends.
session_reset(w, d, forced) ==
  LET m  == w.s[d].new_msg
      w1 == IF ~forced /\ m # NULL THEN link_to_msg_list(w, d, m) ELSE w
      w2 == IF w1.s[d].started /\ ~w1.s[d].closed THEN session_close(w1, d) ELSE w1
  IN Renew(w2, d, IF forced THEN m ELSE NULL)

\* Faulty variant of ResetPS: the pointer is not dropped.
ResetPSKeepsPointer(w, forced) == session_reset(w, PS, forced)

\* The reset of the packet switched session, after its copy of the pointer
\* to a message that the circuit switched session now owns is dropped.
ResetPS(w, forced) == session_reset([w EXCEPT !.s[PS].new_msg = NULL], PS, forced)

-----------------------------------------------------------------------------
(* l3_handler.c: the protocol handlers.  t is the message type.            *)

\* What the handlers set: started, mo or mt, and a sign of the service.
Started(w, d) == [w EXCEPT !.s[d].started = TRUE, !.s[d].closed = FALSE]
Moved(w, d)   == [w EXCEPT !.s[d].moved = TRUE]
Served(w, d)  == [w EXCEPT !.s[d].service = TRUE]

CCType == {"SETUP", "CONFIRMED", "PROCEEDING", "OTHER"}

handle_cc(w, t, ul) ==
  LET w1 == Served(SetMsgInfo(w, CS), CS)
  IN IF t \in {"SETUP", "CONFIRMED"} \/ (t = "PROCEEDING" /\ ~ul) THEN Moved(w1, CS) ELSE w1

MMType == {"IMSI DETACH", "LOC UPD ACCEPT", "LOC UPD REJECT", "LOC UPD REQUEST",
           "LOC UPD REQUEST SHORT", "CM SERVICE REQUEST", "EMERGENCY REQUEST",
           "CM SERVICE ACCEPT", "OTHER"}

handle_mm(w, t) ==
  LET fresh == SetMsgInfo(session_reset(SetMsgInfo(w, CS), CS, TRUE), CS)
  IN CASE t \in {"IMSI DETACH", "LOC UPD REQUEST", "CM SERVICE REQUEST"}
                                                   -> Moved(Started(fresh, CS), CS)
       [] t = "EMERGENCY REQUEST"                  -> Served(Moved(Started(fresh, CS), CS), CS)
       [] t = "LOC UPD REQUEST SHORT"              -> fresh
       [] t \in {"LOC UPD ACCEPT", "LOC UPD REJECT"}
                                                   -> Served(Moved(SetMsgInfo(w, CS), CS), CS)
       [] t = "CM SERVICE ACCEPT"                  -> Moved(SetMsgInfo(w, CS), CS)
       [] OTHER                                    -> SetMsgInfo(w, CS)

\* cell_info.c: system information on the broadcast channel ends a session
\* that has done its service.  The cell list is the subject of CellInfo.
handle_sysinfo(w, b) ==
  LET i == w.s[CS]
  IN IF /\ b.chan = "BCCH"
        /\ i.started /\ i.moved /\ i.service /\ ~i.closed
     THEN session_reset(w, CS, TRUE)
     ELSE w

RRType == {"SYSTEM INFO", "CHANNEL RELEASE", "PAGING RESPONSE", "OTHER"}

handle_rr(w, t, b) ==
  LET w1 == SetMsgInfo([w EXCEPT !.s[CS].rat = RatGSM], CS)
  IN CASE t = "SYSTEM INFO"     -> handle_sysinfo(w1, b)
       [] t = "CHANNEL RELEASE" -> [session_reset(w1, CS, FALSE) EXCEPT !.s[PS].new_msg = NULL]
       [] t = "PAGING RESPONSE" -> Moved(Started(SetMsgInfo(session_reset(w1, CS, TRUE), CS), CS), CS)
       [] OTHER                 -> w1

GMMType == {"ATTACH REQUEST", "DETACH REQUEST", "RA UPDATE REQUEST",
            "RA UPDATE ACCEPT", "SERVICE REQUEST", "OTHER"}

\* GMM and SM run on the packet switched session and claim the message for it.
\* A Detach Request does not clear closed: it is never set between messages.
handle_gmm(w, t) ==
  LET w1    == [SetMsgInfo(w, PS) EXCEPT !.domain = PS]
      fresh == SetMsgInfo(session_reset(w1, PS, TRUE), PS)
  IN CASE t \in {"ATTACH REQUEST", "DETACH REQUEST"} -> Started(w1, PS)
       [] t = "RA UPDATE REQUEST"                    -> Moved(Started(fresh, PS), PS)
       [] t = "SERVICE REQUEST"                      -> Started(fresh, PS)
       [] t = "RA UPDATE ACCEPT"                     -> Served(w1, PS)
       [] OTHER                                      -> w1

handle_sm(w) == [SetMsgInfo(w, PS) EXCEPT !.domain = PS]

\* sms.c: handle_tpdu puts the short message at the head of the list.
SMSType == {"TPDU", "RP", "CP"}

handle_tpdu(w) == [w EXCEPT !.nsms = @ + 1, !.s[CS].sms = <<w.nsms + 1>> \o @]

handle_sms(w, t) ==
  LET w1 == Served(SetMsgInfo(w, CS), CS)
  IN CASE t = "TPDU" -> Moved(handle_tpdu(w1), CS)
       [] t = "RP"   -> Moved(w1, CS)
       [] OTHER      -> w1

-----------------------------------------------------------------------------
(* l3_handler.c: the way into and out of the handlers.                     *)

\* A message that repeats the stored one on the other radio access
\* technology: the uplink copy of a GSM message tells the real technology,
\* the downlink GSM copy of a message already seen is not looked at.
IsDouble(b) ==
  \/ b.ul  /\ s[CS].last_rat = RatGSM /\ b.rat # RatGSM
  \/ ~b.ul /\ s[CS].last_rat \notin {RatGSM, NoRat} /\ b.rat = RatGSM

\* What the bearer's layer does before handle_dtap.
Carry(m, b) ==
  LET w == [Begin(m) EXCEPT !.domain = b.domain]
  IN IF b.rat = RatUMTS THEN SetRat(w, RatUMTS) ELSE w

\* handle_dtap up to the dispatch: not a repetition, the message is stored.
handle_dtap(m, b) ==
  [SetMsgInfo(Carry(m, b), CS) EXCEPT !.s[CS].last_rat = b.rat]

\* The message is read through the session of its domain.
update_timestamps(w) ==
  LET i == w.s[w.domain]
  IN Fault(w, "new_msg", i.started /\ i.new_msg \notin w.live \cup {NULL})

\* The end of handle_radio_msg: unless a release took the message, it is
\* linked to the session of its domain or, when not decoded, freed.
Finish(w) ==
  LET done == [update_timestamps(w) EXCEPT !.s[CS].new_msg = NULL]
  IN IF w.s[CS].new_msg = NULL
     THEN w
     ELSE IF w.decoded
          THEN link_to_msg_list(Fault(done, "not_m", w.s[CS].new_msg # w.m), w.domain, w.m)
          ELSE [Fault(done, "double_free", w.m \notin w.live) EXCEPT !.live = @ \ {w.m}]

Becomes(w) ==
  /\ s' = w.s
  /\ s_id' = w.s_id
  /\ rows' = w.rows
  /\ live' = w.live
  /\ nsms' = w.nsms
  /\ faults' = w.faults

\* The input has another message, and there is memory for it.
Input(m) ==
  /\ open /\ Len(rows) < MaxRows
  /\ m \in Msg \ (live \cup lost)
  /\ UNCHANGED <<open, lost>>

-----------------------------------------------------------------------------
(* Steps: one radio message each.                                          *)

\* A frame that brings no layer 3 message (a fragment, a null frame, a frame
\* failing a check or one that is not admitted): it is only kept.
RadioKept(m) ==
  /\ Input(m)
  /\ Becomes(Finish(SetMsgInfo(Begin(m), CS)))

RadioDouble(m, b) ==
  /\ Input(m) /\ Admitted(b) /\ IsDouble(b)
  /\ LET w == SetMsgInfo(Carry(m, b), CS)
     IN Becomes(Finish(Undecoded(IF b.ul THEN [w EXCEPT !.s[CS].rat = b.rat] ELSE w)))

RadioCC(m, b, t) ==
  /\ Input(m) /\ Admitted(b)
  /\ Becomes(Finish(handle_cc(handle_dtap(m, b), t, b.ul)))

RadioMM(m, b, t) ==
  /\ Input(m) /\ Admitted(b)
  /\ Becomes(Finish(handle_mm(handle_dtap(m, b), t)))

RadioRR(m, b, t) ==
  /\ Input(m) /\ Admitted(b)
  /\ Becomes(Finish(handle_rr(handle_dtap(m, b), t, b)))

RadioGMM(m, b, t) ==
  /\ Input(m) /\ Admitted(b)
  /\ Becomes(Finish(handle_gmm(handle_dtap(m, b), t)))

RadioSM(m, b) ==
  /\ Input(m) /\ Admitted(b)
  /\ Becomes(Finish(handle_sm(handle_dtap(m, b))))

RadioSMS(m, b, t) ==
  /\ Input(m) /\ Admitted(b)
  /\ t = "TPDU" => nsms < MaxSms
  /\ Becomes(Finish(handle_sms(handle_dtap(m, b), t)))

\* Supplementary services and the protocols that are only named.
RadioOther(m, b) ==
  /\ Input(m) /\ Admitted(b)
  /\ Becomes(Finish(handle_dtap(m, b)))

(* umts_rrc.c: the RRC messages that carry no NAS message.                 *)

RrcSetupComplete(m) ==
  /\ Input(m)
  /\ LET w == session_reset(SetMsgInfo(SetRat(Begin(m), RatUMTS), CS), CS, TRUE)
     IN Becomes(Finish(ResetPS(w, TRUE)))

\* RRC Release Complete uplink, RRC Connection Release downlink
RrcRelease(m) ==
  /\ Input(m)
  /\ LET w == session_reset(SetMsgInfo(SetRat(Begin(m), RatUMTS), CS), CS, FALSE)
     IN Becomes(Finish(ResetPS(w, FALSE)))

\* The other supported types: Security Mode Complete, Signalling Connection
\* Release, the types of the common channel, and messages that fail to
\* parse.  A Security Mode Command writes its description through the
\* session of its domain d.
RrcOther(m, d) ==
  /\ Input(m)
  /\ Becomes(Finish(SetMsgInfo(SetRat(Begin(m), RatUMTS), d)))

\* An uplink direct transfer of domain d with an empty NAS message.
RrcEmptyTransfer(m, d) ==
  /\ Input(m)
  /\ Becomes(Finish([SetMsgInfo(SetRat(Begin(m), RatUMTS), CS) EXCEPT !.domain = d]))

RrcUnsupported(m) ==
  /\ Input(m)
  /\ Becomes(Finish(Undecoded(SetMsgInfo(SetRat(Begin(m), RatUMTS), CS))))

\* lte_eps.c: a plain NAS message is kept, a protected one is not.
LteEps(m, protected) ==
  /\ Input(m)
  /\ LET w == SetMsgInfo(SetRat(Begin(m), RatLTE), CS)
     IN Becomes(Finish(IF protected THEN Undecoded(w) ELSE w))

\* diag_input.c: for a message of LTE RRC handle_4G returns without the
\* message it has allocated, and without freeing it.
handle_4G(m) ==
  /\ open /\ Len(rows) < MaxRows
  /\ m \in Msg \ (live \cup lost)
  /\ lost' = lost \cup {m}
  /\ UNCHANGED <<s, s_id, rows, live, open, nsms, faults>>

(* session.c: the beginning and the end of an input file.                  *)

\* The name of the file can tell the technology.  Reading it cuts the name
\* at its dots, so that only the first of the two calls finds anything.
session_from_filename(sid, r) ==
  [d \in Domain |-> Cleared(sid + d, IF d = CS THEN r ELSE RatGSM, NULL, NoRat)]

session_init(r) ==
  /\ ~open /\ s_id < MaxSid
  /\ s' = session_from_filename(s_id, r)
  /\ s_id' = s_id + 2
  /\ open' = TRUE
  /\ UNCHANGED <<rows, live, lost, nsms, faults>>

\* Faulty variant of session_destroy: only one session is reset.
DestroyOnlyCS ==
  /\ open
  /\ Becomes(session_reset(Here, CS, FALSE))
  /\ open' = FALSE
  /\ UNCHANGED lost

\* The id counter is handed to the next file as *last_sid.
session_destroy ==
  /\ open
  /\ Becomes(ResetPS(session_reset(Here, CS, FALSE), FALSE))
  /\ open' = FALSE
  /\ UNCHANGED lost

-----------------------------------------------------------------------------
Init ==
  /\ \E r \in Rat : s = session_from_filename(StartSid, r)
  /\ s_id = StartSid + 2
  /\ rows = <<>>
  /\ live = {}
  /\ lost = {}
  /\ open = TRUE
  /\ nsms = 0
  /\ faults = {}

Next ==
  \/ \E m \in Msg : RadioKept(m)
  \/ \E m \in Msg, b \in Bearer : RadioDouble(m, b)
  \/ \E m \in Msg, b \in Bearer, t \in CCType : RadioCC(m, b, t)
  \/ \E m \in Msg, b \in Bearer, t \in MMType : RadioMM(m, b, t)
  \/ \E m \in Msg, b \in Bearer, t \in RRType : RadioRR(m, b, t)
  \/ \E m \in Msg, b \in Bearer, t \in GMMType : RadioGMM(m, b, t)
  \/ \E m \in Msg, b \in Bearer : RadioSM(m, b)
  \/ \E m \in Msg, b \in Bearer, t \in SMSType : RadioSMS(m, b, t)
  \/ \E m \in Msg, b \in Bearer : RadioOther(m, b)
  \/ \E m \in Msg : RrcSetupComplete(m)
  \/ \E m \in Msg : RrcRelease(m)
  \/ \E m \in Msg, d \in Domain : RrcOther(m, d)
  \/ \E m \in Msg, d \in Domain : RrcEmptyTransfer(m, d)
  \/ \E m \in Msg : RrcUnsupported(m)
  \/ \E m \in Msg, p \in BOOLEAN : LteEps(m, p)
  \/ \E m \in Msg : handle_4G(m)
  \/ \E r \in Rat : session_init(r)
  \/ session_destroy

Spec == Init /\ [][Next]_vars

\* Input files are finite: process_file always gets to diag_destroy, the only
\* step that closes the file, and it can do so whenever a file is open.
EndOfFile == open /\ open' = FALSE

FairSpec == Spec /\ WF_open(EndOfFile)

-----------------------------------------------------------------------------
(* Properties.                                                             *)

TypeOK ==
  /\ s \in [Domain -> SessionInfo]
  /\ s_id \in Nat
  /\ rows \in Seq(Row)
  /\ live \in SUBSET Msg
  /\ lost \in SUBSET Msg
  /\ open \in BOOLEAN
  /\ nsms \in Nat
  /\ faults \in SUBSET FaultKind

\* Between two messages every radio message that was given to
\* handle_radio_msg and not freed is on the message list of exactly one
\* session, once: none is leaked, none is linked twice and no list entry has
\* been freed (link_to_msg_list, session_reset and the end of
\* handle_radio_msg together).  The only other messages in memory are those
\* of LTE RRC that handle_4G forgets: they are on no list.
Ownership ==
  /\ live \cap lost = {}
  /\ live = Elems(s[CS].msgs) \cup Elems(s[PS].msgs)
  /\ Elems(s[CS].msgs) \cap Elems(s[PS].msgs) = {}
  /\ \A d \in Domain : \A i, j \in 1..Len(s[d].msgs) :
       s[d].msgs[i] = s[d].msgs[j] => i = j

\* No handler reads a message through a null or stale new_msg, no reset frees
\* the message it hands to the next session (the assertion of session_reset)
\* and nothing is freed twice, although _s[PS].new_msg is left dangling after
\* almost every message.
NoFault == faults = {}

\* A session id is written to the database once, over all the input files of
\* a run: ids are handed on from one file to the next (session_reset,
\* session_init, session_destroy).
RowIdsUnique ==
  \A i, j \in 1..Len(rows) : rows[i].id = rows[j].id => i = j

\* Whatever happens to a session that has started, its short messages stay
\* with it until one row with the session's id carries all of them.
SmsFollowSession ==
  [][\A d \in Domain : s[d].started =>
       \/ s'[d].id = s[d].id /\ s'[d].started /\ Elems(s[d].sms) \subseteq Elems(s'[d].sms)
       \/ \E i \in 1..Len(rows') : /\ i > Len(rows)
                                   /\ rows'[i].id = s[d].id /\ rows'[i].domain = d
                                   /\ Elems(s[d].sms) \subseteq Elems(rows'[i].sms)]_vars

\* Every session that starts is reported in the end, whichever way it ends (a
\* release, the request that begins the next one, or the end of the file): it
\* ends only by a row with its id, and none stays for ever.
StartedIsReported ==
  /\ [][\A d \in Domain : s[d].started =>
          \/ s'[d].id = s[d].id /\ s'[d].started
          \/ \E i \in 1..Len(rows') : i > Len(rows) /\ rows'[i].id = s[d].id]_vars
  /\ []<>(\A d \in Domain : ~s[d].started)
=============================================================================
