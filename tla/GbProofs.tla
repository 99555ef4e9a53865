------------------------------ MODULE GbProofs ------------------------------
(***************************************************************************)
(* The parts of the Gb interface, for all values of their constants:       *)
(*  - NsTable: the NS-VCs of an instance keep their identities, whatever   *)
(*    peers send and whenever timers expire;                               *)
(*  - Bssgp: BSS and SGSN agree about the BVCs, over losses and repetition *)
(*    of PDUs;                                                             *)
(*  - BssgpFc: flow control keeps every LLC PDU in one place, and a timer  *)
(*    for a queue that may be emptied.                                     *)
(***************************************************************************)
EXTENDS NsTable, Bssgp, BssgpFc, TLAPS

-----------------------------------------------------------------------------
(* NS-VCs: the invariant.                                                  *)

States == {"BLOCKED", "ALIVE", "RESET"}
Modes  == {None, "RESET", "ALIVE", "TEST"}

VcRec ==
  [nsvci : Ids \cup {Unset}, valid : {TRUE}, nsei : Ids \cup {0}, addr : Addrs \cup {None},
   state : SUBSET States, timer : Modes, retries : 0..(AliveRetries + 1),
   sgsn : BOOLEAN, persistent : {FALSE}]

\* An NS-VC between two steps: in the reset procedure its timer runs, and a test
\* is repeated only while retries are left.
Vc == {v \in VcRec : /\ "RESET" \in v.state => v.timer # None
                     /\ v.timer = "ALIVE" => v.retries <= AliveRetries}

\* The two identities of an NS-VC.
Unique(q) ==
  \A i, j \in DOMAIN q : /\ q[i].nsvci = q[j].nsvci => i = j
                         /\ q[i].addr = q[j].addr /\ q[i].addr # None => i = j

\* A list of NS-VCs, and an instance that has one.
Listed(q) == q \in Seq(Vc) /\ Unique(q)
Table(n) == "vcs" \in DOMAIN n /\ Listed(n.vcs)

\* The PDU has the identifiers it needs.
IsPdu(p) == p.t \in {"RESET", "RESET_ACK"} /\ p.full => p.nsvci \in Ids /\ p.nsei \in Ids

-----------------------------------------------------------------------------
(* Lists.                                                                  *)

\* One NS-VC changes and keeps its NSVCI; its address is the old one, none, or
\* one that nobody has.
LEMMA Changed ==
  ASSUME NEW q, Listed(q), NEW i \in DOMAIN q, NEW w \in Vc, w.nsvci = q[i].nsvci,
         \/ w.addr = q[i].addr \/ w.addr = None
         \/ \A k \in DOMAIN q : q[k].addr # w.addr
  PROVE  Listed([q EXCEPT ![i] = w])
  <1> DEFINE r == [q EXCEPT ![i] = w]
  <1>1. r \in Seq(Vc) /\ DOMAIN r = DOMAIN q /\ r[i] = w
    BY DEF Listed
  <1>2. \A k \in DOMAIN q : k # i => r[k] = q[k]
    OBVIOUS
  <1> HIDE DEF r
  <1>3. ASSUME NEW k \in DOMAIN r, NEW l \in DOMAIN r
        PROVE  /\ r[k].nsvci = r[l].nsvci => k = l
               /\ r[k].addr = r[l].addr /\ r[k].addr # None => k = l
    BY <1>1, <1>2, <1>3 DEF Listed, Unique
  <1> QED BY <1>1, <1>3 DEF Listed, Unique, r

\* A new NS-VC, with an NSVCI and an address that nobody has.
LEMMA Prefixed ==
  ASSUME NEW q, Listed(q), NEW w \in Vc,
         \A k \in DOMAIN q : q[k].nsvci # w.nsvci /\ (w.addr # None => q[k].addr # w.addr)
  PROVE  Listed(<<w>> \o q)
  <1> DEFINE r == <<w>> \o q
  <1>1. r \in Seq(Vc) /\ Len(r) = Len(q) + 1 /\ Len(q) \in Nat /\ DOMAIN q = 1..Len(q)
        /\ DOMAIN r = 1..Len(r) /\ r[1] = w
    BY DEF Listed
  <1>2. \A k \in 2..Len(r) : r[k] = q[k - 1] /\ k - 1 \in DOMAIN q
    BY <1>1 DEF Listed
  <1> HIDE DEF r
  <1>3. ASSUME NEW k \in DOMAIN r, NEW l \in DOMAIN r
        PROVE  /\ r[k].nsvci = r[l].nsvci => k = l
               /\ r[k].addr = r[l].addr /\ r[k].addr # None => k = l
    <2>1. CASE k = 1 /\ l = 1
      BY <2>1
    <2>2. CASE k = 1 /\ l # 1
      <3>1. l \in 2..Len(r) BY <1>1, <2>2
      <3> QED BY <1>1, <1>2, <2>2, <3>1
    <2>3. CASE k # 1 /\ l = 1
      <3>1. k \in 2..Len(r) BY <1>1, <2>3
      <3> QED BY <1>1, <1>2, <2>3, <3>1
    <2>4. CASE k # 1 /\ l # 1
      <3>1. k \in 2..Len(r) /\ l \in 2..Len(r) /\ k \in Int /\ l \in Int BY <1>1, <2>4
      <3>2. k - 1 = l - 1 => k = l BY <3>1
      <3> QED BY <1>2, <3>1, <3>2 DEF Listed, Unique
    <2> QED BY <2>1, <2>2, <2>3, <2>4
  <1> QED BY <1>1, <1>3 DEF Listed, Unique, r

\* NS-VC j takes the address of NS-VC i, which keeps none.
LEMMA TakenOver ==
  ASSUME NEW q, Listed(q), NEW i \in DOMAIN q, NEW j \in DOMAIN q, i # j,
         NEW w \in Vc, w.nsvci = q[j].nsvci, w.addr = q[i].addr
  PROVE  Listed([q EXCEPT ![j] = w, ![i].addr = None])
  <1> DEFINE v == [q[i] EXCEPT !.addr = None]
             r == [q EXCEPT ![i] = v]
  <1>1. q[i] \in Vc /\ q \in Seq(Vc)
    BY DEF Listed
  <1>2. v \in Vc /\ v.nsvci = q[i].nsvci /\ v.addr = None
    BY <1>1 DEF Vc, VcRec
  <1>3. [q EXCEPT ![j] = w, ![i].addr = None] = [r EXCEPT ![j] = w]
    OBVIOUS
  <1>4. DOMAIN r = DOMAIN q /\ r[i] = v /\ \A k \in DOMAIN q : k # i => r[k] = q[k]
    OBVIOUS
  <1> HIDE DEF v, r
  <1>5. Listed(r)
    BY <1>2, Changed DEF r
  <1>6. w.addr = None \/ \A k \in DOMAIN r : r[k].addr # w.addr
    BY <1>2, <1>4 DEF Listed, Unique
  <1>7. Listed([r EXCEPT ![j] = w])
    BY <1>4, <1>5, <1>6, Changed
  <1> QED BY <1>3, <1>7

\* The lookup by NSVCI.
LEMMA ByNsvci ==
  ASSUME NEW n, Table(n), NEW c
  PROVE  LET j == gprs_nsvc_by_nsvci(n, c)
         IN /\ j = 0 => \A k \in DOMAIN n.vcs : n.vcs[k].nsvci # c
            /\ j # 0 => j \in DOMAIN n.vcs /\ n.vcs[j].nsvci = c
  <1> DEFINE fit == {k \in DOMAIN n.vcs : n.vcs[k].nsvci = c}
             j   == IF fit = {} THEN 0 ELSE CHOOSE k \in fit : \A l \in fit : k <= l
  <1>1. gprs_nsvc_by_nsvci(n, c) = j
    BY DEF gprs_nsvc_by_nsvci, Lookup
  <1>2. ASSUME NEW k \in fit PROVE \A l \in fit : k <= l
    <2>1. \A l \in fit : l = k BY DEF Table, Listed, Unique
    <2>2. k \in Int BY DEF Table, Listed
    <2> QED BY <2>1, <2>2
  <1>3. 0 \notin DOMAIN n.vcs
    BY DEF Table, Listed
  <1>4. fit # {} => j \in fit
    BY <1>2
  <1>5. fit = {} => j = 0
    OBVIOUS
  <1> HIDE DEF j
  <1> QED BY <1>1, <1>3, <1>4, <1>5

\* The lookup by address.
LEMMA ByAddr ==
  ASSUME NEW n, Table(n), NEW a, a # None
  PROVE  LET j == nsvc_by_rem_addr(n, a)
         IN /\ j = 0 => \A k \in DOMAIN n.vcs : n.vcs[k].addr # a
            /\ j # 0 => j \in DOMAIN n.vcs /\ n.vcs[j].addr = a
  <1> DEFINE fit == {k \in DOMAIN n.vcs : n.vcs[k].addr = a}
             j   == IF fit = {} THEN 0 ELSE CHOOSE k \in fit : \A l \in fit : k <= l
  <1>1. nsvc_by_rem_addr(n, a) = j
    BY DEF nsvc_by_rem_addr, Lookup
  <1>2. ASSUME NEW k \in fit PROVE \A l \in fit : k <= l
    <2>1. \A l \in fit : l = k BY DEF Table, Listed, Unique
    <2>2. k \in Int BY DEF Table, Listed
    <2> QED BY <2>1, <2>2
  <1>3. 0 \notin DOMAIN n.vcs
    BY DEF Table, Listed
  <1>4. fit # {} => j \in fit
    BY <1>2
  <1>5. fit = {} => j = 0
    OBVIOUS
  <1> HIDE DEF j
  <1> QED BY <1>1, <1>3, <1>4, <1>5

-----------------------------------------------------------------------------
(* What is sent and told leaves the list alone.                            *)

\* A signal to the user of the instance.
LEMMA Signalled ==
  ASSUME NEW n, "vcs" \in DOMAIN n, NEW i, NEW s
  PROVE  "vcs" \in DOMAIN Signal(n, i, s) /\ Signal(n, i, s).vcs = n.vcs
  BY DEF Signal

\* A PDU to the peer.
LEMMA TransmittedNs ==
  ASSUME NEW n, "vcs" \in DOMAIN n, NEW i
  PROVE  /\ \A p : "vcs" \in DOMAIN gprs_ns_tx(n, i, p) /\ gprs_ns_tx(n, i, p).vcs = n.vcs
         /\ \A t : /\ "vcs" \in DOMAIN gprs_ns_tx_simple(n, i, t)
                   /\ gprs_ns_tx_simple(n, i, t).vcs = n.vcs
                   /\ "vcs" \in DOMAIN Identified(n, i, t)
                   /\ Identified(n, i, t).vcs = n.vcs
  <1>1. \A p : "vcs" \in DOMAIN gprs_ns_tx(n, i, p) /\ gprs_ns_tx(n, i, p).vcs = n.vcs
    BY DEF gprs_ns_tx
  <1> QED BY <1>1 DEF gprs_ns_tx_simple, Identified

Timed(q, i, m) == [q EXCEPT ![i].timer = m]
Moved(q, j, i) == [q EXCEPT ![j].addr = q[i].addr, ![i].addr = None]

\* RESET ACK after a signal.
LEMMA ResetAcked ==
  ASSUME NEW n, "vcs" \in DOMAIN n, NEW i, NEW s
  PROVE  LET m == gprs_ns_tx_reset_ack(Signal(n, i, s), i)
         IN "vcs" \in DOMAIN m /\ m.vcs = n.vcs
  <1>1. "vcs" \in DOMAIN Signal(n, i, s) /\ Signal(n, i, s).vcs = n.vcs
    BY Signalled
  <1> QED BY <1>1, TransmittedNs DEF gprs_ns_tx_reset_ack

\* A timer that is started is the only change of its NS-VC.
LEMMA TimerStarted ==
  ASSUME NEW n, "vcs" \in DOMAIN n, NEW i, NEW m
  PROVE  /\ "vcs" \in DOMAIN nsvc_start_timer(n, i, m)
         /\ nsvc_start_timer(n, i, m).vcs = Timed(n.vcs, i, m)
  BY DEF nsvc_start_timer, Timed

\* The test starts.
LEMMA TestStarted ==
  ASSUME NEW n, "vcs" \in DOMAIN n, NEW i
  PROVE  "vcs" \in DOMAIN Tested(n, i) /\ Tested(n, i).vcs = Timed(n.vcs, i, "TEST")
  BY TransmittedNs, TimerStarted DEF Tested

\* The test is repeated.
LEMMA TestRepeated ==
  ASSUME NEW n, "vcs" \in DOMAIN n, NEW i
  PROVE  /\ "vcs" \in DOMAIN TestAgain(n, i)
         /\ TestAgain(n, i).vcs = Timed(n.vcs, i, "ALIVE")
  BY TransmittedNs, TimerStarted DEF TestAgain

\* NS-VC j has the address of NS-VC i, and i has none.
LEMMA Replaced ==
  ASSUME NEW n, "vcs" \in DOMAIN n, NEW i, NEW j
  PROVE  "vcs" \in DOMAIN Replace(n, j, i) /\ Replace(n, j, i).vcs = Moved(n.vcs, j, i)
  <1> DEFINE m == [n EXCEPT !.vcs[j].addr = n.vcs[i].addr, !.vcs[i].addr = None]
  <1>1. "vcs" \in DOMAIN m /\ m.vcs = Moved(n.vcs, j, i)
    BY DEF Moved
  <1>2. Replace(n, j, i) = Signal(m, j, "REPLACED")
    BY DEF Replace
  <1> HIDE DEF m
  <1> QED BY <1>1, <1>2, Signalled

-----------------------------------------------------------------------------
(* The procedures.                                                         *)

\* The reset procedure starts.
LEMMA ResetStarted ==
  ASSUME NEW n, Table(n), NEW i \in DOMAIN n.vcs
  PROVE  Table(gprs_nsvc_reset(n, i))
  <1> DEFINE m == [n EXCEPT !.vcs[i].state = {"BLOCKED", "RESET"}]
             w == [n.vcs[i] EXCEPT !.state = {"BLOCKED", "RESET"}, !.timer = "RESET"]
             r == gprs_nsvc_reset(n, i)
  <1>1. "vcs" \in DOMAIN m /\ m.vcs = [n.vcs EXCEPT ![i].state = {"BLOCKED", "RESET"}]
    BY DEF Table
  <1>2. r = nsvc_start_timer(gprs_ns_tx_reset(m, i), i, "RESET")
    BY DEF gprs_nsvc_reset
  <1> HIDE DEF m, r
  <1>3. "vcs" \in DOMAIN r /\ r.vcs = Timed(m.vcs, i, "RESET")
    <2>1. /\ "vcs" \in DOMAIN gprs_ns_tx_reset(m, i)
          /\ gprs_ns_tx_reset(m, i).vcs = m.vcs
      <3>1. "vcs" \in DOMAIN m BY <1>1
      <3> QED BY <3>1, TransmittedNs DEF gprs_ns_tx_reset
    <2> QED BY <1>2, <2>1, TimerStarted
  <1>4. r.vcs = [n.vcs EXCEPT ![i] = w]
    BY <1>1, <1>3 DEF Table, Listed, Timed
  <1>5. n.vcs[i] \in Vc
    BY DEF Table, Listed
  <1>6. w \in Vc /\ w.nsvci = n.vcs[i].nsvci /\ w.addr = n.vcs[i].addr
    BY <1>5, TableAssumption DEF Vc, VcRec, Modes, States
  <1> HIDE DEF w
  <1>7. Listed([n.vcs EXCEPT ![i] = w])
    BY <1>6, Changed DEF Table
  <1> QED BY <1>3, <1>4, <1>7 DEF Table, r

\* An accepted RESET on the NS-VC that has the NSVCI already.
LEMMA AcceptedOwn ==
  ASSUME NEW n, Table(n), NEW i \in DOMAIN n.vcs, NEW p, p.nsei \in Ids,
         p.nsvci = n.vcs[i].nsvci
  PROVE  Table(Accept(n, i, 0, p))
  <1> DEFINE a == [n EXCEPT !.vcs[i].state = {"BLOCKED", "ALIVE"}, !.vcs[i].nsei = p.nsei]
             b == [a EXCEPT !.vcs[i].nsvci = p.nsvci, !.vcs[i].valid = TRUE]
             c == gprs_ns_tx_reset_ack(Signal(b, i, "RESET"), i)
             v == n.vcs[i]
             w == [v EXCEPT !.state = {"BLOCKED", "ALIVE"}, !.nsei = p.nsei, !.timer = "TEST"]
  <1>1. v \in Vc /\ n.vcs \in Seq(Vc)
    BY DEF Table, Listed
  <1>2. "vcs" \in DOMAIN b
        /\ b.vcs = [n.vcs EXCEPT ![i] = [v EXCEPT !.state = {"BLOCKED", "ALIVE"}, !.nsei = p.nsei,
                                                  !.nsvci = p.nsvci, !.valid = TRUE]]
    BY DEF Table
  <1>3. Accept(n, i, 0, p) = Tested(c, i)
    BY DEF Accept
  <1> HIDE DEF b
  <1>4. "vcs" \in DOMAIN c /\ c.vcs = b.vcs
    BY <1>2, ResetAcked
  <1> HIDE DEF c
  <1>5. "vcs" \in DOMAIN Tested(c, i) /\ Tested(c, i).vcs = Timed(b.vcs, i, "TEST")
    BY <1>4, TestStarted
  <1>6. w = [[v EXCEPT !.state = {"BLOCKED", "ALIVE"}, !.nsei = p.nsei,
                       !.nsvci = p.nsvci, !.valid = TRUE] EXCEPT !.timer = "TEST"]
    BY <1>1 DEF Vc, VcRec
  <1>7. Tested(c, i).vcs = [n.vcs EXCEPT ![i] = w]
    BY <1>2, <1>5, <1>6 DEF Timed
  <1>8. w \in Vc /\ w.nsvci = n.vcs[i].nsvci /\ w.addr = n.vcs[i].addr
    BY <1>1, TableAssumption DEF Vc, VcRec, Modes, States
  <1> HIDE DEF w
  <1>9. Listed([n.vcs EXCEPT ![i] = w])
    BY <1>8, Changed DEF Table
  <1> QED BY <1>3, <1>5, <1>7, <1>9 DEF Table

\* An accepted RESET on NS-VC i, which has the NSVCI and takes over the link of
\* NS-VC j.
LEMMA AcceptedOther ==
  ASSUME NEW n, Table(n), NEW i \in DOMAIN n.vcs, NEW j \in DOMAIN n.vcs, i # j, j # 0,
         NEW p, p.nsei \in Ids
  PROVE  Table(Accept(n, i, j, p))
  <1> DEFINE a == [n EXCEPT !.vcs[i].state = {"BLOCKED", "ALIVE"}, !.vcs[i].nsei = p.nsei]
             b == Replace(a, i, j)
             c == gprs_ns_tx_reset_ack(Signal(b, i, "RESET"), i)
             v == n.vcs[i]
             u == [v EXCEPT !.state = {"BLOCKED", "ALIVE"}, !.nsei = p.nsei]
             w == [u EXCEPT !.addr = n.vcs[j].addr, !.timer = "TEST"]
  <1>1. v \in Vc /\ n.vcs[j] \in Vc /\ n.vcs \in Seq(Vc)
    BY DEF Table, Listed
  <1>2. "vcs" \in DOMAIN a /\ a.vcs = [n.vcs EXCEPT ![i] = u]
    BY DEF Table
  <1>3. Accept(n, i, j, p) = Tested(c, i)
    BY DEF Accept
  <1> HIDE DEF a
  <1>4. "vcs" \in DOMAIN b
        /\ b.vcs = Moved(a.vcs, i, j)
    BY <1>2, Replaced
  <1> HIDE DEF b
  <1>5. "vcs" \in DOMAIN c /\ c.vcs = b.vcs
    BY <1>4, ResetAcked
  <1> HIDE DEF c
  <1>6. "vcs" \in DOMAIN Tested(c, i) /\ Tested(c, i).vcs = Timed(b.vcs, i, "TEST")
    BY <1>5, TestStarted
  <1>7. Tested(c, i).vcs = [n.vcs EXCEPT ![i] = w, ![j].addr = None]
    <2> DEFINE x == Tested(c, i).vcs
    <2>1. a.vcs[j] = n.vcs[j] /\ a.vcs[i] = u /\ DOMAIN a.vcs = DOMAIN n.vcs
      BY <1>2
    <2>2. x = Timed(Moved([n.vcs EXCEPT ![i] = u], i, j), i, "TEST")
      BY <1>2, <1>4, <1>6
    <2> QED BY <2>2 DEF Timed, Moved
  <1>8. w \in Vc /\ w.nsvci = n.vcs[i].nsvci /\ w.addr = n.vcs[j].addr
    BY <1>1, TableAssumption DEF Vc, VcRec, Modes, States
  <1> HIDE DEF w
  <1>9. Listed([n.vcs EXCEPT ![i] = w, ![j].addr = None])
    BY <1>8, TakenOver DEF Table
  <1> QED BY <1>3, <1>6, <1>7, <1>9 DEF Table

\* A RESET on NS-VC i whose peer has another NSVCI now.
LEMMA RenumberedKeeps ==
  ASSUME NEW n, Table(n), NEW i \in DOMAIN n.vcs, NEW p, p.nsvci \in Ids, p.nsei \in Ids,
         n.vcs[i].nsvci # p.nsvci
  PROVE  Table(Renumbered(n, i, p))
  <1> DEFINE j == gprs_nsvc_by_nsvci(n, p.nsvci)
  <1>1. /\ j = 0 => \A k \in DOMAIN n.vcs : n.vcs[k].nsvci # p.nsvci
        /\ j # 0 => j \in DOMAIN n.vcs /\ n.vcs[j].nsvci = p.nsvci
    BY ByNsvci
  <1>2. n.vcs \in Seq(Vc) /\ Len(n.vcs) \in Nat /\ DOMAIN n.vcs = 1..Len(n.vcs)
    BY DEF Table, Listed
  <1>3. CASE j = 0
    <2> DEFINE w == Nsvc(p.nsvci, p.nsei, None)
               m == gprs_nsvc_create(n, w)
    <2>1. w \in Vc /\ w.nsvci = p.nsvci /\ w.addr = None
      BY NsAssumption DEF Nsvc, Vc, VcRec, States, Modes
    <2> HIDE DEF w
    <2>2. "vcs" \in DOMAIN m /\ m.vcs = <<w>> \o n.vcs
      BY DEF gprs_nsvc_create, Table
    <2>3. Listed(<<w>> \o n.vcs)
      BY <1>1, <1>3, <2>1, Prefixed DEF Table
    <2>4. Table(m)
      BY <2>2, <2>3 DEF Table
    <2>5. Renumbered(n, i, p) = Accept(m, 1, i + 1, p)
      BY <1>3 DEF Renumbered, w
    <2>6. 1 \in DOMAIN m.vcs /\ i + 1 \in DOMAIN m.vcs /\ 1 # i + 1 /\ i + 1 # 0
      BY <1>2, <2>2
    <2> HIDE DEF m
    <2> QED BY <2>4, <2>5, <2>6, AcceptedOther
  <1>4. CASE j # 0 /\ Renumbered(n, i, p) = gprs_ns_tx_reset_ack(Signal(n, j, "MISMATCH"), j)
    <2> DEFINE m == gprs_ns_tx_reset_ack(Signal(n, j, "MISMATCH"), j)
    <2>1. "vcs" \in DOMAIN m /\ m.vcs = n.vcs
      BY ResetAcked DEF Table
    <2> HIDE DEF m
    <2>2. Table(m)
      BY <2>1 DEF Table
    <2> QED BY <1>4, <2>2 DEF m
  <1>5. CASE j # 0 /\ Renumbered(n, i, p) = Accept(n, j, i, p)
    <2>1. j \in DOMAIN n.vcs /\ j # i /\ i # 0
      BY <1>1, <1>2, <1>5
    <2> HIDE DEF j
    <2> QED BY <1>5, <2>1, AcceptedOther
  <1> QED BY <1>3, <1>4, <1>5 DEF Renumbered

\* RESET.
LEMMA RxReset ==
  ASSUME NEW n, Table(n), NEW i \in DOMAIN n.vcs, NEW p,
         p.full => p.nsvci \in Ids /\ p.nsei \in Ids
  PROVE  Table(gprs_ns_rx_reset(n, i, p))
  <1> DEFINE r == gprs_ns_rx_reset(n, i, p)
  <1>1. n.vcs[i].valid = TRUE
    <2>1. n.vcs[i] \in VcRec BY DEF Table, Listed, Vc
    <2>2. n.vcs[i].valid \in {TRUE} BY <2>1 DEF VcRec
    <2> QED BY <2>2
  <1>2. Table(gprs_ns_tx_status(n, i))
    BY TransmittedNs DEF Table, gprs_ns_tx_status
  <1>3. Table(gprs_ns_tx_reset_ack(Signal(n, i, "MISMATCH"), i))
    BY ResetAcked DEF Table
  <1>4. p.full /\ n.vcs[i].nsvci # p.nsvci => Table(Renumbered(n, i, p))
    BY RenumberedKeeps
  <1>5. p.full /\ n.vcs[i].nsvci = p.nsvci => Table(Accept(n, i, 0, p))
    BY AcceptedOwn
  <1> QED BY <1>1, <1>2, <1>3, <1>4, <1>5 DEF gprs_ns_rx_reset

\* The change of one NS-VC that keeps its identities.
LEMMA Touched ==
  ASSUME NEW n, Table(n), NEW i \in DOMAIN n.vcs, NEW m, "vcs" \in DOMAIN m, NEW w \in Vc,
         m.vcs = [n.vcs EXCEPT ![i] = w],
         w.nsvci = n.vcs[i].nsvci, w.addr = n.vcs[i].addr
  PROVE  Table(m)
  BY Changed DEF Table

\* RESET ACK.
LEMMA RxResetAck ==
  ASSUME NEW n, Table(n), NEW i \in DOMAIN n.vcs, NEW p,
         p.full => p.nsvci \in Ids /\ p.nsei \in Ids
  PROVE  Table(gprs_ns_rx_reset_ack(n, i, p))
  <1> DEFINE j == gprs_nsvc_by_nsvci(n, p.nsvci)
             Done(m, k) == Tested([m EXCEPT !.vcs[k].state = {"BLOCKED", "ALIVE"}], k)
             e == [n EXCEPT !.vcs[i].nsei = p.nsei]
  <1>1. n.vcs \in Seq(Vc) /\ n.vcs[i] \in Vc /\ "vcs" \in DOMAIN n
    BY DEF Table, Listed
  <1>2. Table(gprs_ns_tx_status(n, i))
    BY TransmittedNs DEF Table, gprs_ns_tx_status
  <1>3. Table(Signal(n, i, "MISMATCH"))
    BY Signalled DEF Table
  <1>4. ASSUME NEW m, "vcs" \in DOMAIN m, NEW k
        PROVE  /\ "vcs" \in DOMAIN Done(m, k)
               /\ Done(m, k).vcs = Timed([m.vcs EXCEPT ![k].state = {"BLOCKED", "ALIVE"}], k, "TEST")
    <2> DEFINE x == [m EXCEPT !.vcs[k].state = {"BLOCKED", "ALIVE"}]
    <2>1. "vcs" \in DOMAIN x /\ x.vcs = [m.vcs EXCEPT ![k].state = {"BLOCKED", "ALIVE"}]
      BY <1>4
    <2> HIDE DEF x
    <2>2. "vcs" \in DOMAIN Tested(x, k) /\ Tested(x, k).vcs = Timed(x.vcs, k, "TEST")
      BY <2>1, TestStarted
    <2> QED BY <2>1, <2>2 DEF x
  <1>5. p.full => Table(Done(e, i))
    <2> DEFINE w == [n.vcs[i] EXCEPT !.nsei = p.nsei, !.state = {"BLOCKED", "ALIVE"},
                                     !.timer = "TEST"]
    <2>1. "vcs" \in DOMAIN e /\ e.vcs = [n.vcs EXCEPT ![i].nsei = p.nsei]
      BY <1>1
    <2> HIDE DEF e
    <2>2. "vcs" \in DOMAIN Done(e, i)
          /\ Done(e, i).vcs = Timed([e.vcs EXCEPT ![i].state = {"BLOCKED", "ALIVE"}], i, "TEST")
      BY <1>4, <2>1
    <2> HIDE DEF Done
    <2>3. Done(e, i).vcs = [n.vcs EXCEPT ![i] = w]
      BY <2>1, <2>2 DEF Timed
    <2>4. p.full => w \in Vc /\ w.nsvci = n.vcs[i].nsvci /\ w.addr = n.vcs[i].addr
      BY <1>1, TableAssumption DEF Vc, VcRec, Modes, States
    <2> HIDE DEF w
    <2> QED BY <2>2, <2>3, <2>4, Touched
  <1>6. j # 0 /\ n.vcs[i].nsvci # p.nsvci => Table(Done(Replace(n, j, i), j))
    <2> SUFFICES ASSUME j # 0, n.vcs[i].nsvci # p.nsvci
                 PROVE  Table(Done(Replace(n, j, i), j))
      OBVIOUS
    <2>1. j \in DOMAIN n.vcs /\ j # i
      BY ByNsvci
    <2> HIDE DEF j
    <2> DEFINE x == Replace(n, j, i)
               w == [n.vcs[j] EXCEPT !.addr = n.vcs[i].addr, !.state = {"BLOCKED", "ALIVE"},
                                     !.timer = "TEST"]
    <2>2. "vcs" \in DOMAIN x /\ x.vcs = Moved(n.vcs, j, i)
      BY <1>1, Replaced
    <2> HIDE DEF x
    <2>3. "vcs" \in DOMAIN Done(x, j)
          /\ Done(x, j).vcs = Timed([x.vcs EXCEPT ![j].state = {"BLOCKED", "ALIVE"}], j, "TEST")
      BY <1>4, <2>2
    <2> HIDE DEF Done
    <2>4. Done(x, j).vcs = [n.vcs EXCEPT ![j] = w, ![i].addr = None]
      BY <2>1, <2>2, <2>3 DEF Timed, Moved
    <2>5. n.vcs[j] \in Vc
      BY <1>1, <2>1
    <2>6. w \in Vc /\ w.nsvci = n.vcs[j].nsvci /\ w.addr = n.vcs[i].addr
      BY <1>1, <2>5, TableAssumption DEF Vc, VcRec, Modes, States
    <2> HIDE DEF w
    <2>7. Listed([n.vcs EXCEPT ![j] = w, ![i].addr = None])
      BY <2>1, <2>6, TakenOver DEF Table
    <2> QED BY <2>3, <2>4, <2>7 DEF Table, x
  <1> QED BY <1>2, <1>3, <1>5, <1>6 DEF gprs_ns_rx_reset_ack

\* BLOCK: of the peer, or of the operator.
LEMMA Blocked ==
  ASSUME NEW n, Table(n), NEW i \in DOMAIN n.vcs
  PROVE  LET m == [n EXCEPT !.vcs[i].state = @ \cup {"BLOCKED"}]
         IN Table(m)
  <1> DEFINE m == [n EXCEPT !.vcs[i].state = @ \cup {"BLOCKED"}]
             w == [n.vcs[i] EXCEPT !.state = n.vcs[i].state \cup {"BLOCKED"}]
  <1>1. n.vcs[i] \in Vc
    BY DEF Table, Listed
  <1>2. "vcs" \in DOMAIN m /\ m.vcs = [n.vcs EXCEPT ![i] = w]
    BY DEF Table
  <1>3. w \in Vc /\ w.nsvci = n.vcs[i].nsvci /\ w.addr = n.vcs[i].addr
    BY <1>1 DEF Vc, VcRec, Modes, States
  <1> HIDE DEF m, w
  <1>4. Table(m)
    BY <1>2, <1>3, Touched
  <1> QED BY <1>4 DEF m

\* A PDU, or a signal and a PDU, after anything that keeps the list.
LEMMA Told ==
  ASSUME NEW n, Table(n), NEW i, NEW s, NEW t
  PROVE  /\ Table(Signal(n, i, s)) /\ Table(gprs_ns_tx_simple(n, i, t))
         /\ Table(Identified(n, i, t)) /\ Table(gprs_ns_tx_simple(Signal(n, i, s), i, t))
  <1>1. Table(Signal(n, i, s))
    BY Signalled DEF Table
  <1>2. ASSUME NEW m, Table(m)
        PROVE  Table(gprs_ns_tx_simple(m, i, t)) /\ Table(Identified(m, i, t))
    BY <1>2, TransmittedNs DEF Table
  <1> QED BY <1>1, <1>2

\* BLOCK of the peer.
LEMMA RxBlock ==
  ASSUME NEW n, Table(n), NEW i \in DOMAIN n.vcs, NEW p
  PROVE  Table(gprs_ns_rx_block(n, i, p))
  <1> DEFINE m == [n EXCEPT !.vcs[i].state = @ \cup {"BLOCKED"}]
  <1>1. Table(m)
    BY Blocked
  <1>2. gprs_ns_rx_block(n, i, p) \in
          {gprs_ns_tx_status(m, i), gprs_ns_tx_simple(Signal(m, i, "BLOCK"), i, "BLOCK_ACK")}
    BY DEF gprs_ns_rx_block
  <1> HIDE DEF m
  <1> QED BY <1>1, <1>2, Told DEF gprs_ns_tx_status

\* UNBLOCK, and its ACK: a smaller state, or an NS-VC that is alive.
LEMMA Unblocked ==
  ASSUME NEW n, Table(n), NEW i \in DOMAIN n.vcs, NEW e \in {n.vcs[i].state \ {"BLOCKED"}, {"ALIVE"}}
  PROVE  LET m == [n EXCEPT !.vcs[i].state = e]
         IN Table(m)
  <1> DEFINE m == [n EXCEPT !.vcs[i].state = e]
             w == [n.vcs[i] EXCEPT !.state = e]
  <1>1. n.vcs[i] \in Vc
    BY DEF Table, Listed
  <1>2. "vcs" \in DOMAIN m /\ m.vcs = [n.vcs EXCEPT ![i] = w]
    BY DEF Table
  <1>3. w \in Vc /\ w.nsvci = n.vcs[i].nsvci /\ w.addr = n.vcs[i].addr
    BY <1>1 DEF Vc, VcRec, Modes, States
  <1> HIDE DEF m, w
  <1>4. Table(m)
    BY <1>2, <1>3, Touched
  <1> QED BY <1>4 DEF m

\* ALIVE ACK.
LEMMA RxAliveAck ==
  ASSUME NEW n, Table(n), NEW i \in DOMAIN n.vcs
  PROVE  Table(rx_alive_ack(n, i))
  <1> DEFINE m == nsvc_start_timer(n, i, "TEST")
             w == [n.vcs[i] EXCEPT !.timer = "TEST"]
  <1>1. n.vcs[i] \in Vc
    BY DEF Table, Listed
  <1>2. "vcs" \in DOMAIN m /\ m.vcs = [n.vcs EXCEPT ![i] = w]
    BY TimerStarted DEF Table, Timed
  <1>3. w \in Vc /\ w.nsvci = n.vcs[i].nsvci /\ w.addr = n.vcs[i].addr
    BY <1>1, TableAssumption DEF Vc, VcRec, Modes, States
  <1>4. rx_alive_ack(n, i) \in {m, gprs_ns_tx_simple(m, i, "UNBLOCK")}
    BY DEF rx_alive_ack
  <1> HIDE DEF m, w
  <1>5. Table(m)
    BY <1>2, <1>3, Touched
  <1> QED BY <1>4, <1>5, Told

\* A PDU for NS-VC i.
LEMMA Processed ==
  ASSUME NEW n, Table(n), NEW i \in DOMAIN n.vcs, NEW p, IsPdu(p)
  PROVE  Table(gprs_ns_process_msg(n, i, p))
  <1> DEFINE m == gprs_ns_process_msg(n, i, p)
  <1>1. CASE p.t = "ALIVE"
    <2>1. m = rx_alive(n, i) BY <1>1 DEF gprs_ns_process_msg
    <2> QED BY <2>1, ResetStarted, Told DEF rx_alive
  <1>2. CASE p.t = "ALIVE_ACK"
    <2>1. m = rx_alive_ack(n, i) BY <1>2 DEF gprs_ns_process_msg
    <2> QED BY <2>1, RxAliveAck
  <1>3. CASE p.t = "UNITDATA"
    <2>1. m = gprs_ns_rx_unitdata(n, i) BY <1>3 DEF gprs_ns_process_msg
    <2> QED BY <2>1, Told DEF gprs_ns_rx_unitdata, gprs_ns_tx_status
  <1>4. CASE p.t = "RESET"
    <2>1. m = gprs_ns_rx_reset(n, i, p) BY <1>4 DEF gprs_ns_process_msg
    <2> QED BY <1>4, <2>1, RxReset DEF IsPdu
  <1>5. CASE p.t = "RESET_ACK"
    <2>1. m = gprs_ns_rx_reset_ack(n, i, p) BY <1>5 DEF gprs_ns_process_msg
    <2> QED BY <1>5, <2>1, RxResetAck DEF IsPdu
  <1>6. CASE p.t = "UNBLOCK"
    <2> DEFINE x == [n EXCEPT !.vcs[i].state = n.vcs[i].state \ {"BLOCKED"}]
    <2>1. m = gprs_ns_tx_simple(Signal(x, i, "UNBLOCK"), i, "UNBLOCK_ACK")
      BY <1>6 DEF gprs_ns_process_msg
    <2>2. Table(x) BY Unblocked
    <2> HIDE DEF x, m
    <2> QED BY <2>1, <2>2, Told DEF m
  <1>7. CASE p.t = "UNBLOCK_ACK"
    <2> DEFINE x == [n EXCEPT !.vcs[i].state = {"ALIVE"}]
    <2>1. m = Signal(x, i, "UNBLOCK") BY <1>7 DEF gprs_ns_process_msg
    <2>2. Table(x) BY Unblocked
    <2> HIDE DEF x, m
    <2> QED BY <2>1, <2>2, Told DEF m
  <1>8. CASE p.t = "BLOCK"
    <2>1. m = gprs_ns_rx_block(n, i, p) BY <1>8 DEF gprs_ns_process_msg
    <2> QED BY <2>1, RxBlock
  <1>9. CASE p.t \notin {"ALIVE", "ALIVE_ACK", "UNITDATA", "RESET", "RESET_ACK", "UNBLOCK",
                         "UNBLOCK_ACK", "BLOCK"}
    <2>1. m = n BY <1>9 DEF gprs_ns_process_msg
    <2> QED BY <2>1
  <1> QED BY <1>1, <1>2, <1>3, <1>4, <1>5, <1>6, <1>7, <1>8, <1>9

-----------------------------------------------------------------------------
(* The actions.                                                            *)

\* RESET from an address that no NS-VC has: a new NS-VC, or a known one moves.
LEMMA Created ==
  ASSUME NEW n, Table(n), NEW a \in Addrs, \A k \in DOMAIN n.vcs : n.vcs[k].addr # a,
         NEW p, IsPdu(p)
  PROVE  Table(gprs_ns_vc_create(n, a, p))
  <1> DEFINE j == gprs_nsvc_by_nsvci(n, p.nsvci)
             m == gprs_ns_vc_create(n, a, p)
  <1>1. n.vcs \in Seq(Vc) /\ "vcs" \in DOMAIN n
    BY DEF Table, Listed
  <1>2. CASE p.t \in {"STATUS", "ALIVE_ACK", "RESET_ACK"}
    <2>1. m = n BY <1>2 DEF gprs_ns_vc_create
    <2> QED BY <2>1
  <1>3. CASE p.t \notin {"STATUS", "ALIVE_ACK", "RESET_ACK"} /\ ~(p.t = "RESET" /\ p.full)
    <2>1. m = [n EXCEPT !.out = Append(n.out, [to |-> a, pdu |-> Simple("STATUS")])]
      BY <1>3 DEF gprs_ns_vc_create
    <2> HIDE DEF m
    <2> QED BY <1>1, <2>1 DEF Table, m
  <1>4. CASE p.t = "RESET" /\ p.full /\ j = 0
    <2> DEFINE v == [Nsvc(Unset, 0, a) EXCEPT !.valid = FALSE]
               x == gprs_nsvc_create(n, v)
               y == [x EXCEPT !.vcs[1].state = {"BLOCKED", "ALIVE"}, !.vcs[1].nsei = p.nsei]
               z == [y EXCEPT !.vcs[1].nsvci = p.nsvci, !.vcs[1].valid = TRUE]
               c == gprs_ns_tx_reset_ack(Signal(z, 1, "RESET"), 1)
               u == [v EXCEPT !.state = {"BLOCKED", "ALIVE"}, !.nsei = p.nsei,
                              !.nsvci = p.nsvci, !.valid = TRUE]
               w == [u EXCEPT !.timer = "TEST"]
    <2>1. m = gprs_ns_process_msg(x, 1, p)
      BY <1>4 DEF gprs_ns_vc_create
    <2>2. gprs_ns_process_msg(x, 1, p) = gprs_ns_rx_reset(x, 1, p)
      BY <1>4 DEF gprs_ns_process_msg
    <2>3. "vcs" \in DOMAIN x /\ x.vcs = <<v>> \o n.vcs
      BY <1>1 DEF gprs_nsvc_create
    <2>4. x.vcs[1] = v /\ DOMAIN x.vcs = 1..(Len(n.vcs) + 1) /\ Len(n.vcs) \in Nat
      <3>1. n.vcs \in Seq(Vc \cup {v}) /\ <<v>> \in Seq(Vc \cup {v}) BY <1>1
      <3> HIDE DEF v, x
      <3> QED BY <2>3, <3>1
    <2>5. v.valid = FALSE
      BY DEF Nsvc
    <2>6. gprs_ns_rx_reset(x, 1, p) = Accept(x, 1, 0, p)
      BY <1>4, <2>4, <2>5 DEF gprs_ns_rx_reset
    <2>7. Accept(x, 1, 0, p) = Tested(c, 1)
      BY DEF Accept
    <2> HIDE DEF x, v
    <2>8. "vcs" \in DOMAIN z
          /\ z.vcs = [x.vcs EXCEPT ![1] = u]
      BY <2>3, <2>4
    <2> HIDE DEF z
    <2>9. "vcs" \in DOMAIN c /\ c.vcs = z.vcs
      BY <2>8, ResetAcked
    <2> HIDE DEF c
    <2>10. "vcs" \in DOMAIN Tested(c, 1) /\ Tested(c, 1).vcs = Timed(z.vcs, 1, "TEST")
      BY <2>9, TestStarted
    <2>12. Tested(c, 1).vcs = [x.vcs EXCEPT ![1] = w]
      <3>1. 1 \in DOMAIN x.vcs BY <2>4
      <3> HIDE DEF u
      <3> QED BY <2>8, <2>10, <3>1 DEF Timed
    <2>13. w \in Vc /\ w.nsvci = p.nsvci /\ w.addr = a
      <3>1. p.nsvci \in Ids /\ p.nsei \in Ids BY <1>4 DEF IsPdu
      <3> DEFINE New == [nsvci : Ids \cup {Unset}, valid : {TRUE, FALSE}, nsei : Ids \cup {0},
                         addr : {a}, state : SUBSET States, timer : Modes, retries : {0},
                         sgsn : BOOLEAN, persistent : {FALSE}]
      <3>2. Nsvc(Unset, 0, a) \in New
        BY DEF Nsvc, States, Modes
      <3>3. v \in New
        BY <3>2 DEF v
      <3>4. u \in New /\ u.valid = TRUE /\ u.state = {"BLOCKED", "ALIVE"} /\ u.nsvci = p.nsvci
        BY <3>1, <3>3 DEF States
      <3> HIDE DEF u
      <3>5. w \in New /\ w.valid = TRUE /\ w.state = {"BLOCKED", "ALIVE"} /\ w.timer = "TEST"
            /\ w.nsvci = p.nsvci /\ w.addr = a
        BY <3>4 DEF Modes
      <3> HIDE DEF w
      <3>6. w \in VcRec
        <4>1. w = [nsvci |-> w.nsvci, valid |-> w.valid, nsei |-> w.nsei, addr |-> w.addr,
                   state |-> w.state, timer |-> w.timer, retries |-> w.retries,
                   sgsn |-> w.sgsn, persistent |-> w.persistent]
          BY <3>5
        <4>2. w.valid \in {TRUE} /\ w.nsvci \in Ids \cup {Unset} /\ w.nsei \in Ids \cup {0}
              /\ w.state \in SUBSET States /\ w.timer \in Modes /\ w.persistent \in {FALSE}
              /\ w.addr \in Addrs \cup {None}
          BY <3>5
        <4>3. w.retries \in 0..(AliveRetries + 1)
          <5>1. w.retries \in {0} BY <3>5
          <5> QED BY <5>1, NsAssumption
        <4>4. w.sgsn \in BOOLEAN BY <3>5
        <4> HIDE DEF New
        <4> QED BY <4>1, <4>2, <4>3, <4>4 DEF VcRec
      <3> QED BY <3>5, <3>6, TableAssumption DEF Vc
    <2> HIDE DEF w
    <2>14. [x.vcs EXCEPT ![1] = w] = <<w>> \o n.vcs
      <3> DEFINE S == Vc \cup {v, w}
      <3>1. n.vcs \in Seq(S) /\ <<v>> \in Seq(S) /\ <<w>> \in Seq(S) BY <1>1
      <3> HIDE DEF S, x
      <3> DEFINE l == [x.vcs EXCEPT ![1] = w]
                 r == <<w>> \o n.vcs
      <3>2. x.vcs \in Seq(S) /\ w \in S BY <2>3, <3>1 DEF S
      <3>3. l \in Seq(S) /\ r \in Seq(S) /\ Len(l) = Len(x.vcs) /\ Len(r) = Len(n.vcs) + 1
            /\ Len(x.vcs) = Len(n.vcs) + 1
        BY <2>3, <3>1, <3>2
      <3>4. \A k \in 1..Len(l) : l[k] = r[k]
        <4>1. \A k \in 2..Len(l) : l[k] = x.vcs[k] /\ k - 1 \in 1..Len(n.vcs)
          BY <3>1, <3>2, <3>3
        <4>2. \A k \in 2..Len(l) : x.vcs[k] = n.vcs[k - 1] /\ r[k] = n.vcs[k - 1]
          BY <2>3, <3>1, <3>3, <4>1
        <4>3. l[1] = w /\ r[1] = w
          BY <3>1, <3>2, <3>3
        <4> HIDE DEF l, r
        <4> QED BY <3>3, <4>1, <4>2, <4>3
      <3> HIDE DEF l, r
      <3>5. l = r
        BY <3>3, <3>4
      <3> QED BY <3>5 DEF l, r
    <2>15. Listed(<<w>> \o n.vcs)
      <3>1. \A k \in DOMAIN n.vcs : n.vcs[k].nsvci # p.nsvci BY <1>4, ByNsvci
      <3> QED BY <2>13, <3>1, Prefixed DEF Table
    <2> QED BY <2>1, <2>2, <2>6, <2>7, <2>10, <2>12, <2>14, <2>15 DEF Table
  <1>5. CASE p.t = "RESET" /\ p.full /\ j # 0
    <2> DEFINE x == [n EXCEPT !.vcs[j].nsei = p.nsei, !.vcs[j].addr = a]
               w == [n.vcs[j] EXCEPT !.nsei = p.nsei, !.addr = a]
    <2>1. m = gprs_ns_process_msg(x, j, p)
      BY <1>5 DEF gprs_ns_vc_create
    <2>2. j \in DOMAIN n.vcs /\ n.vcs[j].nsvci = p.nsvci
      BY <1>5, ByNsvci
    <2> HIDE DEF j, m
    <2>3. "vcs" \in DOMAIN x /\ x.vcs = [n.vcs EXCEPT ![j] = w]
      BY <1>1
    <2>4. n.vcs[j] \in Vc /\ p.nsei \in Ids
      BY <1>1, <1>5, <2>2 DEF IsPdu
    <2>5. w \in Vc /\ w.nsvci = n.vcs[j].nsvci /\ w.addr = a
      BY <2>4 DEF Vc, VcRec
    <2> HIDE DEF w, x
    <2>6. Table(x) /\ j \in DOMAIN x.vcs
      BY <2>2, <2>3, <2>5, Changed DEF Table
    <2> QED BY <2>1, <2>6, Processed DEF m
  <1> QED BY <1>2, <1>3, <1>4, <1>5

\* A PDU from any address.
LEMMA Received ==
  ASSUME NEW n, Table(n), NEW a \in Addrs, NEW p, IsPdu(p)
  PROVE  Table(gprs_ns_rcvmsg(n, a, p))
  <1> DEFINE i == nsvc_by_rem_addr(n, a)
  <1>1. a # None
    BY TableAssumption
  <1>2. /\ i = 0 => \A k \in DOMAIN n.vcs : n.vcs[k].addr # a
        /\ i # 0 => i \in DOMAIN n.vcs
    BY <1>1, ByAddr
  <1>3. i = 0 => Table(gprs_ns_vc_create(n, a, p))
    BY <1>2, Created
  <1>4. i # 0 => Table(gprs_ns_process_msg(n, i, p))
    BY <1>2, Processed
  <1> QED BY <1>3, <1>4 DEF gprs_ns_rcvmsg

\* The timer of an NS-VC.
LEMMA Expired ==
  ASSUME NEW n, Table(n), NEW i \in DOMAIN n.vcs, n.vcs[i].timer # None
  PROVE  Table(gprs_ns_timer_cb(n, i))
  <1> DEFINE v == n.vcs[i]
             r == v.retries + 1
             o == [n EXCEPT !.vcs[i].timer = None]
             m == gprs_ns_timer_cb(n, i)
  <1>1. v \in Vc /\ n.vcs \in Seq(Vc) /\ "vcs" \in DOMAIN n
    BY DEF Table, Listed
  <1>2. /\ v.timer \in {"ALIVE", "TEST", "RESET"} /\ v.retries \in 0..(AliveRetries + 1)
        /\ v.timer = "ALIVE" => v.retries <= AliveRetries
    BY <1>1 DEF Vc, VcRec, Modes
  <1>3. "vcs" \in DOMAIN o /\ o.vcs = [n.vcs EXCEPT ![i].timer = None]
    BY <1>1
  <1> DEFINE A == Signal(Signal([o EXCEPT !.vcs[i].retries = r, !.vcs[i].state = {"BLOCKED"}],
                                i, "ALIVE_EXP"), i, "BLOCK")
             B == TestAgain([o EXCEPT !.vcs[i].retries = r], i)
             C == TestAgain([o EXCEPT !.vcs[i].retries = 0], i)
             D == nsvc_start_timer(gprs_ns_tx_reset(o, i), i, "RESET")
  <1>m. m = CASE v.timer = "ALIVE" /\ r > AliveRetries -> A
              [] v.timer = "ALIVE" /\ r <= AliveRetries -> B
              [] v.timer = "TEST"  -> C
              [] v.timer = "RESET" -> D
    BY DEF gprs_ns_timer_cb
  <1>p. /\ v.timer = "ALIVE" /\ r > AliveRetries => m = A
        /\ v.timer = "ALIVE" /\ ~(r > AliveRetries) => m = B
        /\ v.timer = "TEST" => m = C
        /\ v.timer = "RESET" => m = D
    <2>1. r \in Int /\ AliveRetries \in Int BY <1>2, NsAssumption
    <2> HIDE DEF A, B, C, D, m, r
    <2> QED BY <1>m, <2>1
  <1>4. CASE v.timer = "ALIVE" /\ r > AliveRetries
    <2> DEFINE x == [o EXCEPT !.vcs[i].retries = r, !.vcs[i].state = {"BLOCKED"}]
               w == [v EXCEPT !.timer = None, !.retries = r, !.state = {"BLOCKED"}]
    <2>1. m = Signal(Signal(x, i, "ALIVE_EXP"), i, "BLOCK")
      BY <1>4, <1>p
    <2>2. "vcs" \in DOMAIN x /\ x.vcs = [n.vcs EXCEPT ![i] = w]
      BY <1>3
    <2>3. r \in 0..(AliveRetries + 1)
      BY <1>2, <1>4, NsAssumption
    <2> HIDE DEF r, m, o
    <2>4. w \in Vc /\ w.nsvci = v.nsvci /\ w.addr = v.addr
      BY <1>1, <2>3, TableAssumption DEF Vc, VcRec, Modes, States
    <2> HIDE DEF x, w
    <2>5. Table(x)
      BY <2>2, <2>4, Touched
    <2>6. Table(Signal(x, i, "ALIVE_EXP"))
      BY <2>5, Told
    <2> QED BY <2>1, <2>6, Told DEF m
  <1>5. CASE v.timer \in {"ALIVE", "TEST"} /\ ~(v.timer = "ALIVE" /\ r > AliveRetries)
    <2> DEFINE e == IF v.timer = "ALIVE" THEN r ELSE 0
               x == [o EXCEPT !.vcs[i].retries = e]
               w == [v EXCEPT !.timer = "ALIVE", !.retries = e]
    <2>2. m = TestAgain(x, i)
      BY <1>5, <1>p
    <2>3. e \in 0..AliveRetries
      BY <1>2, <1>5, NsAssumption
    <2> HIDE DEF e, m, r
    <2>4. "vcs" \in DOMAIN x /\ x.vcs = [n.vcs EXCEPT ![i] = [v EXCEPT !.timer = None, !.retries = e]]
      BY <1>3
    <2> HIDE DEF x
    <2>5. "vcs" \in DOMAIN m /\ m.vcs = Timed(x.vcs, i, "ALIVE")
      BY <2>2, <2>4, TestRepeated
    <2>6. m.vcs = [n.vcs EXCEPT ![i] = w]
      BY <2>4, <2>5 DEF Timed
    <2>7. w \in Vc /\ w.nsvci = v.nsvci /\ w.addr = v.addr
      <3>1. e \in 0..(AliveRetries + 1) /\ e <= AliveRetries BY <2>3, NsAssumption
      <3> QED BY <1>1, <3>1, TableAssumption DEF Vc, VcRec, Modes
    <2> HIDE DEF w
    <2>8. Table(m)
      BY <2>5, <2>6, <2>7, Touched
    <2> QED BY <2>8 DEF m
  <1>6. CASE v.timer = "RESET"
    <2> DEFINE x == gprs_ns_tx_reset(o, i)
    <2>1. m = nsvc_start_timer(x, i, "RESET")
      BY <1>6, <1>p
    <2> HIDE DEF o, m
    <2>2. "vcs" \in DOMAIN x /\ x.vcs = o.vcs
      <3>1. "vcs" \in DOMAIN o BY <1>3
      <3> QED BY <3>1, TransmittedNs DEF gprs_ns_tx_reset
    <2> HIDE DEF x
    <2>3. "vcs" \in DOMAIN m /\ m.vcs = Timed(x.vcs, i, "RESET")
      BY <2>1, <2>2, TimerStarted
    <2> DEFINE u == [v EXCEPT !.timer = None]
    <2>a. v = [u EXCEPT !.timer = "RESET"]
      BY <1>1, <1>6 DEF Vc, VcRec
    <2>b. m.vcs = Timed([n.vcs EXCEPT ![i] = u], i, "RESET")
      BY <1>3, <2>2, <2>3
    <2> HIDE DEF u
    <2>4. m.vcs = [n.vcs EXCEPT ![i] = v]
      BY <2>a, <2>b DEF Timed
    <2>5. Table(m)
      BY <1>1, <2>3, <2>4, Touched
    <2> QED BY <2>5 DEF m
  <1> QED BY <1>2, <1>4, <1>5, <1>6

\* The operator connects.
LEMMA Connected ==
  ASSUME NEW n, Table(n), NEW a \in Addrs, NEW c \in Ids, NEW e \in Ids,
         gprs_nsvc_by_nsvci(n, c) = 0
  PROVE  Table(gprs_ns_nsip_connect(n, a, e, c))
  <1> DEFINE j == nsvc_by_rem_addr(n, a)
             v == Nsvc(c, e, a)
             m == IF j = 0 THEN gprs_nsvc_create(n, v) ELSE n
             i == IF j = 0 THEN 1 ELSE j
             x == [m EXCEPT !.vcs[i].nsei = e, !.vcs[i].sgsn = TRUE]
             w == [m.vcs[i] EXCEPT !.nsei = e, !.sgsn = TRUE]
  <1>1. gprs_ns_nsip_connect(n, a, e, c) = gprs_nsvc_reset(x, i)
    BY DEF gprs_ns_nsip_connect
  <1>2. a # None
    BY TableAssumption
  <1>3. /\ j = 0 => \A k \in DOMAIN n.vcs : n.vcs[k].addr # a
        /\ j # 0 => j \in DOMAIN n.vcs
    BY <1>2, ByAddr
  <1>4. \A k \in DOMAIN n.vcs : n.vcs[k].nsvci # c
    BY ByNsvci
  <1> HIDE DEF j
  <1>5. Table(m) /\ i \in DOMAIN m.vcs
    <2>1. CASE j # 0
      BY <1>3, <2>1
    <2>2. CASE j = 0
      <3>1. v \in Vc /\ v.nsvci = c /\ v.addr = a
        BY NsAssumption DEF Nsvc, Vc, VcRec, States, Modes
      <3> HIDE DEF v
      <3>2. m = gprs_nsvc_create(n, v) /\ i = 1
        BY <2>2
      <3> HIDE DEF m, i
      <3>3. "vcs" \in DOMAIN m /\ m.vcs = <<v>> \o n.vcs
        BY <3>2 DEF gprs_nsvc_create, Table
      <3>4. Listed(<<v>> \o n.vcs)
        BY <1>3, <1>4, <2>2, <3>1, Prefixed DEF Table
      <3>5. 1 \in DOMAIN (<<v>> \o n.vcs)
        BY DEF Table, Listed
      <3> QED BY <3>2, <3>3, <3>4, <3>5 DEF Table
    <2> QED BY <2>1, <2>2
  <1> HIDE DEF m, i
  <1>6. "vcs" \in DOMAIN x /\ x.vcs = [m.vcs EXCEPT ![i] = w]
    BY <1>5 DEF Table
  <1>7. m.vcs[i] \in Vc
    BY <1>5 DEF Table, Listed
  <1>8. w \in Vc /\ w.nsvci = m.vcs[i].nsvci /\ w.addr = m.vcs[i].addr
    BY <1>7 DEF Vc, VcRec
  <1> HIDE DEF x, w
  <1>9. Table(x) /\ i \in DOMAIN x.vcs
    BY <1>5, <1>6, <1>8, Touched
  <1> QED BY <1>1, <1>9, ResetStarted

-----------------------------------------------------------------------------

\* What the peers send has the identifiers that are used.
LEMMA PdusTyped == \A p \in Pdus : IsPdu(p)
  BY TableAssumption DEF Pdus, IsPdu, Pdu, Simple

\* A step leaves the list as the handler left it.
LEMMA Settled ==
  ASSUME NEW n, Table(n), nsi' = [n EXCEPT !.out = <<>>, !.up = <<>>]
  PROVE  Table(nsi)'
  BY DEF Table

\* Every action keeps the list.
LEMMA Step ==
  ASSUME Table(nsi), [NsNext]_ns_vars
  PROVE  Table(nsi)'
  <1>1. ASSUME NEW a \in Addrs, NEW p \in Pdus, Rcv(a, p)
        PROVE  Table(nsi)'
    <2>1. Table(gprs_ns_rcvmsg(nsi, a, p))
      BY Received, PdusTyped
    <2> QED BY <1>1, <2>1, Settled DEF Rcv, Settle
  <1>2. ASSUME NEW i \in DOMAIN nsi.vcs, NsTimer(i)
        PROVE  Table(nsi)'
    <2>1. Table(gprs_ns_timer_cb(nsi, i))
      BY <1>2, Expired DEF NsTimer
    <2> QED BY <1>2, <2>1, Settled DEF NsTimer, Settle
  <1>3. ASSUME NEW i \in DOMAIN nsi.vcs, NsBlock(i)
        PROVE  Table(nsi)'
    <2>1. Table(gprs_ns_tx_block(nsi, i))
      BY Blocked, Told DEF gprs_ns_tx_block
    <2> QED BY <1>3, <2>1, Settled DEF NsBlock, Settle
  <1>4. ASSUME NEW a \in Uplinks, NEW x \in Pairs, Connect(a, x)
        PROVE  Table(nsi)'
    <2>1. a \in Addrs /\ x[1] \in Ids /\ x[2] \in Ids
      BY TableAssumption
    <2>2. Table(gprs_ns_nsip_connect(nsi, a, x[2], x[1]))
      BY <1>4, <2>1, Connected DEF Connect
    <2> QED BY <1>4, <2>2, Settled DEF Connect, Settle
  <1>5. CASE UNCHANGED ns_vars
    BY <1>5 DEF ns_vars
  <1> QED BY <1>1, <1>2, <1>3, <1>4, <1>5 DEF NsNext

\* The invariant says what the property says.
LEMMA Enough == Table(nsi) => NsvcUnique
  <1> SUFFICES ASSUME Table(nsi) PROVE NsvcUnique
    OBVIOUS
  <1>1. ASSUME NEW i \in DOMAIN nsi.vcs
        PROVE  nsi.vcs[i] \in Vc
    BY DEF Table, Listed
  <1>2. NsTypeOK
    BY <1>1 DEF NsTypeOK, Vc, VcRec, States, Modes
  <1>3. NsvciUnique /\ AddrUnique
    BY DEF NsvciUnique, AddrUnique, Table, Listed, Unique
  <1>4. ResetPending
    BY <1>1 DEF ResetPending, Vc
  <1> QED BY <1>2, <1>3, <1>4 DEF NsvcUnique

\* NSVCI and address identify an NS-VC, and one in the reset procedure has a
\* timer, for any number of NS-VCs and peers, any PDUs in any order and any
\* retries of the test.
THEOREM IdentitiesUnique == NsSpec => []NsvcUnique
  <1>1. NsInit => Table(nsi)
    BY DEF NsInit, gprs_ns_instantiate, Table, Listed, Unique
  <1>2. Table(nsi) /\ [NsNext]_ns_vars => Table(nsi)'
    BY Step
  <1> QED BY <1>1, <1>2, Enough, PTL DEF NsSpec

-----------------------------------------------------------------------------
(* BVCs: the invariant.                                                    *)

Ctx == [bvci : Bvcs, cell : Cells \cup {NoCell}, blocked : BOOLEAN]

\* The contexts of the SGSN: one per BVC.
Contexts(q) == q \in Seq(Ctx) /\ \A i, j \in DOMAIN q : q[i].bvci = q[j].bvci => i = j

\* A context of BVC b that is blocked or not.
Has(q, b, x) == \E i \in DOMAIN q : q[i].bvci = b /\ q[i].blocked = x

UpTypes == Requests \cup {"UL_UNITDATA", "LLC_DISCARD", "SUSPEND", "RESUME"}
Up == {p \in [t : UpTypes, ns : Int, bvci : Int, cell : Cells \cup {NoCell}] :
         /\ p.t \in Requests => p.ns = 0 /\ p.bvci \in Bvcs
         /\ p.t \in {"SUSPEND", "RESUME", "LLC_DISCARD"} => p.ns = 0
         /\ p.t = "UL_UNITDATA" => p.ns # 0}
Down == {p \in [t : Acks \cup {"STATUS", "SUSPEND_ACK", "RESUME_ACK", "SUSPEND_NACK"},
                ns : Int, bvci : Int, cell : {NoCell}] : p.t \in Acks => p.bvci \in Bvcs}

\* The PDUs of a BVC's procedures on one way: none, or no more than one.
Of(p, b) == Procedure(p) /\ p.bvci = b
Quiet(q, b) == \A i \in DOMAIN q : ~Of(q[i], b)
Alone(q, b) == \A i, j \in DOMAIN q : Of(q[i], b) /\ Of(q[j], b) => i = j

Typed ==
  /\ cellof \in [Ptp -> Cells \cup {NoCell}]
  /\ asked \in [Bvcs -> [req : Requests \cup {"NONE"}, acked : BOOLEAN]]
  /\ up \in Seq(Up) /\ down \in Seq(Down) /\ Contexts(ctxs)

\* One procedure of a BVC at a time, and one PDU of it.
OneAtATime ==
  \A b \in Bvcs : Alone(up, b) /\ Alone(down, b) /\ (Quiet(up, b) \/ Quiet(down, b))

\* The SGSN did what was asked of BVC b.
Done(q, a, b) == Has(q, b, a[b].req = "BLOCK")

\* A request on its way is what the BSS asked last, an acknowledgement on its way
\* is the answer to that and true, and so is one that has arrived.
Genuine ==
  /\ \A i \in DOMAIN up : up[i].t \in Requests =>
       asked[up[i].bvci].req = up[i].t /\ ~asked[up[i].bvci].acked
  /\ \A i \in DOMAIN down : down[i].t \in Acks =>
       /\ ~asked[down[i].bvci].acked
       /\ down[i].bvci # SIGNALLING => Done(ctxs, asked, down[i].bvci)
  /\ \A b \in Bvcs \ {SIGNALLING} : asked[b].acked => Done(ctxs, asked, b)

Agreement == Typed /\ OneAtATime /\ Genuine

-----------------------------------------------------------------------------
(* Queues.                                                                 *)

\* The types of PDUs.
LEMMA Kinds ==
  /\ Acks = {"RESET_ACK", "BLOCK_ACK", "UNBLOCK_ACK"}
  /\ Ack("RESET") = "RESET_ACK" /\ Ack("BLOCK") = "BLOCK_ACK" /\ Ack("UNBLOCK") = "UNBLOCK_ACK"
  /\ Ack("SUSPEND") = "SUSPEND_ACK" /\ Ack("RESUME") = "RESUME_ACK"
  <1>1. /\ Ack("RESET") = "RESET_ACK" /\ Ack("BLOCK") = "BLOCK_ACK" /\ Ack("UNBLOCK") = "UNBLOCK_ACK"
        /\ Ack("SUSPEND") = "SUSPEND_ACK" /\ Ack("RESUME") = "RESUME_ACK"
    BY DEF Ack
  <1> QED BY <1>1 DEF Acks, Requests

\* The first PDU of a way goes.
LEMMA Taken ==
  ASSUME NEW S, NEW q \in Seq(S), q # <<>>
  PROVE  /\ Head(q) = q[1] /\ 1 \in DOMAIN q /\ Tail(q) \in Seq(S)
         /\ \A i \in DOMAIN Tail(q) : i + 1 \in DOMAIN q /\ Tail(q)[i] = q[i + 1] /\ i # 0
         /\ \A b : /\ Alone(q, b) => Alone(Tail(q), b)
                   /\ Quiet(q, b) => Quiet(Tail(q), b)
                   /\ Alone(q, b) /\ Of(Head(q), b) => Quiet(Tail(q), b)
  <1>1. Head(q) = q[1] /\ 1 \in DOMAIN q /\ Tail(q) \in Seq(S) /\ Len(Tail(q)) = Len(q) - 1
        /\ Len(q) \in Nat /\ Len(q) > 0
    OBVIOUS
  <1>2. \A i \in DOMAIN Tail(q) : i + 1 \in DOMAIN q /\ Tail(q)[i] = q[i + 1] /\ i # 0 /\ i \in Int
    BY <1>1
  <1>3. ASSUME NEW b, Alone(q, b) PROVE Alone(Tail(q), b)
    <2> SUFFICES ASSUME NEW i \in DOMAIN Tail(q), NEW j \in DOMAIN Tail(q),
                        Of(Tail(q)[i], b), Of(Tail(q)[j], b)
                 PROVE  i = j
      BY DEF Alone
    <2>1. i + 1 = j + 1 BY <1>2, <1>3 DEF Alone
    <2> QED BY <1>2, <2>1
  <1>4. \A b : Quiet(q, b) => Quiet(Tail(q), b)
    BY <1>2 DEF Quiet
  <1>5. ASSUME NEW b, Alone(q, b), Of(Head(q), b) PROVE Quiet(Tail(q), b)
    <2> SUFFICES ASSUME NEW i \in DOMAIN Tail(q), Of(Tail(q)[i], b)
                 PROVE  FALSE
      BY DEF Quiet
    <2>1. 1 = i + 1 BY <1>1, <1>2, <1>5 DEF Alone
    <2> QED BY <1>2, <2>1
  <1> QED BY <1>1, <1>2, <1>3, <1>4, <1>5

\* A PDU is added to a way.
LEMMA Added ==
  ASSUME NEW S, NEW q \in Seq(S), NEW p \in S
  PROVE  /\ Append(q, p) \in Seq(S)
         /\ \A i \in DOMAIN Append(q, p) :
              \/ i \in DOMAIN q /\ Append(q, p)[i] = q[i]
              \/ Append(q, p)[i] = p
         /\ \A b : /\ Quiet(q, b) => Alone(Append(q, p), b)
                   /\ Alone(q, b) /\ ~Of(p, b) => Alone(Append(q, p), b)
                   /\ Quiet(q, b) /\ ~Of(p, b) => Quiet(Append(q, p), b)
  <1> DEFINE r == Append(q, p)
  <1>1. r \in Seq(S) /\ DOMAIN r = 1..(Len(q) + 1) /\ DOMAIN q = 1..Len(q) /\ Len(q) \in Nat
    OBVIOUS
  <1>2. \A i \in DOMAIN r : IF i = Len(q) + 1 THEN r[i] = p ELSE i \in DOMAIN q /\ r[i] = q[i]
    BY <1>1
  <1> HIDE DEF r
  <1>3. \A b : /\ Quiet(q, b) => Alone(r, b)
               /\ Alone(q, b) /\ ~Of(p, b) => Alone(r, b)
               /\ Quiet(q, b) /\ ~Of(p, b) => Quiet(r, b)
    BY <1>2 DEF Alone, Quiet
  <1> QED BY <1>1, <1>2, <1>3 DEF r

\* A context more.
LEMMA ContextAdded ==
  ASSUME NEW q, Contexts(q), NEW x \in Ctx, \A i \in DOMAIN q : q[i].bvci # x.bvci
  PROVE  /\ Contexts(<<x>> \o q) /\ Has(<<x>> \o q, x.bvci, x.blocked)
         /\ \A b, y : Has(q, b, y) => Has(<<x>> \o q, b, y)
  <1> DEFINE r == <<x>> \o q
  <1>1. r \in Seq(Ctx) /\ Len(r) = Len(q) + 1 /\ Len(q) \in Nat /\ DOMAIN q = 1..Len(q)
        /\ DOMAIN r = 1..Len(r) /\ r[1] = x
    BY DEF Contexts
  <1>2. \A k \in 2..Len(r) : r[k] = q[k - 1] /\ k - 1 \in DOMAIN q
    BY <1>1 DEF Contexts
  <1>3. \A k \in DOMAIN q : r[k + 1] = q[k] /\ k + 1 \in DOMAIN r
    BY <1>1 DEF Contexts
  <1> HIDE DEF r
  <1>4. ASSUME NEW k \in DOMAIN r, NEW l \in DOMAIN r, r[k].bvci = r[l].bvci
        PROVE  k = l
    <2>1. CASE k = 1 /\ l = 1
      BY <2>1
    <2>2. CASE k = 1 /\ l # 1
      <3>1. l \in 2..Len(r) BY <1>1, <2>2
      <3> QED BY <1>1, <1>2, <1>4, <2>2, <3>1
    <2>3. CASE k # 1 /\ l = 1
      <3>1. k \in 2..Len(r) BY <1>1, <2>3
      <3> QED BY <1>1, <1>2, <1>4, <2>3, <3>1
    <2>4. CASE k # 1 /\ l # 1
      <3>1. k \in 2..Len(r) /\ l \in 2..Len(r) /\ k \in Int /\ l \in Int BY <1>1, <2>4
      <3>2. k - 1 = l - 1 BY <1>2, <1>4, <3>1 DEF Contexts
      <3> QED BY <3>1, <3>2
    <2> QED BY <2>1, <2>2, <2>3, <2>4
  <1>5. Contexts(r) BY <1>1, <1>4 DEF Contexts
  <1>6. Has(r, x.bvci, x.blocked) BY <1>1 DEF Has
  <1>7. \A b, y : Has(q, b, y) => Has(r, b, y) BY <1>3 DEF Has
  <1> QED BY <1>5, <1>6, <1>7 DEF r

\* A context that changes.
LEMMA ContextChanged ==
  ASSUME NEW q, Contexts(q), NEW i \in DOMAIN q, NEW x \in Ctx, x.bvci = q[i].bvci
  PROVE  LET r == [q EXCEPT ![i] = x]
         IN /\ Contexts(r) /\ Has(r, x.bvci, x.blocked)
            /\ \A b, y : b # x.bvci /\ Has(q, b, y) => Has(r, b, y)
  <1> DEFINE r == [q EXCEPT ![i] = x]
  <1>1. r \in Seq(Ctx) /\ DOMAIN r = DOMAIN q /\ r[i] = x
    BY DEF Contexts
  <1>2. \A k \in DOMAIN q : k # i => r[k] = q[k]
    OBVIOUS
  <1> HIDE DEF r
  <1>3. Contexts(r)
    BY <1>1, <1>2 DEF Contexts
  <1>4. Has(r, x.bvci, x.blocked)
    BY <1>1 DEF Has
  <1>5. \A b, y : b # x.bvci /\ Has(q, b, y) => Has(r, b, y)
    BY <1>1, <1>2 DEF Has
  <1> QED BY <1>3, <1>4, <1>5 DEF r

\* The lookup of a context.
LEMMA ByBvci ==
  ASSUME Contexts(ctxs), NEW b
  PROVE  LET j == btsctx_by_bvci_nsei(b)
         IN /\ j = 0 => \A k \in DOMAIN ctxs : ctxs[k].bvci # b
            /\ j # 0 => j \in DOMAIN ctxs /\ ctxs[j].bvci = b
            /\ \A k \in DOMAIN ctxs : ctxs[k].bvci = b => j = k
  <1> DEFINE fit == {k \in DOMAIN ctxs : ctxs[k].bvci = b}
             j   == IF fit = {} THEN 0 ELSE CHOOSE k \in fit : \A l \in fit : k <= l
  <1>1. btsctx_by_bvci_nsei(b) = j
    BY DEF btsctx_by_bvci_nsei, First
  <1>2. ASSUME NEW k \in fit PROVE \A l \in fit : k <= l /\ l = k
    <2>1. \A l \in fit : l = k BY DEF Contexts
    <2>2. k \in Int BY DEF Contexts
    <2> QED BY <2>1, <2>2
  <1>3. 0 \notin DOMAIN ctxs
    BY DEF Contexts
  <1>4. fit # {} => j \in fit
    BY <1>2
  <1>5. fit = {} => j = 0
    OBVIOUS
  <1> HIDE DEF j
  <1> QED BY <1>1, <1>2, <1>3, <1>4, <1>5

-----------------------------------------------------------------------------
(* The BSS.                                                                *)

\* The BSS starts a procedure of a BVC of which nothing is on its way.
LEMMA Started ==
  ASSUME Agreement, NEW b \in Bvcs, NEW t \in Requests, NEW p \in Up, p.t = t, p.bvci = b,
         Procedures(b, t, p)
  PROVE  Agreement'
  <1>1. up' = Append(up, p) /\ UNCHANGED <<ctxs, down, cellof>>
    BY DEF Procedures, Send
  <1>2. asked' = [asked EXCEPT ![b] = [req |-> t, acked |-> FALSE]]
    BY DEF Procedures
  <1>3. up \in Seq(Up) /\ down \in Seq(Down)
    BY DEF Agreement, Typed
  <1>4. Quiet(up, b) /\ Quiet(down, b)
    BY <1>3 DEF Procedures, Free, Quiet, Of, Range
  <1>5. asked' \in [Bvcs -> [req : Requests \cup {"NONE"}, acked : BOOLEAN]]
        /\ asked'[b].req = t /\ asked'[b].acked = FALSE
        /\ \A c \in Bvcs : c # b => asked'[c] = asked[c]
    BY <1>2 DEF Agreement, Typed
  <1>6. \A c : ~Of(p, c) \/ c = b
    BY DEF Of
  <1>7. Typed'
    BY <1>1, <1>3, <1>5, Added DEF Agreement, Typed, Contexts
  <1>8. OneAtATime'
    <2> SUFFICES ASSUME NEW c \in Bvcs
                 PROVE  Alone(up', c) /\ Alone(down, c) /\ (Quiet(up', c) \/ Quiet(down, c))
      BY <1>1 DEF OneAtATime
    <2>1. Alone(up, c) /\ Alone(down, c) /\ (Quiet(up, c) \/ Quiet(down, c))
      BY DEF Agreement, OneAtATime
    <2> QED BY <1>1, <1>3, <1>4, <1>6, <2>1, Added
  <1>9. \A c \in Bvcs : c # b => Done(ctxs', asked', c) = Done(ctxs, asked, c)
    BY <1>1, <1>5 DEF Done, Has
  <1>10. Genuine'
    <2>1. ASSUME NEW i \in DOMAIN up', up'[i].t \in Requests
          PROVE  asked'[up'[i].bvci].req = up'[i].t /\ ~asked'[up'[i].bvci].acked
      <3>1. CASE i \in DOMAIN up /\ up'[i] = up[i]
        <4>1. up[i].bvci \in Bvcs /\ up[i].bvci # b
          BY <1>3, <1>4, <2>1, <3>1 DEF Up, Quiet, Of, Procedure
        <4> QED BY <1>5, <2>1, <3>1, <4>1 DEF Agreement, Genuine
      <3>2. CASE up'[i] = p
        BY <1>5, <3>2
      <3> QED BY <1>1, <1>3, <2>1, <3>1, <3>2, Added
    <2>2. ASSUME NEW i \in DOMAIN down, down[i].t \in Acks
          PROVE  ~asked'[down[i].bvci].acked /\ (down[i].bvci # SIGNALLING => Done(ctxs', asked', down[i].bvci))
      <3>1. down[i].bvci \in Bvcs /\ down[i].bvci # b
        BY <1>3, <1>4, <2>2 DEF Down, Quiet, Of, Procedure
      <3> QED BY <1>5, <1>9, <2>2, <3>1 DEF Agreement, Genuine
    <2>3. ASSUME NEW c \in Bvcs \ {SIGNALLING}, asked'[c].acked
          PROVE  Done(ctxs', asked', c)
      BY <1>5, <1>9, <2>3 DEF Agreement, Genuine
    <2> QED BY <1>1, <2>1, <2>2, <2>3 DEF Genuine
  <1> QED BY <1>7, <1>8, <1>10 DEF Agreement

\* The BSS sends something else.
LEMMA SentOther ==
  ASSUME Agreement, NEW p \in Up, ~Procedure(p), Send(p), UNCHANGED <<cellof, asked>>
  PROVE  Agreement'
  <1>1. up' = Append(up, p) /\ UNCHANGED <<ctxs, down, cellof, asked>>
    BY DEF Send
  <1>2. up \in Seq(Up)
    BY DEF Agreement, Typed
  <1>3. \A c : ~Of(p, c)
    BY DEF Of
  <1>4. Typed'
    BY <1>1, <1>2, Added DEF Agreement, Typed, Contexts
  <1>5. OneAtATime'
    BY <1>1, <1>2, <1>3, Added DEF Agreement, OneAtATime
  <1>6. \A c : Done(ctxs', asked', c) = Done(ctxs, asked, c)
    BY <1>1
  <1>7. \A i \in DOMAIN up' : up'[i].t \in Requests => i \in DOMAIN up /\ up'[i] = up[i]
    BY <1>1, <1>2, Added DEF Procedure
  <1>8. Genuine'
    BY <1>1, <1>6, <1>7 DEF Agreement, Genuine
  <1> QED BY <1>4, <1>5, <1>8 DEF Agreement

\* The first PDU towards the SGSN goes, and nothing else happens.
LEMMA UpLost ==
  ASSUME Agreement, up # <<>>, up' = Tail(up), UNCHANGED <<cellof, asked, ctxs, down>>
  PROVE  Agreement'
  <1>1. up \in Seq(Up)
    BY DEF Agreement, Typed
  <1>2. Typed'
    BY <1>1, Taken DEF Agreement, Typed, Contexts
  <1>3. OneAtATime'
    BY <1>1, Taken DEF Agreement, OneAtATime
  <1>4. \A c : Done(ctxs', asked', c) = Done(ctxs, asked, c)
    BY DEF Done, Has
  <1>5. \A i \in DOMAIN up' : i + 1 \in DOMAIN up /\ up'[i] = up[i + 1]
    BY <1>1, Taken
  <1>6. Genuine'
    BY <1>4, <1>5 DEF Agreement, Genuine
  <1> QED BY <1>2, <1>3, <1>6 DEF Agreement

\* The first PDU towards the BSS goes, and nothing else happens.
LEMMA DownLost ==
  ASSUME Agreement, down # <<>>, down' = Tail(down), UNCHANGED <<cellof, asked, ctxs, up>>
  PROVE  Agreement'
  <1>1. down \in Seq(Down)
    BY DEF Agreement, Typed
  <1>2. Typed'
    BY <1>1, Taken DEF Agreement, Typed, Contexts
  <1>3. OneAtATime'
    BY <1>1, Taken DEF Agreement, OneAtATime
  <1>4. \A c : Done(ctxs', asked', c) = Done(ctxs, asked, c)
    BY DEF Done, Has
  <1>5. \A i \in DOMAIN down' : i + 1 \in DOMAIN down /\ down'[i] = down[i + 1]
    BY <1>1, Taken
  <1>6. Genuine'
    BY <1>4, <1>5 DEF Agreement, Genuine
  <1> QED BY <1>2, <1>3, <1>6 DEF Agreement

\* An acknowledgement arrives, and with it the procedure is over.
LEMMA Acknowledged ==
  ASSUME Agreement, down # <<>>, Head(down).t \in Acks,
         asked' = [asked EXCEPT ![Head(down).bvci].acked = TRUE],
         down' = Tail(down), UNCHANGED <<cellof, ctxs, up>>
  PROVE  Agreement'
  <1> DEFINE p == Head(down)
             b == p.bvci
  <1>1. down \in Seq(Down) /\ up \in Seq(Up)
    BY DEF Agreement, Typed
  <1>2. p = down[1] /\ 1 \in DOMAIN down /\ p \in Down
    BY <1>1, Taken
  <1>3. b \in Bvcs
    BY <1>2 DEF Down
  <1>4. Of(p, b)
    BY DEF Of, Procedure
  <1> HIDE DEF p, b
  <1>5. Quiet(down', b) /\ Quiet(up, b)
    <2>1. Alone(down, b) /\ (Quiet(up, b) \/ Quiet(down, b))
      BY <1>3 DEF Agreement, OneAtATime
    <2>2. ~Quiet(down, b)
      BY <1>2, <1>4 DEF Quiet
    <2> QED BY <1>1, <1>4, <2>1, <2>2, Taken DEF p
  <1>6. asked' \in [Bvcs -> [req : Requests \cup {"NONE"}, acked : BOOLEAN]]
        /\ asked'[b].req = asked[b].req
        /\ \A c \in Bvcs : c # b => asked'[c] = asked[c]
    BY <1>3 DEF Agreement, Typed, b, p
  <1>7. \A c \in Bvcs : Done(ctxs', asked', c) = Done(ctxs, asked, c)
    BY <1>6 DEF Done, Has
  <1>8. Typed'
    BY <1>1, <1>6, Taken DEF Agreement, Typed, Contexts
  <1>9. OneAtATime'
    BY <1>1, Taken DEF Agreement, OneAtATime
  <1>10. Genuine'
    <2>1. ASSUME NEW i \in DOMAIN up, up[i].t \in Requests
          PROVE  asked'[up[i].bvci].req = up[i].t /\ ~asked'[up[i].bvci].acked
      <3>1. up[i].bvci \in Bvcs /\ up[i].bvci # b
        BY <1>1, <1>5, <2>1 DEF Up, Quiet, Of, Procedure
      <3> QED BY <1>6, <2>1, <3>1 DEF Agreement, Genuine
    <2>2. ASSUME NEW i \in DOMAIN down', down'[i].t \in Acks
          PROVE  ~asked'[down'[i].bvci].acked /\ (down'[i].bvci # SIGNALLING => Done(ctxs', asked', down'[i].bvci))
      <3>1. i + 1 \in DOMAIN down /\ down'[i] = down[i + 1]
        BY <1>1, Taken
      <3>2. down'[i].bvci \in Bvcs /\ down'[i].bvci # b
        BY <1>1, <1>5, <2>2, <3>1 DEF Down, Quiet, Of, Procedure
      <3> QED BY <1>6, <1>7, <2>2, <3>1, <3>2 DEF Agreement, Genuine
    <2>3. ASSUME NEW c \in Bvcs \ {SIGNALLING}, asked'[c].acked
          PROVE  Done(ctxs', asked', c)
      <3>1. CASE c = b
        BY <1>2, <1>7, <2>3, <3>1 DEF Agreement, Genuine, b, p
      <3>2. CASE c # b
        BY <1>6, <1>7, <2>3, <3>2 DEF Agreement, Genuine
      <3> QED BY <3>1, <3>2
    <2> QED BY <2>1, <2>2, <2>3 DEF Genuine
  <1> QED BY <1>8, <1>9, <1>10 DEF Agreement

-----------------------------------------------------------------------------
(* The SGSN.                                                               *)

\* The SGSN answers with a PDU that belongs to no procedure.
LEMMA Answered ==
  ASSUME Agreement, up # <<>>, up' = Tail(up), NEW r \in Down, ~Procedure(r),
         down' = Append(down, r), UNCHANGED <<cellof, asked, ctxs>>
  PROVE  Agreement'
  <1>1. up \in Seq(Up) /\ down \in Seq(Down)
    BY DEF Agreement, Typed
  <1>2. \A c : ~Of(r, c)
    BY DEF Of
  <1>3. Typed'
    <2>1. up' \in Seq(Up) BY <1>1, Taken
    <2>2. down' \in Seq(Down) BY <1>1, Added
    <2> QED BY <2>1, <2>2 DEF Agreement, Typed, Contexts
  <1>4. OneAtATime'
    <2> SUFFICES ASSUME NEW c \in Bvcs
                 PROVE  Alone(up', c) /\ Alone(down', c) /\ (Quiet(up', c) \/ Quiet(down', c))
      BY DEF OneAtATime
    <2>1. Alone(up, c) /\ Alone(down, c) /\ (Quiet(up, c) \/ Quiet(down, c))
      BY DEF Agreement, OneAtATime
    <2>2. Alone(up', c) /\ (Quiet(up, c) => Quiet(up', c))
      BY <1>1, <2>1, Taken
    <2>3. Alone(down', c) /\ (Quiet(down, c) => Quiet(down', c))
      BY <1>1, <1>2, <2>1, Added
    <2> QED BY <2>1, <2>2, <2>3
  <1>5. \A i \in DOMAIN up' : i + 1 \in DOMAIN up /\ up'[i] = up[i + 1]
    BY <1>1, Taken
  <1>6. \A i \in DOMAIN down' : down'[i].t \in Acks => i \in DOMAIN down /\ down'[i] = down[i]
    BY <1>1, Added DEF Procedure
  <1>7. Genuine'
    BY <1>5, <1>6 DEF Agreement, Genuine
  <1> QED BY <1>3, <1>4, <1>7 DEF Agreement

\* The SGSN does what a request asks of a BVC, and acknowledges it or not.
LEMMA Served ==
  ASSUME Agreement, up # <<>>, up' = Tail(up), UNCHANGED <<cellof, asked>>,
         NEW b, b = Head(up).bvci, Head(up).t \in Requests,
         Contexts(ctxs'), Has(ctxs', b, Head(up).t = "BLOCK"),
         \A c, y : c # b /\ Has(ctxs, c, y) => Has(ctxs', c, y),
         NEW r \in Down, r.t \in Acks, r.bvci = b,
         down' = Append(down, r) \/ down' = down
  PROVE  Agreement'
  <1>1. up \in Seq(Up) /\ down \in Seq(Down)
    BY DEF Agreement, Typed
  <1>2. Head(up) = up[1] /\ 1 \in DOMAIN up /\ up[1] \in Up
    BY <1>1, Taken
  <1>3. b \in Bvcs
    BY <1>2 DEF Up
  <1>4. Of(Head(up), b)
    BY DEF Of, Procedure
  <1>5. Quiet(up', b) /\ Quiet(down, b)
    <2>1. Alone(up, b) /\ (Quiet(up, b) \/ Quiet(down, b))
      BY <1>3 DEF Agreement, OneAtATime
    <2>2. ~Quiet(up, b)
      BY <1>2, <1>4 DEF Quiet
    <2> QED BY <1>1, <1>4, <2>1, <2>2, Taken
  <1>6. asked[b].req = Head(up).t /\ ~asked[b].acked
    BY <1>2 DEF Agreement, Genuine
  <1>7. \A c : Done(ctxs, asked, c) /\ c # b => Done(ctxs', asked', c)
    BY DEF Done
  <1>8. Done(ctxs', asked', b)
    BY <1>6 DEF Done
  <1>9. \A c : c # b => ~Of(r, c)
    BY DEF Of
  <1>10. \A i \in DOMAIN up' : i + 1 \in DOMAIN up /\ up'[i] = up[i + 1]
    BY <1>1, Taken
  <1>11. \A i \in DOMAIN down' : (i \in DOMAIN down /\ down'[i] = down[i]) \/ down'[i] = r
    <2>1. CASE down' = down
      BY <2>1
    <2>2. CASE down' = Append(down, r)
      BY <1>1, <2>2, Added
    <2> QED BY <2>1, <2>2
  <1>12. down' \in Seq(Down)
    BY <1>1, Added
  <1>13. Typed'
    <2>1. up' \in Seq(Up) BY <1>1, Taken
    <2> QED BY <1>12, <2>1 DEF Agreement, Typed, Contexts
  <1>14. OneAtATime'
    <2> SUFFICES ASSUME NEW c \in Bvcs
                 PROVE  Alone(up', c) /\ Alone(down', c) /\ (Quiet(up', c) \/ Quiet(down', c))
      BY DEF OneAtATime
    <2>1. Alone(up, c) /\ Alone(down, c) /\ (Quiet(up, c) \/ Quiet(down, c))
      BY DEF Agreement, OneAtATime
    <2>2. Alone(up', c) /\ (Quiet(up, c) => Quiet(up', c))
      BY <1>1, <2>1, Taken
    <2>3. CASE c = b
      <3>1. Alone(Append(down, r), c) BY <1>1, <1>5, <2>3, Added
      <3>2. Alone(down', c) BY <2>1, <3>1
      <3> QED BY <1>5, <2>2, <2>3, <3>2
    <2>4. CASE c # b
      <3>1. Alone(Append(down, r), c) /\ (Quiet(down, c) => Quiet(Append(down, r), c))
        BY <1>1, <1>9, <2>1, <2>4, Added
      <3>2. Alone(down', c) /\ (Quiet(down, c) => Quiet(down', c))
        BY <2>1, <3>1
      <3> QED BY <2>1, <2>2, <3>2
    <2> QED BY <2>3, <2>4
  <1>15. Genuine'
    <2>1. ASSUME NEW i \in DOMAIN up', up'[i].t \in Requests
          PROVE  asked[up'[i].bvci].req = up'[i].t /\ ~asked[up'[i].bvci].acked
      BY <1>10, <2>1 DEF Agreement, Genuine
    <2>2. ASSUME NEW i \in DOMAIN down', down'[i].t \in Acks
          PROVE  /\ ~asked[down'[i].bvci].acked
                 /\ down'[i].bvci # SIGNALLING => Done(ctxs', asked', down'[i].bvci)
      <3>1. CASE down'[i] = r
        BY <1>6, <1>8, <3>1
      <3>2. CASE i \in DOMAIN down /\ down'[i] = down[i]
        <4>1. down[i].bvci # b
          BY <1>5, <2>2, <3>2 DEF Quiet, Of, Procedure
        <4>2. ~asked[down[i].bvci].acked
              /\ (down[i].bvci # SIGNALLING => Done(ctxs, asked, down[i].bvci))
          BY <2>2, <3>2 DEF Agreement, Genuine
        <4> QED BY <1>7, <3>2, <4>1, <4>2
      <3> QED BY <1>11, <3>1, <3>2
    <2>3. ASSUME NEW c \in Bvcs \ {SIGNALLING}, asked[c].acked
          PROVE  Done(ctxs', asked', c)
      BY <1>6, <1>7, <2>3 DEF Agreement, Genuine
    <2> QED BY <2>1, <2>2, <2>3 DEF Genuine
  <1> QED BY <1>13, <1>14, <1>15 DEF Agreement

\* The acknowledgement of a request.
LEMMA TheAck ==
  ASSUME NEW t \in Acks, NEW b \in Bvcs, NEW n \in Int
  PROVE  /\ BssgpPdu(t, n, b, NoCell) \in Down
         /\ BssgpPdu(t, n, b, NoCell).t = t /\ BssgpPdu(t, n, b, NoCell).bvci = b
  BY BssgpAssumption DEF BssgpPdu, Down

\* A reset makes the context, or opens it again.
LEMMA Resets ==
  ASSUME Agreement, up # <<>>, up' = Tail(up), UNCHANGED <<cellof, asked>>,
         Head(up).t = "RESET", bssgp_rx_bvc_reset(Head(up))
  PROVE  Agreement'
  <1> DEFINE p == Head(up)
             b == p.bvci
             i == btsctx_by_bvci_nsei(b)
             y == IF i = 0 THEN btsctx_alloc(b) ELSE ctxs[i]
             z == IF b \in {SIGNALLING, PTM} \/ p.cell = NoCell THEN y.cell ELSE p.cell
             x == [y EXCEPT !.blocked = FALSE, !.cell = z]
             r == BssgpPdu("RESET_ACK", p.ns, b, NoCell)
  <1>1. ctxs' = (IF i = 0 THEN <<x>> \o ctxs ELSE [ctxs EXCEPT ![i] = x])
        /\ (down' = down \/ down' = Append(down, r))
    BY DEF bssgp_rx_bvc_reset
  <1>2. up \in Seq(Up) /\ Contexts(ctxs)
    BY DEF Agreement, Typed
  <1>3. p \in Up
    BY <1>2, Taken
  <1>4. b \in Bvcs /\ p.ns \in Int /\ p.cell \in Cells \cup {NoCell} /\ p.t \in Requests
    BY <1>3 DEF Up, Requests
  <1>5. r \in Down /\ r.t \in Acks /\ r.bvci = b
    BY <1>4, TheAck, Kinds
  <1> HIDE DEF p, b, i, r
  <1>6. /\ i = 0 => \A k \in DOMAIN ctxs : ctxs[k].bvci # b
        /\ i # 0 => i \in DOMAIN ctxs /\ ctxs[i].bvci = b
    BY <1>2, ByBvci DEF i
  <1>7. y \in Ctx /\ y.bvci = b
    <2>1. CASE i = 0
      BY <1>4, <2>1 DEF Ctx, btsctx_alloc
    <2>2. CASE i # 0
      <3>1. ctxs[i] \in Ctx BY <1>2, <1>6, <2>2 DEF Contexts
      <3> QED BY <1>6, <2>2, <3>1
    <2> QED BY <2>1, <2>2
  <1>8. z \in Cells \cup {NoCell}
    BY <1>4, <1>7 DEF Ctx
  <1> HIDE DEF y, z
  <1>9. x \in Ctx /\ x.bvci = b /\ x.blocked = FALSE
    BY <1>7, <1>8 DEF Ctx
  <1> HIDE DEF x
  <1>10. Contexts(ctxs') /\ Has(ctxs', b, FALSE)
         /\ \A c, v : c # b /\ Has(ctxs, c, v) => Has(ctxs', c, v)
    <2>1. CASE i = 0
      BY <1>1, <1>2, <1>6, <1>9, <2>1, ContextAdded
    <2>2. CASE i # 0
      BY <1>1, <1>2, <1>6, <1>9, <2>2, ContextChanged
    <2> QED BY <2>1, <2>2
  <1>11. Has(ctxs', b, Head(up).t = "BLOCK")
    BY <1>10
  <1> QED BY <1>1, <1>4, <1>5, <1>10, <1>11, Served DEF p, b

\* A context is blocked, or not any more.
LEMMA Blocks ==
  ASSUME Agreement, up # <<>>, up' = Tail(up), UNCHANGED <<cellof, asked>>,
         NEW t \in {"BLOCK", "UNBLOCK"}, Head(up).t = t, NEW ack \in Acks,
         NEW i \in DOMAIN ctxs, ctxs[i].bvci = Head(up).bvci,
         SetBlocked(Head(up), i, t = "BLOCK", ack)
  PROVE  Agreement'
  <1> DEFINE p == Head(up)
             b == p.bvci
             x == [ctxs[i] EXCEPT !.blocked = (t = "BLOCK")]
             r == BssgpPdu(ack, p.ns, b, NoCell)
  <1>1. ctxs' = [ctxs EXCEPT ![i] = x] /\ down' = Append(down, r)
    BY DEF SetBlocked
  <1>2. up \in Seq(Up) /\ Contexts(ctxs)
    BY DEF Agreement, Typed
  <1>3. p \in Up
    BY <1>2, Taken
  <1>4. b \in Bvcs /\ p.ns \in Int /\ p.t \in Requests
    BY <1>3 DEF Up, Requests
  <1>5. r \in Down /\ r.t \in Acks /\ r.bvci = b
    BY <1>4, TheAck
  <1>6. x \in Ctx /\ x.bvci = b /\ x.blocked = (t = "BLOCK")
    <2>1. ctxs[i] \in Ctx BY <1>2 DEF Contexts
    <2> DEFINE v == t = "BLOCK"
    <2>2. v \in BOOLEAN OBVIOUS
    <2> HIDE DEF v
    <2>3. [ctxs[i] EXCEPT !.blocked = v] \in Ctx
          /\ [ctxs[i] EXCEPT !.blocked = v].bvci = ctxs[i].bvci
          /\ [ctxs[i] EXCEPT !.blocked = v].blocked = v
      BY <2>1, <2>2 DEF Ctx
    <2> QED BY <2>3 DEF v
  <1> HIDE DEF p, b, x, r
  <1>7. ctxs[i].bvci = b
    BY DEF b, p
  <1>8. Contexts(ctxs') /\ Has(ctxs', b, t = "BLOCK")
        /\ \A c, v : c # b /\ Has(ctxs, c, v) => Has(ctxs', c, v)
    BY <1>1, <1>2, <1>6, <1>7, ContextChanged
  <1> QED BY <1>1, <1>4, <1>5, <1>8, Served DEF p, b

\* Any PDU of the BSS.
LEMMA SgsnStep ==
  ASSUME Agreement, SgsnReceive
  PROVE  Agreement'
  <1> DEFINE p == Head(up)
             b == IF p.ns = SIGNALLING /\ p.bvci # -1 THEN p.bvci ELSE p.ns
             i == btsctx_by_bvci_nsei(b)
             Acked(t) == BssgpPdu(t, SIGNALLING, -1, NoCell)
  <1>1. up # <<>> /\ up' = Tail(up) /\ UNCHANGED <<cellof, asked>> /\ bssgp_rcvmsg(p)
    BY DEF SgsnReceive
  <1>2. up \in Seq(Up) /\ Contexts(ctxs)
    BY DEF Agreement, Typed
  <1>3. p \in Up
    BY <1>1, <1>2, Taken
  <1>4. p.t \in UpTypes /\ p.ns \in Int /\ p.bvci \in Int
    BY <1>3 DEF Up
  <1>5. ASSUME Nothing PROVE Agreement'
    BY <1>1, <1>5, UpLost DEF Nothing
  <1>6. \A t \in {"STATUS", "SUSPEND_ACK", "RESUME_ACK", "SUSPEND_NACK"} :
          Acked(t) \in Down /\ ~Procedure(Acked(t))
    BY Kinds DEF BssgpPdu, Down, Procedure, Requests, SIGNALLING
  <1>7. ASSUME NEW t \in {"STATUS", "SUSPEND_ACK", "RESUME_ACK", "SUSPEND_NACK"}, Reply(Acked(t))
        PROVE  Agreement'
    <2> DEFINE r == Acked(t)
    <2>1. r \in Down /\ ~Procedure(r) BY <1>6, <1>7
    <2>2. ctxs' = ctxs /\ down' = Append(down, r) BY <1>7 DEF Reply
    <2> HIDE DEF r
    <2> QED BY <1>1, <2>1, <2>2, Answered
  <1>8. ASSUME Reply(Status) PROVE Agreement'
    BY <1>7, <1>8 DEF Status
  <1>9. CASE i = 0 /\ b # SIGNALLING /\ p.t # "RESET"
    BY <1>1, <1>8, <1>9 DEF bssgp_rcvmsg
  <1>10. CASE ~(i = 0 /\ b # SIGNALLING /\ p.t # "RESET") /\ p.ns # SIGNALLING
    <2>1. CASE p.ns = PTM
      BY <1>1, <1>8, <1>10, <2>1 DEF bssgp_rcvmsg
    <2>2. CASE p.ns # PTM
      <3>1. bssgp_rx_ptp(p, i)
        BY <1>1, <1>10, <2>2 DEF bssgp_rcvmsg
      <3> QED BY <1>5, <1>8, <3>1 DEF bssgp_rx_ptp
    <2> QED BY <2>1, <2>2
  <1>11. CASE ~(i = 0 /\ b # SIGNALLING /\ p.t # "RESET") /\ p.ns = SIGNALLING
    <2>1. bssgp_rx_sign(p)
      BY <1>1, <1>11 DEF bssgp_rcvmsg
    <2>2. CASE p.t \in {"SUSPEND", "RESUME"}
      <3>1. RxGmm(p)
        BY <2>1, <2>2 DEF bssgp_rx_sign
      <3>2. Ack(p.t) \in {"SUSPEND_ACK", "RESUME_ACK"}
        BY <2>2, Kinds
      <3> QED BY <1>7, <3>1, <3>2 DEF RxGmm
    <2>3. CASE p.t = "RESET"
      <3>1. bssgp_rx_bvc_reset(p)
        BY <2>1, <2>3 DEF bssgp_rx_sign
      <3> QED BY <1>1, <2>3, <3>1, Resets
    <2>4. CASE p.t \in {"BLOCK", "UNBLOCK"}
      <3> DEFINE k == btsctx_by_bvci_nsei(p.bvci)
      <3>1. BlockUnblock(p)
        BY <2>1, <2>4 DEF bssgp_rx_sign
      <3>2. k # 0 => k \in DOMAIN ctxs /\ ctxs[k].bvci = p.bvci
        BY <1>2, ByBvci
      <3>3. CASE p.bvci = SIGNALLING
        BY <1>5, <3>1, <3>3 DEF BlockUnblock
      <3>4. CASE p.bvci # SIGNALLING /\ k = 0
        BY <1>8, <3>1, <3>4 DEF BlockUnblock
      <3>5. CASE p.bvci # SIGNALLING /\ k # 0 /\ p.t = "BLOCK"
        <4>1. SetBlocked(p, k, TRUE, "BLOCK_ACK")
          BY <3>1, <3>5 DEF BlockUnblock
        <4>2. SetBlocked(p, k, "BLOCK" = "BLOCK", "BLOCK_ACK")
          BY <4>1
        <4> HIDE DEF k
        <4> QED BY <1>1, <3>2, <3>5, <4>2, Blocks, Kinds
      <3>6. CASE p.bvci # SIGNALLING /\ k # 0 /\ p.t = "UNBLOCK"
        <4>1. SetBlocked(p, k, FALSE, "UNBLOCK_ACK")
          BY <3>1, <3>6 DEF BlockUnblock
        <4>2. SetBlocked(p, k, "UNBLOCK" = "BLOCK", "UNBLOCK_ACK")
          BY <4>1
        <4> HIDE DEF k
        <4> QED BY <1>1, <3>2, <3>6, <4>2, Blocks, Kinds
      <3> QED BY <2>4, <3>3, <3>4, <3>5, <3>6
    <2>5. CASE p.t = "LLC_DISCARD"
      <3>1. Nothing
        BY <2>1, <2>5 DEF bssgp_rx_sign
      <3> QED BY <1>5, <3>1
    <2>6. p.t # "UL_UNITDATA"
      BY <1>3, <1>11 DEF Up, SIGNALLING
    <2> QED BY <1>4, <2>2, <2>3, <2>4, <2>5, <2>6 DEF UpTypes, Requests
  <1> QED BY <1>9, <1>10, <1>11

-----------------------------------------------------------------------------

\* Every step keeps the agreement.
LEMMA Agrees ==
  ASSUME Agreement, [BssgpNext]_bssgp_vars
  PROVE  Agreement'
  <1> USE BssgpAssumption
  <1>1. ASSUME NEW b \in Bvcs, bssgp_tx_bvc_reset(b) PROVE Agreement'
    <2> DEFINE c == IF b \in Ptp THEN cellof[b] ELSE NoCell
               p == BssgpPdu("RESET", SIGNALLING, b, c)
    <2>1. c \in Cells \cup {NoCell}
      BY DEF Agreement, Typed
    <2>2. p \in Up /\ p.t = "RESET" /\ p.bvci = b
      BY <2>1 DEF Up, UpTypes, Requests, BssgpPdu, SIGNALLING
    <2>3. Procedures(b, "RESET", p)
      BY <1>1 DEF bssgp_tx_bvc_reset
    <2> HIDE DEF p
    <2> QED BY <2>2, <2>3, Started DEF Requests
  <1>2. ASSUME NEW b \in Bvcs, bssgp_tx_bvc_block(b) PROVE Agreement'
    <2> DEFINE p == BssgpPdu("BLOCK", SIGNALLING, b, NoCell)
    <2>1. p \in Up /\ p.t = "BLOCK" /\ p.bvci = b
      BY DEF Up, UpTypes, Requests, BssgpPdu, SIGNALLING
    <2>2. Procedures(b, "BLOCK", p)
      BY <1>2 DEF bssgp_tx_bvc_block
    <2> HIDE DEF p
    <2> QED BY <2>1, <2>2, Started DEF Requests
  <1>3. ASSUME NEW b \in Bvcs, bssgp_tx_bvc_unblock(b) PROVE Agreement'
    <2> DEFINE p == BssgpPdu("UNBLOCK", SIGNALLING, b, NoCell)
    <2>1. p \in Up /\ p.t = "UNBLOCK" /\ p.bvci = b
      BY DEF Up, UpTypes, Requests, BssgpPdu, SIGNALLING
    <2>2. Procedures(b, "UNBLOCK", p)
      BY <1>3 DEF bssgp_tx_bvc_unblock
    <2> HIDE DEF p
    <2> QED BY <2>1, <2>2, Started DEF Requests
  <1>4. ASSUME NEW p \in Up, p.t \notin Requests, Send(p), UNCHANGED <<cellof, asked>>
        PROVE  Agreement'
    <2>1. ~Procedure(p)
      BY <1>4, Kinds DEF Procedure, Up, UpTypes, Requests
    <2> QED BY <1>4, <2>1, SentOther
  <1>5. ASSUME NEW b \in Bvcs \ {SIGNALLING}, Traffic(b) PROVE Agreement'
    <2> DEFINE p == BssgpPdu("UL_UNITDATA", b, -1, NoCell)
               q == BssgpPdu("LLC_DISCARD", SIGNALLING, b, NoCell)
    <2>1. p \in Up /\ p.t \notin Requests
      BY DEF Up, UpTypes, Requests, BssgpPdu, SIGNALLING
    <2>2. q \in Up /\ q.t \notin Requests
      BY DEF Up, UpTypes, Requests, BssgpPdu, SIGNALLING
    <2>3. (Send(p) \/ Send(q)) /\ UNCHANGED <<cellof, asked>>
      BY <1>5 DEF Traffic
    <2> HIDE DEF p, q
    <2> QED BY <1>4, <2>1, <2>2, <2>3
  <1>6. ASSUME NEW t \in {"SUSPEND", "RESUME"}, SuspendResume(t) PROVE Agreement'
    <2> DEFINE p == BssgpPdu(t, SIGNALLING, -1, NoCell)
    <2>1. p \in Up /\ p.t \notin Requests
      BY DEF Up, UpTypes, Requests, BssgpPdu, SIGNALLING
    <2>2. Send(p) /\ UNCHANGED <<cellof, asked>>
      BY <1>6 DEF SuspendResume
    <2> HIDE DEF p
    <2> QED BY <1>4, <2>1, <2>2
  <1>7. ASSUME NEW b \in Ptp, NEW c \in Cells, Reassign(b, c) PROVE Agreement'
    <2>1. cellof' \in [Ptp -> Cells \cup {NoCell}] /\ UNCHANGED <<asked, ctxs, up, down>>
      BY <1>7 DEF Reassign, Agreement, Typed
    <2> QED BY <2>1 DEF Agreement, Typed, OneAtATime, Genuine
  <1>8. ASSUME BssReceive PROVE Agreement'
    <2>1. CASE Head(down).t \in Acks /\ Head(down).t = Ack(asked[Head(down).bvci].req)
      BY <1>8, <2>1, Acknowledged DEF BssReceive
    <2>2. CASE ~(Head(down).t \in Acks /\ Head(down).t = Ack(asked[Head(down).bvci].req))
      BY <1>8, <2>2, DownLost DEF BssReceive
    <2> QED BY <2>1, <2>2
  <1>9. ASSUME Lose PROVE Agreement'
    BY <1>9, UpLost, DownLost DEF Lose
  <1>10. ASSUME UNCHANGED bssgp_vars PROVE Agreement'
    BY <1>10 DEF bssgp_vars, Agreement, Typed, OneAtATime, Genuine
  <1> QED BY <1>1, <1>2, <1>3, <1>5, <1>6, <1>7, <1>8, <1>9, <1>10, SgsnStep DEF BssgpNext

\* Nothing is agreed and nothing on its way at the start.
LEMMA AgreedFirst ==
  ASSUME BssgpInit
  PROVE  Agreement
  <1>1. Typed
    BY DEF BssgpInit, Typed, Contexts
  <1>2. OneAtATime
    BY DEF BssgpInit, OneAtATime, Alone, Quiet
  <1>3. Genuine
    BY DEF BssgpInit, Genuine
  <1> QED BY <1>1, <1>2, <1>3 DEF Agreement

\* What the BVCs agree on.
LEMMA AgreedMeans ==
  ASSUME Agreement
  PROVE  BvcAgreed
  <1>1. Contexts(ctxs)
    BY DEF Agreement, Typed
  <1>2. OneContext
    <2>1. \A i \in DOMAIN ctxs : ctxs[i] \in Ctx
      BY <1>1 DEF Contexts
    <2>2. \A i \in DOMAIN ctxs : ctxs[i].bvci \in Bvcs /\ ctxs[i].cell \in Cells \cup {NoCell}
      BY <2>1 DEF Ctx
    <2> QED BY <1>1, <2>2 DEF Contexts, OneContext
  <1>3. ASSUME NEW b \in Bvcs \ {SIGNALLING}, asked[b].acked
        PROVE  LET i == btsctx_by_bvci_nsei(b)
               IN i # 0 /\ ctxs[i].blocked = (asked[b].req = "BLOCK")
    <2>1. Has(ctxs, b, asked[b].req = "BLOCK")
      BY <1>3 DEF Agreement, Genuine, Done
    <2>2. PICK k \in DOMAIN ctxs : ctxs[k].bvci = b /\ ctxs[k].blocked = (asked[b].req = "BLOCK")
      BY <2>1 DEF Has
    <2>3. btsctx_by_bvci_nsei(b) = k
      BY <1>1, <2>2, ByBvci
    <2>4. k # 0
      BY <1>1 DEF Contexts
    <2> QED BY <2>2, <2>3, <2>4
  <1>4. SameState
    BY <1>3 DEF SameState
  <1> QED BY <1>2, <1>4 DEF BvcAgreed

\* A BVC has one context at the SGSN, and both sides hold the same BVC blocked once
\* a procedure is acknowledged (bssgp_rx_bvc_reset, bssgp_rx_bvc_block): for any
\* BVCs and cells, over losses and repetitions of any PDU.
THEOREM BvcsAgree == BssgpSpec => []BvcAgreed
  <1>1. BssgpInit => Agreement BY AgreedFirst
  <1>2. Agreement /\ [BssgpNext]_bssgp_vars => Agreement' BY Agrees
  <1>3. Agreement => BvcAgreed BY AgreedMeans
  <1> QED BY <1>1, <1>2, <1>3, PTL DEF BssgpSpec

-----------------------------------------------------------------------------
(* Flow control: the invariant, on a value of fc.                          *)

Llc == [id : Nat, len : Nat \ {0}]

Bucket == [size : Nat, rate : Nat, counter : Nat, elapsed : 0..MaxElapsed, queue : Seq(Llc), timer : BOOLEAN]

World == [ms : Bucket, bvc : Bucket, default : Settings,
          sent : Seq(Nat), freed : SUBSET Nat, lost : SUBSET Nat]

Elems(q) == {q[i] : i \in DOMAIN q}

\* The five sets share no element, and U is all of them.
Parted(a, b, c, d, e, U) ==
  /\ a \cap b = {} /\ a \cap c = {} /\ a \cap d = {} /\ a \cap e = {} /\ b \cap c = {}
  /\ b \cap d = {} /\ b \cap e = {} /\ c \cap d = {} /\ c \cap e = {} /\ d \cap e = {}
  /\ a \cup b \cup c \cup d \cup e = U

OnceQueued(q) == \A i, j \in DOMAIN q : q[i].id = q[j].id => i = j
OnceSent(q) == \A i, j \in DOMAIN q : q[i] = q[j] => i = j

Room(q) == Len(q) <= MaxDepth

\* The PDUs of U are in one place each, and the queues keep to their depth.
Placed(s, U) ==
  /\ Parted(PduIds(s.ms.queue), PduIds(s.bvc.queue), Elems(s.sent), s.freed, s.lost, U)
  /\ OnceQueued(s.ms.queue) /\ OnceQueued(s.bvc.queue) /\ OnceSent(s.sent)
  /\ Room(s.ms.queue) /\ Room(s.bvc.queue)

Running(b) == b.queue # <<>> /\ b.rate # 0 => b.timer

\* PDU p is in none of the places, all others are.
Flight(s, p, n) == s \in World /\ p \in Llc /\ p.id \in 1..n /\ Placed(s, (1..n) \ {p.id})

Good(s, n) == s \in World /\ Placed(s, 1..n)

IInv == offered \in 0..MaxPdus /\ Good(fc, offered) /\ Running(fc.ms) /\ Running(fc.bvc)

-----------------------------------------------------------------------------
(* Sequences and sets.                                                     *)

\* The elements and the ids of a queue with one more.
LEMMA AppendQueue ==
  ASSUME NEW q \in Seq(Llc), NEW p \in Llc, p.id \notin PduIds(q), OnceQueued(q)
  PROVE  /\ Append(q, p) \in Seq(Llc)
         /\ PduIds(Append(q, p)) = PduIds(q) \cup {p.id}
         /\ OnceQueued(Append(q, p)) /\ Len(Append(q, p)) = Len(q) + 1
<1> DEFINE a == Append(q, p)
<1>1. /\ a \in Seq(Llc) /\ Len(a) = Len(q) + 1 /\ DOMAIN a = 1..(Len(q) + 1) /\ DOMAIN q = 1..Len(q)
      /\ a[Len(q) + 1] = p /\ \A i \in DOMAIN q : a[i] = q[i]
  OBVIOUS
<1> HIDE DEF a
<1>2. PduIds(a) = PduIds(q) \cup {p.id}
  BY <1>1 DEF PduIds
<1>3. OnceQueued(a)
  BY <1>1 DEF OnceQueued, PduIds
<1> QED BY <1>1, <1>2, <1>3 DEF a

\* The same for what was sent.
LEMMA AppendSent ==
  ASSUME NEW q \in Seq(Nat), NEW x \in Nat, x \notin Elems(q), OnceSent(q)
  PROVE  /\ Append(q, x) \in Seq(Nat)
         /\ Elems(Append(q, x)) = Elems(q) \cup {x}
         /\ OnceSent(Append(q, x))
<1> DEFINE a == Append(q, x)
<1>1. /\ a \in Seq(Nat) /\ Len(a) = Len(q) + 1 /\ DOMAIN a = 1..(Len(q) + 1) /\ DOMAIN q = 1..Len(q)
      /\ a[Len(q) + 1] = x /\ \A i \in DOMAIN q : a[i] = q[i]
  OBVIOUS
<1> HIDE DEF a
<1>2. Elems(a) = Elems(q) \cup {x}
  BY <1>1 DEF Elems
<1>3. OnceSent(a)
  BY <1>1 DEF OnceSent, Elems
<1> QED BY <1>1, <1>2, <1>3 DEF a

\* A queue without its first PDU.
LEMMA TailQueue ==
  ASSUME NEW q \in Seq(Llc), q # <<>>, OnceQueued(q)
  PROVE  /\ Tail(q) \in Seq(Llc) /\ Head(q) \in Llc /\ Head(q).id \in PduIds(q)
         /\ PduIds(Tail(q)) = PduIds(q) \ {Head(q).id}
         /\ OnceQueued(Tail(q)) /\ (Room(q) => Room(Tail(q)))
<1> DEFINE t == Tail(q)
<1>1. /\ t \in Seq(Llc) /\ Len(q) > 0 /\ DOMAIN t = 1..(Len(q) - 1) /\ DOMAIN q = 1..Len(q)
      /\ Head(q) = q[1] /\ q[1] \in Llc /\ \A i \in DOMAIN t : t[i] = q[i + 1] /\ i + 1 \in DOMAIN q
  OBVIOUS
<1> HIDE DEF t
<1>2. \A i \in DOMAIN t : t[i].id # q[1].id
  BY <1>1 DEF OnceQueued
<1>3. \A i \in DOMAIN q : i # 1 => i - 1 \in DOMAIN t /\ t[i - 1] = q[i]
  BY <1>1
<1>4. PduIds(t) = PduIds(q) \ {Head(q).id}
  <2>1. ASSUME NEW x \in PduIds(t) PROVE x \in PduIds(q) /\ x # Head(q).id
    BY <1>1, <1>2, <2>1 DEF PduIds
  <2>2. ASSUME NEW x \in PduIds(q), x # Head(q).id PROVE x \in PduIds(t)
    <3>1. PICK i \in DOMAIN q : x = q[i].id
      BY DEF PduIds
    <3>2. i # 1
      BY <3>1, <2>2, <1>1
    <3> QED BY <3>1, <3>2, <1>3 DEF PduIds
  <2> QED BY <2>1, <2>2
<1>5. OnceQueued(t)
  <2> SUFFICES ASSUME NEW i \in DOMAIN t, NEW j \in DOMAIN t, t[i].id = t[j].id PROVE i = j
    BY DEF OnceQueued
  <2>1. i + 1 = j + 1
    BY <1>1 DEF OnceQueued
  <2> QED BY <2>1, <1>1
<1>6. Head(q).id \in PduIds(q)
  BY <1>1 DEF PduIds
<1>7. Room(q) => Room(t)
  BY <1>1, FcAssumption DEF Room
<1> QED BY <1>1, <1>4, <1>5, <1>6, <1>7 DEF t

\* One more element, put into one of the five sets.
LEMMA PartedAdd ==
  ASSUME NEW a, NEW b, NEW c, NEW d, NEW e, NEW U, NEW x, x \in U, Parted(a, b, c, d, e, U \ {x})
  PROVE  /\ x \notin a /\ x \notin b /\ x \notin c
         /\ Parted(a \cup {x}, b, c, d, e, U) /\ Parted(a, b \cup {x}, c, d, e, U)
         /\ Parted(a, b, c \cup {x}, d, e, U) /\ Parted(a, b, c, d \cup {x}, e, U)
         /\ Parted(a, b, c, d, e \cup {x}, U)
BY Zenon DEF Parted

\* One element less.
LEMMA PartedDrop ==
  ASSUME NEW a, NEW b, NEW c, NEW d, NEW e, NEW U, NEW x, Parted(a, b, c, d, e, U), x \in a
  PROVE  x \in U /\ Parted(a \ {x}, b, c, d, e, U \ {x})
BY Zenon DEF Parted

\* The same for the second set.
LEMMA PartedDropSecond ==
  ASSUME NEW a, NEW b, NEW c, NEW d, NEW e, NEW U, NEW x, Parted(a, b, c, d, e, U), x \in b
  PROVE  x \in U /\ Parted(a, b \ {x}, c, d, e, U \ {x})
BY Zenon DEF Parted

-----------------------------------------------------------------------------
(* A bucket replaced in fc.                                                *)

\* The bucket of f, and what stays.
LEMMA Bucketed ==
  ASSUME NEW s \in World, NEW b \in Bucket, NEW f \in Fcs, NEW v, v = [s EXCEPT ![f] = b]
  PROVE  /\ v \in World /\ v[f] = b
         /\ v.ms = (IF f = "ms" THEN b ELSE s.ms) /\ v.bvc = (IF f = "bvc" THEN b ELSE s.bvc)
         /\ v.sent = s.sent /\ v.freed = s.freed /\ v.lost = s.lost
<1>1. CASE f = "ms"
  BY <1>1 DEF World
<1>2. CASE f = "bvc"
  BY <1>2 DEF World
<1> QED BY <1>1, <1>2 DEF Fcs

\* A PDU that is in no place may be put into any.
LEMMA Addable ==
  ASSUME NEW s, NEW U, NEW x, x \in U, Placed(s, U \ {x})
  PROVE  LET a == PduIds(s.ms.queue)  b == PduIds(s.bvc.queue)  c == Elems(s.sent)
         IN /\ x \notin a /\ x \notin b /\ x \notin c
            /\ Parted(a \cup {x}, b, c, s.freed, s.lost, U) /\ Parted(a, b \cup {x}, c, s.freed, s.lost, U)
            /\ Parted(a, b, c \cup {x}, s.freed, s.lost, U) /\ Parted(a, b, c, s.freed \cup {x}, s.lost, U)
            /\ Parted(a, b, c, s.freed, s.lost \cup {x}, U)
<1>1. Parted(PduIds(s.ms.queue), PduIds(s.bvc.queue), Elems(s.sent), s.freed, s.lost, U \ {x})
  BY DEF Placed
<1> QED BY <1>1, PartedAdd, Zenon

KeepsRunning(s, v) == (Running(s.ms) => Running(v.ms)) /\ (Running(s.bvc) => Running(v.bvc))

\* What fc_queue_timer_cfg leaves alone, and that the timer of f then runs.
LEMMA TimerCfg ==
  ASSUME NEW s \in World, NEW f \in Fcs
  PROVE  LET v == fc_queue_timer_cfg(s, f)
         IN /\ v \in World /\ v.ms.queue = s.ms.queue /\ v.bvc.queue = s.bvc.queue
            /\ v.sent = s.sent /\ v.freed = s.freed /\ v.lost = s.lost
            /\ KeepsRunning(s, v) /\ Running(v[f])
<1> DEFINE b == [s[f] EXCEPT !.timer = TRUE]
           v == [s EXCEPT ![f] = b]
           r == fc_queue_timer_cfg(s, f)
<1>1. s[f] \in Bucket /\ (f = "ms" => s[f] = s.ms) /\ (f = "bvc" => s[f] = s.bvc)
  BY DEF World, Fcs
<1>2. b \in Bucket /\ b.queue = s[f].queue /\ b.timer
  BY <1>1 DEF Bucket
<1>3. r = IF s[f].queue # <<>> /\ s[f].rate # 0 THEN v ELSE s
  BY DEF fc_queue_timer_cfg
<1> SUFFICES /\ r \in World /\ r.ms.queue = s.ms.queue /\ r.bvc.queue = s.bvc.queue
             /\ r.sent = s.sent /\ r.freed = s.freed /\ r.lost = s.lost
             /\ KeepsRunning(s, r) /\ Running(r[f])
  OBVIOUS
<1> HIDE DEF b, r
<1>4. /\ v \in World /\ v[f] = b
      /\ v.ms = (IF f = "ms" THEN b ELSE s.ms) /\ v.bvc = (IF f = "bvc" THEN b ELSE s.bvc)
      /\ v.sent = s.sent /\ v.freed = s.freed /\ v.lost = s.lost
  <2>1. v = [s EXCEPT ![f] = b]
    OBVIOUS
  <2> HIDE DEF v
  <2>2. CASE f = "ms"
    BY <1>2, <2>1, <2>2 DEF World
  <2>3. CASE f = "bvc"
    BY <1>2, <2>1, <2>3 DEF World
  <2> QED BY <2>2, <2>3 DEF Fcs
<1> HIDE DEF v
<1> QED BY <1>1, <1>2, <1>3, <1>4 DEF KeepsRunning, Running, Fcs

\* Placed looks at the queues, sent, freed and lost.
LEMMA SamePlaces ==
  ASSUME NEW s, NEW v, NEW U, Placed(s, U), v.ms.queue = s.ms.queue, v.bvc.queue = s.bvc.queue,
         v.sent = s.sent, v.freed = s.freed, v.lost = s.lost
  PROVE  Placed(v, U)
BY DEF Placed

\* A PDU that goes to the queue of f, or is lost.
LEMMA Enqueued ==
  ASSUME NEW s, NEW f \in Fcs, NEW p, NEW n \in Nat, Flight(s, p, n)
  PROVE  Good(fc_enqueue(s, f, p), n) /\ KeepsRunning(s, fc_enqueue(s, f, p))
<1> DEFINE U == 1..n
           b == [s[f] EXCEPT !.queue = Append(@, p)]
           v == [s EXCEPT ![f] = b]
           l == [s EXCEPT !.lost = @ \cup {p.id}]
<1>1. s \in World /\ s[f] \in Bucket /\ p \in Llc /\ p.id \in U /\ Placed(s, U \ {p.id})
  BY DEF Flight, World, Fcs
<1>2. /\ p.id \notin PduIds(s.ms.queue) /\ p.id \notin PduIds(s.bvc.queue)
      /\ Parted(PduIds(s.ms.queue) \cup {p.id}, PduIds(s.bvc.queue), Elems(s.sent), s.freed, s.lost, U)
      /\ Parted(PduIds(s.ms.queue), PduIds(s.bvc.queue) \cup {p.id}, Elems(s.sent), s.freed, s.lost, U)
      /\ Parted(PduIds(s.ms.queue), PduIds(s.bvc.queue), Elems(s.sent), s.freed, s.lost \cup {p.id}, U)
  <2> HIDE DEF U
  <2> QED BY <1>1, Addable, Zenon
<1>3. fc_enqueue(s, f, p) = IF Len(s[f].queue) >= MaxDepth THEN l ELSE fc_queue_timer_cfg(v, f)
  BY DEF fc_enqueue
<1>4. l \in World /\ l.ms = s.ms /\ l.bvc = s.bvc /\ l.sent = s.sent /\ l.freed = s.freed /\ l.lost = s.lost \cup {p.id}
  <2>1. p.id \in Nat
    BY <1>1 DEF Llc
  <2> QED BY <2>1, <1>1 DEF World
<1>5. CASE Len(s[f].queue) >= MaxDepth
  <2> HIDE DEF l, U
  <2>1. Placed(l, U)
    BY <1>1, <1>2, <1>4 DEF Placed
  <2> QED BY <2>1, <1>3, <1>4, <1>5 DEF Good, KeepsRunning, U
<1> SUFFICES ASSUME ~(Len(s[f].queue) >= MaxDepth)
             PROVE  Good(fc_enqueue(s, f, p), n) /\ KeepsRunning(s, fc_enqueue(s, f, p))
  BY <1>5
<1>6. s[f].queue \in Seq(Llc) /\ (f = "ms" => s[f] = s.ms) /\ (f = "bvc" => s[f] = s.bvc)
  BY <1>1 DEF Bucket, Fcs
<1>7. /\ Append(s[f].queue, p) \in Seq(Llc)
      /\ PduIds(Append(s[f].queue, p)) = PduIds(s[f].queue) \cup {p.id}
      /\ OnceQueued(Append(s[f].queue, p)) /\ Room(Append(s[f].queue, p))
  <2>1. p.id \notin PduIds(s[f].queue) /\ OnceQueued(s[f].queue)
    BY <1>1, <1>2, <1>6 DEF Placed, Fcs
  <2>2. Len(s[f].queue) \in Nat
    BY <1>6
  <2> QED BY <1>1, <1>6, <2>1, <2>2, AppendQueue, FcAssumption DEF Room
<1>8. b \in Bucket /\ b.queue = Append(s[f].queue, p)
  BY <1>1, <1>7 DEF Bucket
<1> HIDE DEF b
<1>9. /\ v \in World /\ v[f] = b
      /\ v.ms = (IF f = "ms" THEN b ELSE s.ms) /\ v.bvc = (IF f = "bvc" THEN b ELSE s.bvc)
      /\ v.sent = s.sent /\ v.freed = s.freed /\ v.lost = s.lost
  BY <1>1, <1>8, Bucketed
<1>12. Placed(v, U)
  <2> HIDE DEF U, v
  <2>1. CASE f = "ms"
    BY <1>1, <1>2, <1>6, <1>7, <1>8, <1>9, <2>1 DEF Placed
  <2>2. CASE f = "bvc"
    BY <1>1, <1>2, <1>6, <1>7, <1>8, <1>9, <2>2 DEF Placed
  <2> QED BY <2>1, <2>2 DEF Fcs
<1> DEFINE r == fc_queue_timer_cfg(v, f)
<1>10. /\ r \in World /\ r.ms.queue = v.ms.queue /\ r.bvc.queue = v.bvc.queue
       /\ r.sent = v.sent /\ r.freed = v.freed /\ r.lost = v.lost
       /\ KeepsRunning(v, r) /\ Running(r[f])
  BY <1>9, TimerCfg
<1>11. Good(r, n) /\ KeepsRunning(s, r)
  <2> HIDE DEF v, r, U
  <2>1. Placed(r, U)
    BY <1>12, <1>10, SamePlaces
  <2>2. KeepsRunning(s, r)
    BY <1>9, <1>10 DEF KeepsRunning, Fcs
  <2> QED BY <2>1, <2>2, <1>10 DEF Good, U
<1> HIDE DEF v, r, l
<1> QED BY <1>3, <1>11 DEF r

\* A PDU that is given to the network service.
LEMMA Transmitted ==
  ASSUME NEW s, NEW p, NEW n \in Nat, Flight(s, p, n)
  PROVE  /\ Good(_bssgp_tx_dl_ud(s, p), n)
         /\ KeepsRunning(s, _bssgp_tx_dl_ud(s, p))
<1> DEFINE U == 1..n
           v == [s EXCEPT !.sent = Append(@, p.id)]
<1>1. s \in World /\ p.id \in Nat /\ p.id \in U /\ Placed(s, U \ {p.id}) /\ s.sent \in Seq(Nat)
  BY DEF Flight, World, Llc
<1>2. /\ p.id \notin Elems(s.sent)
      /\ Parted(PduIds(s.ms.queue), PduIds(s.bvc.queue), Elems(s.sent) \cup {p.id}, s.freed, s.lost, U)
  <2> HIDE DEF U
  <2> QED BY <1>1, Addable, Zenon
<1>3. Append(s.sent, p.id) \in Seq(Nat) /\ Elems(Append(s.sent, p.id)) = Elems(s.sent) \cup {p.id} /\ OnceSent(Append(s.sent, p.id))
  BY <1>1, <1>2, AppendSent DEF Placed
<1>4. /\ v \in World /\ v.ms = s.ms /\ v.bvc = s.bvc /\ v.sent = Append(s.sent, p.id)
      /\ v.freed = s.freed /\ v.lost = s.lost
  BY <1>1, <1>3 DEF World
<1>5. _bssgp_tx_dl_ud(s, p) = v
  BY DEF _bssgp_tx_dl_ud
<1> HIDE DEF v, U
<1>6. Placed(v, U)
  BY <1>1, <1>2, <1>3, <1>4 DEF Placed
<1> QED BY <1>4, <1>5, <1>6 DEF Good, KeepsRunning, U

\* A PDU that is too long for its bucket is freed.
LEMMA Freed ==
  ASSUME NEW s, NEW p, NEW n \in Nat, Flight(s, p, n)
  PROVE  /\ Good([s EXCEPT !.freed = @ \cup {p.id}], n)
         /\ KeepsRunning(s, [s EXCEPT !.freed = @ \cup {p.id}])
<1> DEFINE U == 1..n
           v == [s EXCEPT !.freed = @ \cup {p.id}]
<1>1. s \in World /\ p.id \in Nat /\ p.id \in U /\ Placed(s, U \ {p.id})
  BY DEF Flight, Llc
<1>2. Parted(PduIds(s.ms.queue), PduIds(s.bvc.queue), Elems(s.sent), s.freed \cup {p.id}, s.lost, U)
  <2> HIDE DEF U
  <2> QED BY <1>1, Addable, Zenon
<1>4. /\ v \in World /\ v.ms = s.ms /\ v.bvc = s.bvc /\ v.sent = s.sent
      /\ v.freed = s.freed \cup {p.id} /\ v.lost = s.lost
  BY <1>1 DEF World
<1> SUFFICES Good(v, n) /\ KeepsRunning(s, v)
  OBVIOUS
<1> HIDE DEF v, U
<1>6. Placed(v, U)
  BY <1>1, <1>2, <1>4 DEF Placed
<1> QED BY <1>4, <1>6 DEF Good, KeepsRunning, U

\* The bucket that a PDU passed has the same queue and timer.
LEMMA PassedBucket ==
  ASSUME NEW c \in Bucket, NEW len \in Nat \ {0}
  PROVE  /\ Passed(c, len) \in Bucket /\ Passed(c, len).queue = c.queue
         /\ Passed(c, len).rate = c.rate /\ Passed(c, len).timer = c.timer
<1> DEFINE k == IF Predicted(c, len) < len THEN c.counter ELSE Predicted(c, len)
           d == [c EXCEPT !.counter = k, !.elapsed = 0]
<1>1. c.rate \in Nat /\ c.counter \in Nat /\ c.elapsed \in Nat /\ 0 \in 0..MaxElapsed
  BY FcAssumption DEF Bucket
<1>2. c.elapsed * (c.rate \div 100) \in Int
  <2> DEFINE q == c.rate \div 100
  <2>1. q \in Int
    BY <1>1
  <2> HIDE DEF q
  <2> QED BY <1>1, <2>1
<1>3. Predicted(c, len) \in Int
  BY <1>1, <1>2 DEF Predicted
<1>4. k \in Nat
  BY <1>1, <1>3
<1>5. Passed(c, len) = d
  BY DEF Passed
<1> HIDE DEF k
<1>6. d \in Bucket /\ d.queue = c.queue /\ d.rate = c.rate /\ d.timer = c.timer
  BY <1>1, <1>4 DEF Bucket
<1> QED BY <1>5, <1>6

\* The PDU is still in flight after it passed the bucket of f.
LEMMA PassedFlight ==
  ASSUME NEW s, NEW f \in Fcs, NEW p, NEW n \in Nat, Flight(s, p, n)
  PROVE  LET v == [s EXCEPT ![f] = Passed(@, p.len)]
         IN Flight(v, p, n) /\ KeepsRunning(s, v)
<1> DEFINE b == Passed(s[f], p.len)
           v == [s EXCEPT ![f] = b]
<1>1. s \in World /\ s[f] \in Bucket /\ p \in Llc /\ p.len \in Nat \ {0} /\ p.id \in 1..n /\ Placed(s, (1..n) \ {p.id})
  BY DEF Flight, World, Fcs, Llc
<1>2. b \in Bucket /\ b.queue = s[f].queue /\ b.rate = s[f].rate /\ b.timer = s[f].timer
  BY <1>1, PassedBucket
<1> SUFFICES Flight(v, p, n) /\ KeepsRunning(s, v)
  OBVIOUS
<1> HIDE DEF b
<1>3. /\ v \in World /\ v.ms.queue = s.ms.queue /\ v.bvc.queue = s.bvc.queue
      /\ v.sent = s.sent /\ v.freed = s.freed /\ v.lost = s.lost /\ KeepsRunning(s, v)
  <2>1. (f = "ms" => s[f] = s.ms) /\ (f = "bvc" => s[f] = s.bvc)
    OBVIOUS
  <2>2. /\ v \in World
        /\ v.ms = (IF f = "ms" THEN b ELSE s.ms) /\ v.bvc = (IF f = "bvc" THEN b ELSE s.bvc)
        /\ v.sent = s.sent /\ v.freed = s.freed /\ v.lost = s.lost
    BY <1>1, <1>2, Bucketed
  <2> HIDE DEF v
  <2> QED BY <1>2, <2>1, <2>2 DEF Fcs, KeepsRunning, Running
<1> HIDE DEF v
<1>4. Placed(v, (1..n) \ {p.id})
  BY <1>1, <1>3, SamePlaces
<1> QED BY <1>1, <1>3, <1>4 DEF Flight

-----------------------------------------------------------------------------
(* The functions of the flow control.                                      *)

\* A PDU on its way into the bucket of the BVC.
LEMMA BvcInGood ==
  ASSUME NEW s, NEW p, NEW n \in Nat, Flight(s, p, n)
  PROVE  Good(BvcIn(s, p), n) /\ KeepsRunning(s, BvcIn(s, p))
<1> DEFINE v == [s EXCEPT !["bvc"] = Passed(@, p.len)]
<1>1. Flight(v, p, n) /\ KeepsRunning(s, v)
  BY PassedFlight DEF Fcs
<1>2. BvcIn(s, p) = IF p.len > s["bvc"].size THEN [s EXCEPT !.freed = @ \cup {p.id}]
                    ELSE IF NeedsQueueing(s["bvc"], p.len) THEN fc_enqueue(s, "bvc", p)
                    ELSE _bssgp_tx_dl_ud(v, p)
  BY DEF BvcIn, In
<1> HIDE DEF v
<1>3. Good(_bssgp_tx_dl_ud(v, p), n) /\ KeepsRunning(s, _bssgp_tx_dl_ud(v, p))
  BY <1>1, Transmitted DEF KeepsRunning
<1> QED BY <1>2, <1>3, Enqueued, Freed DEF Fcs

\* A PDU on its way into the bucket of f.
LEMMA FcInGood ==
  ASSUME NEW s, NEW p, NEW n \in Nat, NEW f \in Fcs, Flight(s, p, n)
  PROVE  Good(bssgp_fc_in(s, f, p), n) /\ KeepsRunning(s, bssgp_fc_in(s, f, p))
<1> DEFINE v == [s EXCEPT !["ms"] = Passed(@, p.len)]
<1>1. Flight(v, p, n) /\ KeepsRunning(s, v)
  BY PassedFlight DEF Fcs
<1>2. bssgp_fc_in(s, f, p) = IF f # "ms" THEN BvcIn(s, p)
                    ELSE IF p.len > s["ms"].size THEN [s EXCEPT !.freed = @ \cup {p.id}]
                    ELSE IF NeedsQueueing(s["ms"], p.len) THEN fc_enqueue(s, "ms", p)
                    ELSE BvcIn(v, p)
  BY DEF bssgp_fc_in, In
<1> HIDE DEF v
<1>3. Good(BvcIn(v, p), n) /\ KeepsRunning(s, BvcIn(v, p))
  BY <1>1, BvcInGood DEF KeepsRunning
<1>4. Good(fc_enqueue(s, "ms", p), n) /\ KeepsRunning(s, fc_enqueue(s, "ms", p))
  BY Enqueued DEF Fcs
<1>5. Good(BvcIn(s, p), n) /\ KeepsRunning(s, BvcIn(s, p))
  BY BvcInGood
<1>6. /\ Good([s EXCEPT !.freed = @ \cup {p.id}], n)
      /\ KeepsRunning(s, [s EXCEPT !.freed = @ \cup {p.id}])
  BY Freed
<1> QED BY <1>2, <1>3, <1>4, <1>5, <1>6, Zenon

\* The first PDU of the queue of f is taken out: it is in flight.
LEMMA TakenFlight ==
  ASSUME NEW s, NEW f \in Fcs, NEW n \in Nat, Good(s, n), s[f].queue # <<>>
  PROVE  LET p == Head(s[f].queue)
             v == [s EXCEPT ![f] = [Passed(s[f], p.len) EXCEPT !.queue = Tail(@)]]
         IN /\ Flight(v, p, n) /\ v[f].rate = s[f].rate
            /\ \A g \in Fcs : g # f => v[g] = s[g]
<1> DEFINE U == 1..n
           p == Head(s[f].queue)
           c == Passed(s[f], p.len)
           b == [c EXCEPT !.queue = Tail(@)]
           v == [s EXCEPT ![f] = b]
<1>1. s \in World /\ s[f] \in Bucket /\ Placed(s, U) /\ s[f].queue \in Seq(Llc)
  BY DEF Good, World, Fcs, Bucket
<1>2. (f = "ms" => s[f] = s.ms) /\ (f = "bvc" => s[f] = s.bvc) /\ OnceQueued(s[f].queue) /\ Room(s[f].queue)
  BY <1>1 DEF Placed, Fcs
<1>3. /\ Tail(s[f].queue) \in Seq(Llc) /\ p \in Llc /\ p.id \in PduIds(s[f].queue)
      /\ PduIds(Tail(s[f].queue)) = PduIds(s[f].queue) \ {p.id}
      /\ OnceQueued(Tail(s[f].queue)) /\ Room(Tail(s[f].queue))
  BY <1>1, <1>2, TailQueue
<1>4. c \in Bucket /\ c.queue = s[f].queue /\ c.rate = s[f].rate
  <2>1. p.len \in Nat \ {0}
    BY <1>3 DEF Llc
  <2> QED BY <1>1, <2>1, PassedBucket
<1> SUFFICES Flight(v, p, n) /\ v[f].rate = s[f].rate /\ \A g \in Fcs : g # f => v[g] = s[g]
  OBVIOUS
<1> HIDE DEF c, p
<1>5. b \in Bucket /\ b.queue = Tail(s[f].queue) /\ b.rate = s[f].rate
  BY <1>3, <1>4 DEF Bucket
<1> HIDE DEF b
<1>6. v = [s EXCEPT ![f] = b]
  OBVIOUS
<1> HIDE DEF v
<1>7. /\ v \in World /\ v[f] = b
      /\ v.ms = (IF f = "ms" THEN b ELSE s.ms) /\ v.bvc = (IF f = "bvc" THEN b ELSE s.bvc)
      /\ v.sent = s.sent /\ v.freed = s.freed /\ v.lost = s.lost
  <2>1. CASE f = "ms"
    BY <1>1, <1>5, <1>6, <2>1 DEF World
  <2>2. CASE f = "bvc"
    BY <1>1, <1>5, <1>6, <2>2 DEF World
  <2> QED BY <2>1, <2>2 DEF Fcs
<1>8. p.id \in U /\ Placed(v, U \ {p.id})
  <2> HIDE DEF U
  <2>1. Parted(PduIds(s.ms.queue), PduIds(s.bvc.queue), Elems(s.sent), s.freed, s.lost, U)
    BY <1>1 DEF Placed
  <2>2. CASE f = "ms"
    <3>1. p.id \in PduIds(s.ms.queue)
      BY <1>2, <1>3, <2>2
    <3>2. p.id \in U /\ Parted(PduIds(s.ms.queue) \ {p.id}, PduIds(s.bvc.queue), Elems(s.sent), s.freed, s.lost, U \ {p.id})
      BY <2>1, <3>1, PartedDrop, Zenon
    <3> QED BY <1>1, <1>2, <1>3, <1>5, <1>7, <2>2, <3>2 DEF Placed
  <2>3. CASE f = "bvc"
    <3>1. p.id \in PduIds(s.bvc.queue)
      BY <1>2, <1>3, <2>3
    <3>2. p.id \in U /\ Parted(PduIds(s.ms.queue), PduIds(s.bvc.queue) \ {p.id}, Elems(s.sent), s.freed, s.lost, U \ {p.id})
      BY <2>1, <3>1, PartedDropSecond, Zenon
    <3> QED BY <1>1, <1>2, <1>3, <1>5, <1>7, <2>3, <3>2 DEF Placed
  <2> QED BY <2>2, <2>3 DEF Fcs
<1>9. \A g \in Fcs : g # f => v[g] = s[g]
  BY <1>7 DEF Fcs
<1> QED BY <1>3, <1>5, <1>7, <1>8, <1>9 DEF Flight

\* The timer of f expires.
LEMMA TimerGood ==
  ASSUME NEW s0, NEW f \in Fcs, NEW n \in Nat, Good(s0, n)
  PROVE  LET v == fc_timer_cb(s0, f)
         IN Good(v, n) /\ KeepsRunning(s0, v) /\ Running(v[f])
<1> DEFINE c == [s0[f] EXCEPT !.timer = FALSE]
           s == [s0 EXCEPT ![f] = c]
           p == Head(s[f].queue)
           taken == [s EXCEPT ![f] = [Passed(s[f], p.len) EXCEPT !.queue = Tail(@)]]
           o == OutCb(taken, f, p)
           v == fc_timer_cb(s0, f)
<1>1. s0 \in World /\ s0[f] \in Bucket /\ Placed(s0, 1..n)
  BY DEF Good, World, Fcs
<1>2. v = IF s[f].queue = <<>> THEN s
          ELSE IF NeedsQueueing(s[f], p.len) THEN fc_queue_timer_cfg(s, f)
          ELSE fc_queue_timer_cfg(o, f)
  BY DEF fc_timer_cb
<1> SUFFICES Good(v, n) /\ KeepsRunning(s0, v) /\ Running(v[f])
  OBVIOUS
<1> HIDE DEF v
<1>3. c \in Bucket /\ c.queue = s0[f].queue /\ c.rate = s0[f].rate
  BY <1>1 DEF Bucket
<1> HIDE DEF c
<1>4. s = [s0 EXCEPT ![f] = c]
  OBVIOUS
<1> HIDE DEF s
<1>5. /\ s \in World /\ s[f] = c
      /\ s.ms = (IF f = "ms" THEN c ELSE s0.ms) /\ s.bvc = (IF f = "bvc" THEN c ELSE s0.bvc)
      /\ s.sent = s0.sent /\ s.freed = s0.freed /\ s.lost = s0.lost
  <2>1. CASE f = "ms"
    BY <1>1, <1>3, <1>4, <2>1 DEF World
  <2>2. CASE f = "bvc"
    BY <1>1, <1>3, <1>4, <2>2 DEF World
  <2> QED BY <2>1, <2>2 DEF Fcs
<1>6. s.ms.queue = s0.ms.queue /\ s.bvc.queue = s0.bvc.queue /\ \A g \in Fcs : g # f => s[g] = s0[g]
  BY <1>3, <1>5 DEF Fcs
<1>7. Good(s, n)
  BY <1>1, <1>5, <1>6, SamePlaces DEF Good
<1>8. CASE s[f].queue = <<>>
  BY <1>2, <1>6, <1>7, <1>8 DEF KeepsRunning, Running, Fcs
<1>9. CASE s[f].queue # <<>> /\ NeedsQueueing(s[f], p.len)
  <2>1. v = fc_queue_timer_cfg(s, f)
    BY <1>2, <1>9
  <2>2. /\ v \in World /\ v.ms.queue = s.ms.queue /\ v.bvc.queue = s.bvc.queue
        /\ v.sent = s.sent /\ v.freed = s.freed /\ v.lost = s.lost
        /\ KeepsRunning(s, v) /\ Running(v[f])
    BY <1>5, <2>1, TimerCfg
  <2>3. Good(v, n)
    BY <1>7, <2>2, SamePlaces DEF Good
  <2> QED BY <1>6, <2>2, <2>3 DEF KeepsRunning, Fcs
<1>10. CASE s[f].queue # <<>> /\ ~NeedsQueueing(s[f], p.len)
  <2>1. v = fc_queue_timer_cfg(o, f)
    BY <1>2, <1>10
  <2>2. Flight(taken, p, n) /\ \A g \in Fcs : g # f => taken[g] = s[g]
    BY <1>7, <1>10, TakenFlight
  <2> HIDE DEF taken, p
  <2>3. Good(o, n) /\ KeepsRunning(taken, o)
    BY <2>2, BvcInGood, Transmitted DEF OutCb
  <2> HIDE DEF o
  <2>4. /\ v \in World /\ v.ms.queue = o.ms.queue /\ v.bvc.queue = o.bvc.queue
        /\ v.sent = o.sent /\ v.freed = o.freed /\ v.lost = o.lost
        /\ KeepsRunning(o, v) /\ Running(v[f])
    BY <2>1, <2>3, TimerCfg DEF Good
  <2>5. Good(v, n)
    BY <2>3, <2>4, SamePlaces DEF Good
  <2> QED BY <1>6, <2>2, <2>3, <2>4, <2>5 DEF KeepsRunning, Fcs
<1> QED BY <1>8, <1>9, <1>10

-----------------------------------------------------------------------------
(* The steps of the program.                                               *)

\* A bucket as bssgp_fc_init leaves it.
LEMMA InitBucket ==
  ASSUME NEW s \in Settings
  PROVE  /\ bssgp_fc_init(s) \in Bucket /\ bssgp_fc_init(s).queue = <<>>
         /\ Running(bssgp_fc_init(s))
<1>1. s.size \in Nat /\ s.rate \in Nat
  BY FcAssumption
<1>2. bssgp_fc_init(s) \in Bucket
  BY <1>1, FcAssumption DEF bssgp_fc_init, Bucket
<1> QED BY <1>2 DEF bssgp_fc_init, Running

\* The initial state.
LEMMA InitGood == FcInit => IInv
<1> SUFFICES ASSUME FcInit PROVE IInv
  OBVIOUS
<1>1. PICK s \in Settings :
        fc = [ms |-> bssgp_fc_init(s), bvc |-> bssgp_fc_init(s), default |-> s,
              sent |-> <<>>, freed |-> {}, lost |-> {}]
  BY DEF FcInit
<1> DEFINE b == bssgp_fc_init(s)
<1>2. b \in Bucket /\ b.queue = <<>> /\ Running(b)
  BY InitBucket
<1> HIDE DEF b
<1>3. fc = [ms |-> b, bvc |-> b, default |-> s, sent |-> <<>>, freed |-> {}, lost |-> {}]
  BY <1>1 DEF b
<1>4. fc \in World /\ fc.ms = b /\ fc.bvc = b /\ fc.sent = <<>> /\ fc.freed = {} /\ fc.lost = {}
  BY <1>2, <1>3 DEF World
<1>5. PduIds(<<>>) = {} /\ Elems(<<>>) = {} /\ OnceQueued(<<>>) /\ OnceSent(<<>>) /\ Room(<<>>)
  BY FcAssumption DEF PduIds, Elems, OnceQueued, OnceSent, Room
<1>6. Parted({}, {}, {}, {}, {}, 1..0)
  BY DEF Parted
<1>7. offered = 0
  BY DEF FcInit
<1>8. Placed(fc, 1..0)
  BY <1>2, <1>4, <1>5, <1>6 DEF Placed
<1>9. offered \in 0..MaxPdus
  BY <1>7, FcAssumption
<1> QED BY <1>2, <1>4, <1>7, <1>8, <1>9 DEF IInv, Good

\* A PDU is offered.
LEMMA TxStep ==
  ASSUME IInv, NEW f \in Fcs, NEW len \in Lens, TxDlUd(f, len)
  PROVE  IInv'
<1> DEFINE p == [id |-> offered + 1, len |-> len]
           n == offered + 1
<1>1. n \in Nat /\ n \in 0..MaxPdus /\ p \in Llc /\ p.id = n /\ n \in 1..n /\ (1..n) \ {n} = 1..offered
  BY FcAssumption DEF IInv, Llc, TxDlUd
<1>2. Flight(fc, p, n)
  BY <1>1 DEF Flight, IInv, Good
<1>3. fc' = bssgp_fc_in(fc, f, p) /\ offered' = n
  BY DEF TxDlUd
<1> HIDE DEF p, n
<1>4. Good(fc', n) /\ KeepsRunning(fc, fc')
  BY <1>1, <1>2, <1>3, FcInGood
<1> QED BY <1>1, <1>3, <1>4 DEF IInv, KeepsRunning

\* A timer expires.
LEMMA TimerStep ==
  ASSUME IInv, NEW f \in Fcs, FcTimer(f)
  PROVE  IInv'
<1>1. Good(fc', offered) /\ KeepsRunning(fc, fc') /\ offered' = offered
  <2>1. offered \in Nat
    BY FcAssumption DEF IInv
  <2> QED BY <2>1, TimerGood DEF IInv, FcTimer
<1> QED BY <1>1 DEF IInv, KeepsRunning

\* The BSS changes the settings of the BVC.
LEMMA SettingStep ==
  ASSUME IInv, NEW s \in Settings, bssgp_rx_fc_bvc(s)
  PROVE  IInv'
<1> DEFINE b == [fc.bvc EXCEPT !.size = s.size, !.rate = s.rate]
           w == [fc EXCEPT !.bvc = b, !.default = s]
<1>1. s.size \in Nat /\ s.rate \in Nat /\ fc \in World /\ fc.bvc \in Bucket
  BY FcAssumption DEF IInv, Good, World
<1>2. b \in Bucket /\ b.queue = fc.bvc.queue
  BY <1>1 DEF Bucket
<1>3. fc' = fc_queue_timer_cfg(w, "bvc") /\ offered' = offered
  BY DEF bssgp_rx_fc_bvc
<1> HIDE DEF b
<1>4. /\ w \in World /\ w.ms = fc.ms /\ w.bvc = b /\ w.sent = fc.sent
      /\ w.freed = fc.freed /\ w.lost = fc.lost
  BY <1>1, <1>2 DEF World
<1> HIDE DEF w
<1>5. /\ fc' \in World /\ fc'.ms.queue = w.ms.queue /\ fc'.bvc.queue = w.bvc.queue
      /\ fc'.sent = w.sent /\ fc'.freed = w.freed /\ fc'.lost = w.lost
      /\ KeepsRunning(w, fc') /\ Running(fc'["bvc"])
  BY <1>3, <1>4, TimerCfg DEF Fcs
<1>6. Placed(fc', 1..offered)
  BY <1>2, <1>4, <1>5, SamePlaces DEF IInv, Good
<1> QED BY <1>3, <1>4, <1>5, <1>6 DEF IInv, Good, KeepsRunning

\* Another mobile.
LEMMA MobileStep ==
  ASSUME IInv, bssgp_fc_ms_init
  PROVE  IInv'
<1> DEFINE b == bssgp_fc_init(fc.default)
<1>1. fc \in World /\ fc.default \in Settings
  BY DEF IInv, Good, World
<1>2. b \in Bucket /\ b.queue = <<>> /\ Running(b)
  BY <1>1, InitBucket
<1>3. fc' = [fc EXCEPT !["ms"] = b] /\ offered' = offered /\ fc.ms.queue = <<>>
  BY DEF bssgp_fc_ms_init
<1> HIDE DEF b
<1>4. /\ fc' \in World /\ fc'.ms = b /\ fc'.bvc = fc.bvc
      /\ fc'.sent = fc.sent /\ fc'.freed = fc.freed /\ fc'.lost = fc.lost
  BY <1>1, <1>2, <1>3 DEF World
<1>5. Placed(fc', 1..offered)
  BY <1>2, <1>3, <1>4, SamePlaces DEF IInv, Good
<1> QED BY <1>2, <1>3, <1>4, <1>5 DEF IInv, Good

\* Time goes on.
LEMMA TickStep ==
  ASSUME IInv, Tick
  PROVE  IInv'
<1> DEFINE m(c) == [c EXCEPT !.elapsed = IF @ < MaxElapsed THEN @ + 1 ELSE @]
<1>1. fc \in World
  BY DEF IInv, Good
<1>2. ASSUME NEW c \in Bucket
      PROVE  m(c) \in Bucket /\ m(c).queue = c.queue /\ m(c).rate = c.rate /\ m(c).timer = c.timer
  BY FcAssumption DEF Bucket
<1>3. DOMAIN fc = {"ms", "bvc", "default", "sent", "freed", "lost"} /\ fc.ms \in Bucket /\ fc.bvc \in Bucket
  BY <1>1 DEF World
<1>4. fc' = [x \in DOMAIN fc |-> IF x \in Fcs THEN m(fc[x]) ELSE fc[x]] /\ offered' = offered
  BY DEF Tick
<1> HIDE DEF m
<1>5. fc' = [ms |-> m(fc.ms), bvc |-> m(fc.bvc), default |-> fc.default,
             sent |-> fc.sent, freed |-> fc.freed, lost |-> fc.lost]
  BY <1>3, <1>4 DEF Fcs
<1>6. /\ fc' \in World /\ fc'.ms = m(fc.ms) /\ fc'.bvc = m(fc.bvc)
      /\ fc'.sent = fc.sent /\ fc'.freed = fc.freed /\ fc'.lost = fc.lost
  BY <1>1, <1>2, <1>3, <1>5 DEF World
<1>7. Placed(fc', 1..offered)
  BY <1>2, <1>3, <1>6, SamePlaces DEF IInv, Good
<1> QED BY <1>2, <1>3, <1>4, <1>6, <1>7 DEF IInv, Good, Running

\* The invariant is inductive.
LEMMA Inductive == IInv /\ [FcNext]_fc_vars => IInv'
<1> SUFFICES ASSUME IInv, [FcNext]_fc_vars PROVE IInv'
  OBVIOUS
<1>1. CASE UNCHANGED fc_vars
  BY <1>1 DEF fc_vars, IInv
<1>2. CASE FcNext
  BY <1>2, TxStep, TimerStep, SettingStep, MobileStep, TickStep DEF FcNext
<1> QED BY <1>1, <1>2

\* The invariant gives the property.
LEMMA Implied == IInv => FlowConserved
<1> SUFFICES ASSUME IInv PROVE FlowConserved
  OBVIOUS
<1> DEFINE a == PduIds(fc.ms.queue)
           b == PduIds(fc.bvc.queue)
           c == Sent
           d == fc.freed
           e == fc.lost
           U == 1..offered
           places == [ms |-> a, bvc |-> b, sent |-> c, freed |-> d, lost |-> e]
<1>1. Parted(a, b, c, d, e, U) /\ OnceSent(fc.sent)
  BY DEF IInv, Good, Placed, Sent, Elems
<1> SUFFICES /\ \A x, y \in DOMAIN places : x # y => places[x] \cap places[y] = {}
             /\ UNION {places[x] : x \in DOMAIN places} = U
  <2>1. FcTypeOK
    BY DEF FcTypeOK, IInv, Good, World, Bucket, Placed, Room, Fcs
  <2> QED BY <1>1, <2>1 DEF FlowConserved, Conserved, OnceSent, TimerRuns, IInv, Running, Fcs
<1> HIDE DEF a, b, c, d, e, U
<1>2. DOMAIN places = {"ms", "bvc", "sent", "freed", "lost"}
  OBVIOUS
<1>3. {places[x] : x \in DOMAIN places} = {a, b, c, d, e}
  BY <1>2
<1>4. UNION {a, b, c, d, e} = U
  BY <1>1 DEF Parted
<1>5. \A x, y \in DOMAIN places : x # y => places[x] \cap places[y] = {}
  BY <1>1, <1>2 DEF Parted
<1> QED BY <1>3, <1>4, <1>5

\* Every PDU that was offered is in one queue, sent once, freed or lost, and a
\* queue that may be emptied has a timer, whatever the order of PDUs, expiries
\* and settings (bssgp_fc_in, fc_timer_cb, bssgp_rx_fc_bvc).
THEOREM FlowIsConserved == FcSpec => []FlowConserved
<1>1. FcSpec => []IInv
  BY InitGood, Inductive, PTL DEF FcSpec
<1> QED BY <1>1, Implied, PTL
=============================================================================
