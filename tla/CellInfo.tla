------------------------------ MODULE CellInfo ------------------------------
(***************************************************************************)
(* The list of cells and the paging counters of cell_info.c, over several  *)
(* input files: how system information and paging requests fill them, how  *)
(* they are written to the database once per interval, and the pointer ci  *)
(* of the circuit switched session into the list.                          *)
(*                                                                         *)
(* A step is one DIAG packet: handle_diag calls cell_and_paging_dump with  *)
(* the time of the packet before it looks at the message.  As in Session,  *)
(* the operators named after C functions work on a record w of the state.  *)
(***************************************************************************)
EXTENDS Integers, Sequences

CONSTANTS
  Content,    \* what a system information message can contain
  None,       \* no message of that type seen yet; the null pointer
  Word,       \* 2^32, the range of uint32_t
  Day,        \* 86400: a larger step of the clock is out of sequence
  Interval,   \* DUMP_INTERVAL
  Times,      \* bound: time stamps of packets
  MaxId,      \* bound: cell ids
  MaxPaging,  \* bound: paging identities heard in one file
  MaxFiles    \* bound: input files

\* Real time stamps are closer to zero than to 2^32, by more than a day.
ASSUME CellAssumption ==
  /\ None \notin Content
  /\ Word \in Nat /\ Day \in Nat /\ Interval \in Nat
  /\ 0 < Interval /\ Interval < Day /\ Day < Word
  /\ Times \subseteq 1..(Word - Day - 1)
  /\ MaxId \in Nat /\ MaxPaging \in Nat /\ MaxFiles \in Nat \ {0}

VARIABLES
  cells,         \* cell_list, the newest cell first
  cell_info_id,  \* the next cell id
  previous_ts,   \* time of the last dump, or of the last jump of the clock
  pending,       \* the paging counters
  ci,            \* _s[CS].ci, as the id of the cell
  db,            \* ids in the table cell_info
  sqlerr,        \* an INSERT met a row with its id, or an UPDATE met none (history)
  heard,         \* paging identities of this file (history)
  written,       \* those that went into paging_info (history)
  file,          \* number of the input file
  open           \* between cell_init and cell_destroy

vars == <<cells, cell_info_id, previous_ts, pending, ci, db, sqlerr, heard, written, file, open>>

\* The types of system information.  "SI3" stands for those of the broadcast
\* channel (1, 2, 2bis, 2ter, 2quater, 3, 4, 13), "SI5" for those a session
\* receives on its SACCH (5, 5bis, 5ter, 6).
Index == {"SI3", "SI5"}

Cell == [id : Nat, stored : BOOLEAN, si : [Index -> Content \cup {None}]]

\* paging_count, paging_imsi and paging_tmsi.
Counter == {"count", "imsi", "tmsi"}
Zero == [k \in Counter |-> 0]
Plus(p, q) == [k \in Counter |-> p[k] + q[k]]

Here == [cells |-> cells, cell_info_id |-> cell_info_id, previous_ts |-> previous_ts,
         pending |-> pending, ci |-> ci, db |-> db, sqlerr |-> sqlerr,
         heard |-> heard, written |-> written]

Becomes(w) ==
  /\ cells' = w.cells
  /\ cell_info_id' = w.cell_info_id
  /\ previous_ts' = w.previous_ts
  /\ pending' = w.pending
  /\ ci' = w.ci
  /\ db' = w.db
  /\ sqlerr' = w.sqlerr
  /\ heard' = w.heard
  /\ written' = w.written

-----------------------------------------------------------------------------
(* Dumping.                                                                *)

\* INSERT for a cell that is not stored, UPDATE for one that is.
cell_make_sql(w, c) ==
  [w EXCEPT !.db     = IF c.stored THEN @ ELSE @ \cup {c.id},
            !.sqlerr = @ \/ (c.stored # (c.id \in w.db))]

\* Faulty variant of dump_cells: the cells are not marked as stored.
DumpUnmarked(w) ==
  [w EXCEPT !.db     = @ \cup {w.cells[i].id : i \in 1..Len(w.cells)},
            !.sqlerr = @ \/ \E i \in 1..Len(w.cells) :
                              cell_make_sql(w, w.cells[i]).sqlerr]

\* One pass over the list; ids on the list are distinct, so that no row of
\* this pass depends on another one.
dump_cells(w) ==
  [w EXCEPT !.db     = @ \cup UNION {cell_make_sql(w, w.cells[i]).db : i \in 1..Len(w.cells)},
            !.sqlerr = @ \/ \E i \in 1..Len(w.cells) : cell_make_sql(w, w.cells[i]).sqlerr,
            !.cells  = [i \in 1..Len(w.cells) |-> [w.cells[i] EXCEPT !.stored = TRUE]]]

\* The row is left out if no time has passed; an epoch of 0 is replaced.
paging_make_sql(w, t) ==
  LET epoch == IF t = 0 THEN w.previous_ts ELSE t
  IN IF epoch # w.previous_ts THEN [w EXCEPT !.written = Plus(@, w.pending)] ELSE w

\* Faulty variant: a jump of the clock also resets the counters.
DumpResetsOnJump(w, t, forced, on_destroy) ==
  LET delta == (t - w.previous_ts) % Word
      w1    == paging_make_sql(dump_cells(w), t)
  IN CASE delta > Day                   -> [w EXCEPT !.previous_ts = t, !.pending = Zero]
       [] delta <= Day /\ ~forced /\ delta < Interval -> w
       [] OTHER -> [w1 EXCEPT !.cells = IF on_destroy THEN <<>> ELSE @,
                              !.pending = Zero, !.previous_ts = t]

\* A step of the clock by more than a day, either way, only sets the time; a
\* dump that is not forced waits for the interval to pass.
cell_and_paging_dump(w, t, forced, on_destroy) ==
  LET delta == (t - w.previous_ts) % Word
      w1    == paging_make_sql(dump_cells(w), t)
  IN CASE delta > Day                   -> [w EXCEPT !.previous_ts = t]
       [] delta <= Day /\ ~forced /\ delta < Interval -> w
       [] OTHER -> [w1 EXCEPT !.cells = IF on_destroy THEN <<>> ELSE @,
                              !.pending = Zero, !.previous_ts = t]

-----------------------------------------------------------------------------
(* System information.                                                     *)

\* The first cell of the list that has this content, as a place in the list.
get_from_si(w, index, c) ==
  {i \in 1..Len(w.cells) : /\ w.cells[i].si[index] = c
                           /\ \A j \in 1..(i - 1) : w.cells[j].si[index] # c}

\* Append a new cell with this content; the id counter is advanced.
NewCell(w, index, c) ==
  [w EXCEPT !.cells = <<[id |-> w.cell_info_id, stored |-> FALSE,
                         si |-> [k \in Index |-> IF k = index THEN c ELSE None]]>> \o @,
            !.cell_info_id = @ + 1]

\* The cell with this id gets the content.
SetContent(w, id, index, c) ==
  [w EXCEPT !.cells = [i \in 1..Len(w.cells) |->
                         IF w.cells[i].id = id THEN [w.cells[i] EXCEPT !.si[index] = c]
                                               ELSE w.cells[i]]]

\* Types 5 to 6: the cell of the session is updated; a session without one
\* takes the cell that is found, or the new one.
SysInfo5(w, c) ==
  LET found == get_from_si(w, "SI5", c)
  IN CASE w.ci # None                  -> SetContent(w, w.ci, "SI5", c)
       [] w.ci = None /\ found # {}    -> [w EXCEPT !.ci = w.cells[CHOOSE i \in found : TRUE].id]
       [] OTHER                        -> [NewCell(w, "SI5", c) EXCEPT !.ci = w.cell_info_id]

\* The other types: a cell that is found is only counted.
SysInfo3(w, c) == IF get_from_si(w, "SI3", c) # {} THEN w ELSE NewCell(w, "SI3", c)

\* reset: the message is on the broadcast channel and ends the session, whose
\* successor has no cell.
handle_sysinfo(w, index, c, reset) ==
  LET w1 == IF reset THEN [w EXCEPT !.ci = None] ELSE w
  IN IF index = "SI5" THEN SysInfo5(w1, c) ELSE SysInfo3(w1, c)

-----------------------------------------------------------------------------
(* Paging requests.                                                        *)

MIType == {"NONE", "IMSI", "TMSI", "IMEI"}

\* One call of paging_inc, as what it adds to the counters.
paging_inc(pag_type, mi) ==
  [k \in Counter |-> CASE k = "count" -> IF pag_type > 0 /\ mi # "NONE" THEN 1 ELSE 0
                       [] k = "imsi"  -> IF mi = "IMSI" THEN 1 ELSE 0
                       [] k = "tmsi"  -> IF mi = "TMSI" THEN 1 ELSE 0]

\* more: the request has an optional second or third identity.
handle_paging1(mi, more, mi2) ==
  IF more THEN Plus(paging_inc(1, mi), paging_inc(0, mi2)) ELSE paging_inc(1, mi)

handle_paging2(more, mi) ==
  LET two == Plus(paging_inc(2, "TMSI"), paging_inc(0, "TMSI"))
  IN IF more THEN Plus(two, paging_inc(0, mi)) ELSE two

handle_paging3 ==
  Plus(Plus(paging_inc(3, "TMSI"), paging_inc(0, "TMSI")),
       Plus(paging_inc(0, "TMSI"), paging_inc(0, "TMSI")))

PagingRequests ==
  {handle_paging1(mi, more, mi2) : mi \in MIType, more \in BOOLEAN, mi2 \in MIType}
    \cup {handle_paging2(more, mi) : more \in BOOLEAN, mi \in MIType}
    \cup {handle_paging3}

Paged(w, p) == [w EXCEPT !.pending = Plus(@, p), !.heard = Plus(@, p)]

-----------------------------------------------------------------------------
(* Steps: one packet each, or the begin or end of a file.                  *)

\* The state after the dump that precedes every packet.
Dumped(t) == cell_and_paging_dump(Here, t, FALSE, FALSE)

SysInfo(t, index, c, reset) ==
  /\ open /\ cell_info_id < MaxId
  /\ reset => index = "SI3"
  /\ Becomes(handle_sysinfo(Dumped(t), index, c, reset))
  /\ UNCHANGED <<file, open>>

Paging(t, p) ==
  /\ open
  /\ \A k \in Counter : heard[k] + p[k] <= MaxPaging
  /\ Becomes(Paged(Dumped(t), p))
  /\ UNCHANGED <<file, open>>

\* Any other packet; reset: its message ends the session.
Other(t, reset) ==
  /\ open
  /\ Becomes(IF reset THEN [Dumped(t) EXCEPT !.ci = None] ELSE Dumped(t))
  /\ UNCHANGED <<file, open>>

\* Faulty variant of cell_init: the ids start again.
InitFromZero(t) ==
  /\ ~open /\ file < MaxFiles
  /\ cells' = <<>> /\ pending' = Zero /\ previous_ts' = t /\ cell_info_id' = 0
  /\ ci' = None
  /\ heard' = Zero /\ written' = Zero
  /\ file' = file + 1 /\ open' = TRUE
  /\ UNCHANGED <<db, sqlerr>>

\* The list is emptied by making its head anew.  session_init has cleared ci.
cell_init(t) ==
  /\ ~open /\ file < MaxFiles
  /\ cells' = <<>> /\ pending' = Zero /\ previous_ts' = t
  /\ ci' = None
  /\ heard' = Zero /\ written' = Zero
  /\ file' = file + 1 /\ open' = TRUE
  /\ UNCHANGED <<cell_info_id, db, sqlerr>>

\* session_destroy resets the sessions first.  The id counter is handed to
\* the next file as *last_cid.
cell_destroy ==
  /\ open
  /\ Becomes(cell_and_paging_dump([Here EXCEPT !.ci = None], 0, TRUE, TRUE))
  /\ open' = FALSE
  /\ UNCHANGED file

Init ==
  /\ cells = <<>> /\ cell_info_id = 0 /\ pending = Zero /\ ci = None
  /\ previous_ts \in Times
  /\ db = {} /\ sqlerr = FALSE
  /\ heard = Zero /\ written = Zero
  /\ file = 1 /\ open = TRUE

Next ==
  \/ \E t \in Times, index \in Index, c \in Content, reset \in BOOLEAN : SysInfo(t, index, c, reset)
  \/ \E t \in Times, p \in PagingRequests : Paging(t, p)
  \/ \E t \in Times, reset \in BOOLEAN : Other(t, reset)
  \/ \E t \in Times : cell_init(t)
  \/ cell_destroy

Spec == Init /\ [][Next]_vars

-----------------------------------------------------------------------------
(* Properties.                                                             *)

TypeOK ==
  /\ cells \in Seq(Cell) /\ cell_info_id \in 0..MaxId
  /\ previous_ts \in Times \cup {0}
  /\ pending \in [Counter -> Nat]
  /\ ci \in Nat \cup {None}
  /\ db \subseteq Nat /\ sqlerr \in BOOLEAN
  /\ heard \in [Counter -> Nat] /\ written \in [Counter -> Nat]
  /\ file \in 1..MaxFiles /\ open \in BOOLEAN

\* A cell is inserted once and updated only after that, over all files: the
\* flag stored and the id counter handed from file to file agree with the
\* database (cell_make_sql, cell_init, cell_destroy).
NoSqlConflict == ~sqlerr

\* The session's pointer into the list never outlives the cell: neither a
\* cell dropped in favour of the session's own nor the change of files leaves
\* it dangling (handle_sysinfo, session_reset, cell_init).
CiListed == ci # None => \E i \in 1..Len(cells) : cells[i].id = ci

\* Every paging identity heard in a file is in the counters or was written,
\* once, also when the clock jumps (cell_and_paging_dump, paging_reset).
PagingConserved == open => heard = Plus(written, pending)

\* The list has one cell per content of a broadcast message, so that the
\* counters of a cell are not split over two rows (get_from_si).
CellsDistinct ==
  \A i, j \in 1..Len(cells) :
    cells[i].si["SI3"] = cells[j].si["SI3"] /\ cells[i].si["SI3"] # None => i = j

\* The list of cells and the database agree over all files.
CellListConsistent == NoSqlConflict /\ CiListed /\ CellsDistinct

\* The comment "Destroy event" of cell_and_paging_dump: when cell_destroy has
\* returned, the cells have been dumped and the list is empty.
DestroyEmptiesList == ~open => cells = <<>>
=============================================================================
