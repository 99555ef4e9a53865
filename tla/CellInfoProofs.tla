-------------------------- MODULE CellInfoProofs ---------------------------
(***************************************************************************)
(* CellInfo: the list of cells agrees with the database over any number of *)
(* files, any time stamps and any contents, and no paging identity is lost *)
(* or counted twice.                                                       *)
(***************************************************************************)
EXTENDS CellInfo, WellFoundedInduction, TLAPS

-----------------------------------------------------------------------------
(* The inductive invariant, on the record the C functions work on.         *)

World == [cells : Seq(Cell), cell_info_id : Nat, previous_ts : Times \cup {0},
          pending : [Counter -> Nat], ci : Nat \cup {None}, db : SUBSET Nat,
          sqlerr : BOOLEAN, heard : [Counter -> Nat], written : [Counter -> Nat]]

\* The ids of the list are distinct and were all handed out.
IdsOK(w) ==
  /\ \A i \in 1..Len(w.cells) : w.cells[i].id < w.cell_info_id
  /\ \A i, j \in 1..Len(w.cells) : w.cells[i].id = w.cells[j].id => i = j

\* The rows are those of cells that were handed out, and a listed cell has a
\* row exactly when it is marked.
RowsOK(w) ==
  /\ \A id \in w.db : id < w.cell_info_id
  /\ \A i \in 1..Len(w.cells) : w.cells[i].stored <=> w.cells[i].id \in w.db
  /\ ~w.sqlerr

Pointed(w) == w.ci # None => \E i \in 1..Len(w.cells) : w.cells[i].id = w.ci

Broadcast(w) ==
  \A i, j \in 1..Len(w.cells) :
    w.cells[i].si["SI3"] = w.cells[j].si["SI3"] /\ w.cells[i].si["SI3"] # None => i = j

Good(w) == w \in World /\ IdsOK(w) /\ RowsOK(w) /\ Pointed(w) /\ Broadcast(w)

Counted(w) == w.heard = Plus(w.written, w.pending)

IInv ==
  /\ Good(Here)
  /\ open => Counted(Here)
  /\ cell_info_id <= MaxId
  /\ file \in 1..MaxFiles /\ open \in BOOLEAN

-----------------------------------------------------------------------------
(* Arithmetic.                                                             *)

\* The counters are vectors: their sums commute and associate.
LEMMA PlusFacts ==
  ASSUME NEW p \in [Counter -> Nat], NEW q \in [Counter -> Nat], NEW r \in [Counter -> Nat]
  PROVE  /\ Plus(p, q) \in [Counter -> Nat]
         /\ Zero \in [Counter -> Nat]
         /\ Plus(p, Zero) = p
         /\ Plus(Plus(p, q), r) = Plus(p, Plus(q, r))
<1>1. Plus(p, q) \in [Counter -> Nat] /\ Zero \in [Counter -> Nat]
  BY DEF Plus, Zero
<1>2. Plus(p, Zero) = p
  BY DEF Plus, Zero
<1>3. Plus(Plus(p, q), r) = Plus(p, Plus(q, r))
  BY DEF Plus
<1>4. QED
  BY <1>1, <1>2, <1>3

\* A difference of time stamps modulo 2^32; no time has passed when it is zero.
LEMMA DeltaFacts ==
  ASSUME NEW t \in Times \cup {0}, NEW u \in Times \cup {0}
  PROVE  /\ (t - u) % Word \in Nat
         /\ (t - u) % Word >= Interval => t # u
<1>1. t \in Int /\ u \in Int /\ Word \in Nat /\ Word > 0 /\ Interval \in Nat /\ Interval > 0
  BY CellAssumption
<1>2. (t - u) % Word \in Nat
  BY <1>1
<1>3. ASSUME t = u PROVE (t - u) % Word = 0
  <2>1. t - u = 0
    BY <1>1, <1>3
  <2>2. 0 % Word = 0
    BY <1>1
  <2>3. QED
    BY <2>1, <2>2
<1>4. QED
  BY <1>1, <1>2, <1>3

-----------------------------------------------------------------------------
(* Sequences.                                                              *)

\* A function on an initial segment of the naturals is a sequence.
LEMMA SeqOfFunction ==
  ASSUME NEW S, NEW n \in Nat, NEW f \in [1..n -> S]
  PROVE  f \in Seq(S) /\ Len(f) = n
  OBVIOUS

\* A set of naturals that is not empty has a least element.
LEMMA Least ==
  ASSUME NEW T \in SUBSET Nat, T # {}
  PROVE  \E x \in T : \A y \in T : x <= y
<1>1. PICK x \in T : \A y \in T : ~ (<<y, x>> \in OpToRel(<, Nat))
  BY NatLessThanWellFounded, WFMin
<1>2. \A y \in T : ~ (y < x)
  BY <1>1 DEF OpToRel
<1>3. QED
  BY <1>2

-----------------------------------------------------------------------------
(* The operators of cell_info.c.                                           *)

\* What the list and the database look like depends on five fields.
LEMMA SameList ==
  ASSUME NEW w, Good(w), NEW v \in World,
         v.cells = w.cells, v.db = w.db, v.sqlerr = w.sqlerr, v.ci = w.ci,
         v.cell_info_id = w.cell_info_id
  PROVE  Good(v)
  BY DEF Good, IdsOK, RowsOK, Pointed, Broadcast

\* An empty list agrees with any rows that were handed out.
LEMMA EmptyListGood ==
  ASSUME NEW v \in World, v.cells = <<>>, v.sqlerr = FALSE, v.ci = None,
         \A id \in v.db : id < v.cell_info_id
  PROVE  Good(v)
<1>1. Len(v.cells) = 0 /\ 1..0 = {}
  OBVIOUS
<1>2. QED
  BY <1>1 DEF Good, IdsOK, RowsOK, Pointed, Broadcast

\* After a pass over the list all cells are marked and have rows, and no
\* statement failed.
LEMMA DumpKeeps ==
  ASSUME NEW w, Good(w)
  PROVE  /\ Good(dump_cells(w))
         /\ dump_cells(w).heard = w.heard /\ dump_cells(w).written = w.written
         /\ dump_cells(w).pending = w.pending /\ dump_cells(w).previous_ts = w.previous_ts
         /\ dump_cells(w).cell_info_id = w.cell_info_id
<1> DEFINE v == dump_cells(w)
<1> DEFINE marked == [i \in 1..Len(w.cells) |-> [w.cells[i] EXCEPT !.stored = TRUE]]
<1>1. w \in World /\ w.cells \in Seq(Cell) /\ Len(w.cells) \in Nat
  BY DEF Good, World
<1>2. \A i \in 1..Len(w.cells) : w.cells[i] \in Cell
  BY <1>1
<1>3. \A i \in 1..Len(w.cells) : /\ marked[i] \in Cell
                                 /\ marked[i].id = w.cells[i].id
                                 /\ marked[i].stored = TRUE
                                 /\ marked[i].si = w.cells[i].si
  BY <1>2 DEF Cell
<1>4. marked \in Seq(Cell) /\ Len(marked) = Len(w.cells)
  <2>1. marked \in [1..Len(w.cells) -> Cell]
    BY <1>3
  <2>2. QED
    BY <1>1, <2>1, SeqOfFunction
<1>5. \A i \in 1..Len(w.cells) :
        /\ cell_make_sql(w, w.cells[i]).sqlerr = FALSE
        /\ cell_make_sql(w, w.cells[i]).db = w.db \cup {w.cells[i].id}
  <2> SUFFICES ASSUME NEW i \in 1..Len(w.cells)
               PROVE  /\ cell_make_sql(w, w.cells[i]).sqlerr = FALSE
                      /\ cell_make_sql(w, w.cells[i]).db = w.db \cup {w.cells[i].id}
    OBVIOUS
  <2>1. w.cells[i].stored \in BOOLEAN /\ (w.cells[i].stored <=> w.cells[i].id \in w.db) /\ w.sqlerr = FALSE
    BY <1>1, <1>2 DEF Good, RowsOK, Cell, World
  <2>2. QED
    BY <1>1, <2>1 DEF cell_make_sql, World
<1>6. /\ v.cells = marked
      /\ v.db = w.db \cup {w.cells[i].id : i \in 1..Len(w.cells)}
      /\ v.sqlerr = FALSE
      /\ v.heard = w.heard /\ v.written = w.written /\ v.pending = w.pending
      /\ v.previous_ts = w.previous_ts /\ v.cell_info_id = w.cell_info_id /\ v.ci = w.ci
  <2>1. w.sqlerr = FALSE
    BY <1>1 DEF Good, RowsOK, World
  <2>2. w.db \cup UNION {cell_make_sql(w, w.cells[i]).db : i \in 1..Len(w.cells)}
          = w.db \cup {w.cells[i].id : i \in 1..Len(w.cells)}
    BY <1>5
  <2>3. (w.sqlerr \/ \E i \in 1..Len(w.cells) : cell_make_sql(w, w.cells[i]).sqlerr) = FALSE
    BY <1>5, <2>1
  <2>4. QED
    BY <1>1, <2>2, <2>3 DEF dump_cells, World
<1>7. v \in World
  <2>1. v.db \in SUBSET Nat
    BY <1>1, <1>2, <1>6 DEF World, Cell
  <2>2. v = [w EXCEPT !.cells = v.cells, !.db = v.db, !.sqlerr = v.sqlerr]
    BY <1>1 DEF dump_cells, World
  <2>3. QED
    BY <1>1, <1>4, <1>6, <2>1, <2>2 DEF World
<1>8. IdsOK(v) /\ Pointed(v) /\ Broadcast(v)
  BY <1>3, <1>4, <1>6 DEF Good, IdsOK, Pointed, Broadcast
<1>9. RowsOK(v)
  BY <1>1, <1>3, <1>4, <1>6 DEF Good, IdsOK, RowsOK
<1>10. QED
  BY <1>6, <1>7, <1>8, <1>9 DEF Good

\* The dump before a packet, or at the end of a file, keeps the invariant; the
\* one before a packet loses no paging identity.
LEMMA DumpAndPaging ==
  ASSUME NEW w, Good(w), NEW t \in Times \cup {0},
         NEW forced \in BOOLEAN, NEW on_destroy \in BOOLEAN,
         on_destroy => w.ci = None
  PROVE  LET v == cell_and_paging_dump(w, t, forced, on_destroy)
         IN /\ Good(v)
            /\ v.cell_info_id = w.cell_info_id /\ v.heard = w.heard
            /\ v.ci = w.ci
            /\ ~forced /\ t # 0 /\ Counted(w) => Counted(v)
<1> DEFINE v     == cell_and_paging_dump(w, t, forced, on_destroy)
           delta == (t - w.previous_ts) % Word
           d     == dump_cells(w)
           p     == paging_make_sql(d, t)
<1>1. /\ w \in World /\ d \in World /\ Good(d)
      /\ w.previous_ts \in Times \cup {0} /\ Day \in Nat /\ Interval \in Nat
  BY CellAssumption, DumpKeeps DEF Good, World
<1>2. delta \in Nat /\ (delta >= Interval => t # w.previous_ts)
  BY <1>1, DeltaFacts
<1>3. CASE delta > Day
  <2>1. v = [w EXCEPT !.previous_ts = t]
    BY <1>1, <1>2, <1>3 DEF cell_and_paging_dump
  <2>2. /\ v \in World /\ v.cells = w.cells /\ v.db = w.db /\ v.sqlerr = w.sqlerr
        /\ v.ci = w.ci /\ v.cell_info_id = w.cell_info_id /\ v.heard = w.heard
        /\ v.written = w.written /\ v.pending = w.pending
    BY <1>1, <2>1 DEF World
  <2>3. Good(v)
    BY <2>2, SameList
  <2>4. Counted(w) => Counted(v)
    BY <2>2 DEF Counted
  <2>5. QED
    BY <2>2, <2>3, <2>4
<1>4. CASE delta <= Day /\ ~forced /\ delta < Interval
  <2>1. v = w
    BY <1>1, <1>2, <1>4 DEF cell_and_paging_dump
  <2>2. QED
    BY <2>1
<1>5. CASE ~(delta > Day) /\ (forced \/ ~(delta < Interval))
  <2>1. v = [p EXCEPT !.cells = IF on_destroy THEN <<>> ELSE @,
                      !.pending = Zero, !.previous_ts = t]
    BY <1>1, <1>2, <1>5 DEF cell_and_paging_dump
  <2>2. /\ p = [d EXCEPT !.written = p.written]
        /\ p.written \in [Counter -> Nat]
        /\ ~forced /\ t # 0 => p.written = Plus(d.written, d.pending)
    <3>1. Plus(d.written, d.pending) \in [Counter -> Nat]
      BY <1>1, PlusFacts DEF World
    <3>2. ~forced /\ t # 0 => t # d.previous_ts
      BY <1>1, <1>2, <1>5, DumpKeeps
    <3>3. QED
      BY <1>1, <3>1, <3>2 DEF paging_make_sql, World
  <2>3. p \in World
    BY <1>1, <2>2 DEF World
  <2>4. Zero \in [Counter -> Nat] /\ <<>> \in Seq(Cell)
    BY DEF Zero
  <2>5. v \in World /\ v.cells = IF on_destroy THEN <<>> ELSE d.cells
    <3>1. CASE on_destroy
      BY <1>1, <2>1, <2>3, <2>4, <3>1 DEF World
    <3>2. CASE ~on_destroy
      <4>1. v = [p EXCEPT !.pending = Zero, !.previous_ts = t]
        BY <1>1, <2>1, <2>3, <3>2 DEF World
      <4>2. p.cells = d.cells
        BY <1>1, <2>2 DEF World
      <4>3. QED
        BY <1>1, <2>3, <2>4, <3>2, <4>1, <4>2 DEF World
    <3>3. QED
      BY <3>1, <3>2
  <2>6. /\ v.cell_info_id = d.cell_info_id /\ v.heard = d.heard /\ v.ci = d.ci
        /\ v.db = d.db /\ v.sqlerr = d.sqlerr
        /\ v.written = p.written /\ v.pending = Zero
    BY <1>1, <2>1, <2>2, <2>3 DEF World
  <2>7. d.ci = w.ci
    BY <1>1 DEF dump_cells, World
  <2>8. Good(v)
    <3>1. CASE on_destroy
      <4>1. v.cells = <<>> /\ v.ci = None
        BY <2>5, <2>6, <2>7, <3>1
      <4>2. v.sqlerr = FALSE /\ \A id \in v.db : id < v.cell_info_id
        BY <1>1, <2>6 DEF Good, RowsOK, World
      <4>3. QED
        BY <2>5, <4>1, <4>2, EmptyListGood
    <3>2. CASE ~on_destroy
      BY <1>1, <2>5, <2>6, <3>2, SameList
    <3>3. QED
      BY <3>1, <3>2
  <2>9. ~forced /\ t # 0 /\ Counted(w) => Counted(v)
    <3> SUFFICES ASSUME ~forced, t # 0, Counted(w)
                 PROVE  Counted(v)
      OBVIOUS
    <3>1. v.heard = Plus(w.written, w.pending)
      BY <2>6, DumpKeeps DEF Counted
    <3>2. v.written = Plus(w.written, w.pending)
      BY <2>2, <2>6, DumpKeeps
    <3>3. Plus(w.written, w.pending) \in [Counter -> Nat]
      BY <1>1, PlusFacts DEF World
    <3>4. Plus(v.written, v.pending) = v.written
      BY <2>6, <3>2, <3>3, PlusFacts
    <3>5. QED
      BY <3>1, <3>2, <3>4 DEF Counted
  <2>10. QED
    BY <2>6, <2>7, <2>8, <2>9, DumpKeeps
<1>6. QED
  BY <1>1, <1>2, <1>3, <1>4, <1>5

\* No first cell with a content: no cell has it.
LEMMA NotFound ==
  ASSUME NEW w, Good(w), NEW index \in Index, NEW c, get_from_si(w, index, c) = {}
  PROVE  \A i \in 1..Len(w.cells) : w.cells[i].si[index] # c
<1> DEFINE T == {i \in 1..Len(w.cells) : w.cells[i].si[index] = c}
<1>1. Len(w.cells) \in Nat
  BY DEF Good, World
<1>2. SUFFICES ASSUME T # {} PROVE FALSE
  OBVIOUS
<1>3. T \in SUBSET Nat
  BY <1>1
<1>4. PICK x \in T : \A y \in T : x <= y
  BY <1>2, <1>3, Least
<1>5. \A j \in 1..(x - 1) : w.cells[j].si[index] # c
  BY <1>1, <1>3, <1>4
<1>6. x \in get_from_si(w, index, c)
  BY <1>5 DEF get_from_si
<1>7. QED
  BY <1>6

\* A new cell is the first of the list and has an id of its own; two cells get
\* the same content of a broadcast message only if it was there already.
LEMMA NewCellGood ==
  ASSUME NEW w, Good(w), NEW index \in Index, NEW c \in Content,
         index = "SI3" => \A i \in 1..Len(w.cells) : w.cells[i].si["SI3"] # c
  PROVE  LET v == NewCell(w, index, c)
         IN /\ Good(v) /\ Len(v.cells) >= 1 /\ v.cells[1].id = w.cell_info_id
            /\ v.cell_info_id = w.cell_info_id + 1
            /\ v.heard = w.heard /\ v.written = w.written /\ v.pending = w.pending
<1> DEFINE new == [id |-> w.cell_info_id, stored |-> FALSE,
                   si |-> [k \in Index |-> IF k = index THEN c ELSE None]]
           v   == NewCell(w, index, c)
           n   == Len(w.cells)
<1>1. w \in World /\ w.cells \in Seq(Cell) /\ n \in Nat /\ w.cell_info_id \in Nat
  BY DEF Good, World
<1>2. new \in Cell
  BY <1>1 DEF Cell
<1> HIDE DEF new
<1> DEFINE q == <<new>> \o w.cells
<1>3. /\ q \in Seq(Cell)
      /\ Len(q) = n + 1
      /\ q[1] = new
      /\ \A i \in 1..n : q[i + 1] = w.cells[i]
  <2>1. <<new>> \in Seq(Cell) /\ Len(<<new>>) = 1 /\ <<new>>[1] = new
    BY <1>2
  <2>2. QED
    BY <1>1, <2>1
<1>4. v = [w EXCEPT !.cells = q, !.cell_info_id = w.cell_info_id + 1]
  BY <1>1 DEF NewCell, new, World
<1> HIDE DEF q, v, n
<1>5. /\ v \in World /\ v.cells = q
      /\ v.cell_info_id = w.cell_info_id + 1
      /\ v.db = w.db /\ v.sqlerr = w.sqlerr /\ v.ci = w.ci
      /\ v.heard = w.heard /\ v.written = w.written /\ v.pending = w.pending
  <2>1. q \in Seq(Cell) /\ w.cell_info_id + 1 \in Nat
    BY <1>1, <1>3
  <2>2. QED
    BY <1>1, <1>4, <2>1 DEF World
<1>6. /\ Len(v.cells) = n + 1 /\ v.cells[1] = new
      /\ \A i \in 1..n : v.cells[i + 1] = w.cells[i]
  BY <1>3, <1>5
<1>7. \A i \in 1..(n + 1) : i = 1 \/ (i - 1 \in 1..n /\ v.cells[i] = w.cells[i - 1])
  <2> SUFFICES ASSUME NEW i \in 1..(n + 1), i # 1
               PROVE  i - 1 \in 1..n /\ v.cells[i] = w.cells[i - 1]
    OBVIOUS
  <2>1. i - 1 \in 1..n /\ (i - 1) + 1 = i
    BY <1>1
  <2>2. QED
    BY <1>6, <2>1
<1>8. \A i \in 1..n : w.cells[i] \in Cell
  BY <1>1 DEF n
<1>9. \A i \in 1..n : w.cells[i].id \in Nat /\ w.cells[i].id < w.cell_info_id
  BY <1>8 DEF Good, IdsOK, Cell, n
<1>10. IdsOK(v)
  <2>0. new.id = w.cell_info_id
    BY DEF new
  <2>1. \A i \in 1..Len(v.cells) : v.cells[i].id < v.cell_info_id
    <3> SUFFICES ASSUME NEW i \in 1..(n + 1)
                 PROVE  v.cells[i].id < w.cell_info_id + 1
      BY <1>5, <1>6
    <3>1. CASE i = 1
      BY <1>1, <1>6, <2>0, <3>1
    <3>2. CASE i # 1
      <4>1. i - 1 \in 1..n /\ v.cells[i] = w.cells[i - 1]
        BY <1>1, <1>7, <3>2
      <4>2. w.cells[i - 1].id \in Nat /\ w.cells[i - 1].id < w.cell_info_id
        BY <1>9, <4>1
      <4>3. w.cell_info_id \in Nat
        BY <1>1
      <4>4. QED
        BY <4>1, <4>2, <4>3
    <3>3. QED
      BY <3>1, <3>2
  <2>2. \A i, j \in 1..Len(v.cells) : v.cells[i].id = v.cells[j].id => i = j
    <3> SUFFICES ASSUME NEW i \in 1..(n + 1), NEW j \in 1..(n + 1), v.cells[i].id = v.cells[j].id
                 PROVE  i = j
      BY <1>6
    <3>2. CASE i = 1 \/ j = 1
      <4>1. \A k \in 1..n : w.cells[k].id # new.id
        BY <1>1, <1>9, <2>0
      <4>2. QED
        BY <1>6, <1>7, <3>2, <4>1
    <3>3. CASE i # 1 /\ j # 1
      <4>1. w.cells[i - 1].id = w.cells[j - 1].id /\ i - 1 \in 1..n /\ j - 1 \in 1..n
        BY <1>7, <3>3
      <4>2. i - 1 = j - 1
        BY <4>1 DEF Good, IdsOK, n
      <4>3. QED
        BY <1>1, <4>2
    <3>4. QED
      BY <3>2, <3>3
  <2>3. QED
    BY <2>1, <2>2 DEF IdsOK
<1>11. RowsOK(v)
  <2>1. \A id \in w.db : id \in Nat /\ id < w.cell_info_id
    BY <1>1 DEF Good, RowsOK, World
  <2>2. \A i \in 1..Len(v.cells) : v.cells[i].stored <=> v.cells[i].id \in v.db
    <3> SUFFICES ASSUME NEW i \in 1..(n + 1)
                 PROVE  v.cells[i].stored <=> v.cells[i].id \in v.db
      BY <1>6
    <3>1. CASE i = 1
      BY <1>1, <1>5, <1>6, <2>1, <3>1 DEF new
    <3>2. CASE i # 1
      BY <1>5, <1>7, <3>2 DEF Good, RowsOK, n
    <3>3. QED
      BY <3>1, <3>2
  <2>3. \A id \in v.db : id < v.cell_info_id
    BY <1>1, <1>5, <2>1
  <2>4. QED
    BY <1>5, <2>2, <2>3 DEF Good, RowsOK
<1>12. Pointed(v)
  <2> SUFFICES ASSUME v.ci # None
               PROVE  \E i \in 1..Len(v.cells) : v.cells[i].id = v.ci
    BY DEF Pointed
  <2>1. PICK i \in 1..n : w.cells[i].id = v.ci
    BY <1>5 DEF Good, Pointed, n
  <2>2. i + 1 \in 1..Len(v.cells) /\ v.cells[i + 1].id = v.ci
    BY <1>1, <1>6, <2>1
  <2>3. QED
    BY <2>2
<1>13. Broadcast(v)
  <2> SUFFICES ASSUME NEW i \in 1..(n + 1), NEW j \in 1..(n + 1),
                      v.cells[i].si["SI3"] = v.cells[j].si["SI3"], v.cells[i].si["SI3"] # None
               PROVE  i = j
    BY <1>6 DEF Broadcast
  <2>1. new.si["SI3"] = IF index = "SI3" THEN c ELSE None
    BY DEF new, Index
  <2>2. \A k \in 1..n : w.cells[k].si["SI3"] # new.si["SI3"] \/ new.si["SI3"] = None
    BY <2>1 DEF n
  <2>3. CASE i = 1 \/ j = 1
    BY <1>6, <1>7, <2>2, <2>3
  <2>4. CASE i # 1 /\ j # 1
    <3>1. /\ i - 1 \in 1..n /\ j - 1 \in 1..n
          /\ w.cells[i - 1].si["SI3"] = w.cells[j - 1].si["SI3"] /\ w.cells[i - 1].si["SI3"] # None
      BY <1>7, <2>4
    <3>2. i - 1 = j - 1
      BY <3>1 DEF Good, Broadcast, n
    <3>3. QED
      BY <1>1, <3>2
  <2>5. QED
    BY <2>3, <2>4
<1>14. QED
  BY <1>1, <1>5, <1>6, <1>10, <1>11, <1>12, <1>13 DEF Good, new, v

\* The content of an associated channel touches neither ids nor rows.
LEMMA SetContentGood ==
  ASSUME NEW w, Good(w), NEW id, NEW c \in Content
  PROVE  LET v == SetContent(w, id, "SI5", c)
         IN /\ Good(v) /\ v.cell_info_id = w.cell_info_id
            /\ v.heard = w.heard /\ v.written = w.written /\ v.pending = w.pending
<1> DEFINE n   == Len(w.cells)
           new == [i \in 1..n |-> IF w.cells[i].id = id THEN [w.cells[i] EXCEPT !.si["SI5"] = c]
                                                         ELSE w.cells[i]]
           v   == SetContent(w, id, "SI5", c)
<1>1. w \in World /\ w.cells \in Seq(Cell) /\ n \in Nat
  BY DEF Good, World
<1>2. \A i \in 1..n : w.cells[i] \in Cell
  BY <1>1
<1>3. \A i \in 1..n : /\ new[i] \in Cell
                       /\ new[i].id = w.cells[i].id /\ new[i].stored = w.cells[i].stored
                       /\ new[i].si["SI3"] = w.cells[i].si["SI3"]
  <2> SUFFICES ASSUME NEW i \in 1..n
               PROVE  /\ new[i] \in Cell
                      /\ new[i].id = w.cells[i].id /\ new[i].stored = w.cells[i].stored
                      /\ new[i].si["SI3"] = w.cells[i].si["SI3"]
    OBVIOUS
  <2>1. w.cells[i] \in Cell
    BY <1>2
  <2>2. CASE w.cells[i].id = id
    <3>1. new[i] = [w.cells[i] EXCEPT !.si = [w.cells[i].si EXCEPT !["SI5"] = c]]
      BY <2>2
    <3>2. /\ [w.cells[i].si EXCEPT !["SI5"] = c] \in [Index -> Content \cup {None}]
          /\ [w.cells[i].si EXCEPT !["SI5"] = c]["SI3"] = w.cells[i].si["SI3"]
      BY <2>1 DEF Cell, Index
    <3>3. QED
      BY <2>1, <3>1, <3>2 DEF Cell
  <2>3. CASE w.cells[i].id # id
    BY <2>1, <2>3
  <2>4. QED
    BY <2>2, <2>3
<1>4. new \in Seq(Cell) /\ Len(new) = n
  <2>1. new \in [1..n -> Cell]
    BY <1>3
  <2>2. QED
    BY <1>1, <2>1, SeqOfFunction
<1>5. v = [w EXCEPT !.cells = new]
  BY DEF SetContent
<1> HIDE DEF new
<1>6. /\ v \in World /\ v.cells = new /\ v.cell_info_id = w.cell_info_id
      /\ v.db = w.db /\ v.sqlerr = w.sqlerr /\ v.ci = w.ci
      /\ v.heard = w.heard /\ v.written = w.written /\ v.pending = w.pending
  BY <1>1, <1>4, <1>5 DEF World
<1> HIDE DEF v
<1>7. IdsOK(v) /\ RowsOK(v) /\ Pointed(v) /\ Broadcast(v)
  BY <1>3, <1>4, <1>6 DEF Good, IdsOK, RowsOK, Pointed, Broadcast
<1>8. QED
  BY <1>6, <1>7 DEF Good, v

\* The paging counters and their history are the same.
SameCounts(v, w) == v.heard = w.heard /\ v.written = w.written /\ v.pending = w.pending

\* A system information message keeps the invariant and hands out at most one id.
LEMMA SysinfoGood ==
  ASSUME NEW w, Good(w), NEW index \in Index, NEW c \in Content,
         NEW reset \in BOOLEAN
  PROVE  LET v == handle_sysinfo(w, index, c, reset)
         IN /\ Good(v) /\ SameCounts(v, w)
            /\ v.cell_info_id \in {w.cell_info_id, w.cell_info_id + 1}
<1> DEFINE u == IF reset THEN [w EXCEPT !.ci = None] ELSE w
           v == handle_sysinfo(w, index, c, reset)
<1>0. SUFFICES /\ Good(v) /\ SameCounts(v, w)
               /\ v.cell_info_id \in {w.cell_info_id, w.cell_info_id + 1}
  OBVIOUS
<1>1. w \in World
  BY DEF Good
<1>2. Good(u) /\ u \in World /\ SameCounts(u, w) /\ u.cell_info_id = w.cell_info_id
  <2>1. CASE reset
    <3>1. /\ u \in World /\ u.cells = w.cells /\ u.db = w.db /\ u.sqlerr = w.sqlerr
          /\ u.ci = None /\ u.cell_info_id = w.cell_info_id /\ SameCounts(u, w)
      BY <1>1, <2>1 DEF World, SameCounts
    <3> HIDE DEF u
    <3>2. Good(u)
      BY <3>1 DEF Good, IdsOK, RowsOK, Pointed, Broadcast
    <3>3. QED
      BY <3>1, <3>2
  <2>2. CASE ~reset
    BY <1>1, <2>2 DEF SameCounts
  <2>3. QED
    BY <2>1, <2>2
<1>3. v = IF index = "SI5" THEN SysInfo5(u, c) ELSE SysInfo3(u, c)
  BY DEF handle_sysinfo
<1> HIDE DEF u, v
<1>4. CASE index = "SI3"
  <2>1. CASE get_from_si(u, "SI3", c) # {}
    BY <1>2, <1>3, <1>4, <2>1 DEF SysInfo3
  <2>2. CASE get_from_si(u, "SI3", c) = {}
    <3>1. \A i \in 1..Len(u.cells) : u.cells[i].si["SI3"] # c
      BY <1>2, <2>2, NotFound DEF Index
    <3>2. v = NewCell(u, "SI3", c)
      BY <1>3, <1>4, <2>2 DEF SysInfo3
    <3>3. QED
      <4>1. /\ Good(v) /\ v.cell_info_id = u.cell_info_id + 1 /\ SameCounts(v, u)
        BY <1>2, <3>1, <3>2, NewCellGood DEF SameCounts, Index
      <4>2. QED
        BY <1>2, <4>1 DEF SameCounts
  <2>3. QED
    BY <2>1, <2>2
<1>5. CASE index = "SI5"
  <2> DEFINE found == get_from_si(u, "SI5", c)
  <2>1. CASE u.ci # None
    <3>1. v = SetContent(u, u.ci, "SI5", c)
      BY <1>3, <1>5, <2>1 DEF SysInfo5
    <3>2. QED
      BY <1>2, <3>1, SetContentGood DEF SameCounts
  <2>2. CASE u.ci = None /\ found # {}
    <3> DEFINE k == CHOOSE i \in found : TRUE
    <3>1. k \in found
      BY <2>2
    <3>2. k \in 1..Len(u.cells)
      BY <3>1 DEF get_from_si
    <3>3. v = [u EXCEPT !.ci = u.cells[k].id]
      BY <1>3, <1>5, <2>2 DEF SysInfo5
    <3> HIDE DEF k
    <3>4. u.cells[k].id \in Nat
      <4>1. u.cells \in Seq(Cell)
        BY <1>2 DEF World
      <4>2. u.cells[k] \in Cell
        BY <3>2, <4>1
      <4>3. QED
        BY <4>2 DEF Cell
    <3>5. /\ v \in World /\ v.cells = u.cells /\ v.db = u.db /\ v.sqlerr = u.sqlerr
          /\ v.ci = u.cells[k].id /\ v.cell_info_id = u.cell_info_id /\ SameCounts(v, u)
      BY <1>2, <3>3, <3>4 DEF World, SameCounts
    <3>6. Good(v)
      BY <1>2, <3>2, <3>5 DEF Good, IdsOK, RowsOK, Pointed, Broadcast
    <3>7. QED
      BY <1>2, <3>5, <3>6 DEF SameCounts
  <2>3. CASE u.ci = None /\ found = {}
    <3> DEFINE x == NewCell(u, "SI5", c)
    <3>1. v = [x EXCEPT !.ci = u.cell_info_id]
      BY <1>3, <1>5, <2>3 DEF SysInfo5
    <3>2. /\ Good(x) /\ Len(x.cells) >= 1 /\ x.cells[1].id = u.cell_info_id
          /\ x.cell_info_id = u.cell_info_id + 1 /\ SameCounts(x, u)
      BY <1>2, NewCellGood DEF SameCounts, Index
    <3> HIDE DEF x
    <3>3. x \in World /\ u.cell_info_id \in Nat
      BY <1>2, <3>2 DEF Good, World
    <3>4. /\ v \in World /\ v.cells = x.cells /\ v.db = x.db /\ v.sqlerr = x.sqlerr
          /\ v.ci = u.cell_info_id /\ v.cell_info_id = x.cell_info_id /\ SameCounts(v, x)
      BY <3>1, <3>3 DEF World, SameCounts
    <3>5. 1 \in 1..Len(v.cells) /\ v.cells[1].id = v.ci
      BY <3>2, <3>3, <3>4 DEF World
    <3>6. Good(v)
      BY <3>2, <3>4, <3>5 DEF Good, IdsOK, RowsOK, Pointed, Broadcast
    <3>7. QED
      BY <1>2, <3>2, <3>4, <3>6 DEF SameCounts
  <2>4. QED
    BY <2>1, <2>2, <2>3
<1>6. QED
  BY <1>4, <1>5 DEF Index

\* What a paging request adds to the counters.
LEMMA RequestsCount == PagingRequests \subseteq [Counter -> Nat]
<1>1. \A n \in 0..3, mi \in MIType : paging_inc(n, mi) \in [Counter -> Nat]
  BY DEF paging_inc, Counter, MIType
<1>2. "TMSI" \in MIType /\ 0 \in 0..3 /\ 1 \in 0..3 /\ 2 \in 0..3 /\ 3 \in 0..3
  BY DEF MIType
<1>3. \A mi \in MIType, more \in BOOLEAN, mi2 \in MIType : handle_paging1(mi, more, mi2) \in [Counter -> Nat]
  BY <1>1, <1>2, PlusFacts DEF handle_paging1
<1>4. \A more \in BOOLEAN, mi \in MIType : handle_paging2(more, mi) \in [Counter -> Nat]
  BY <1>1, <1>2, PlusFacts DEF handle_paging2
<1>5. handle_paging3 \in [Counter -> Nat]
  BY <1>1, <1>2, PlusFacts DEF handle_paging3
<1>6. QED
  BY <1>3, <1>4, <1>5 DEF PagingRequests

-----------------------------------------------------------------------------
(* The steps.                                                              *)

\* The dump before a packet keeps the invariant.
LEMMA DumpedGood ==
  ASSUME IInv, open, NEW t \in Times
  PROVE  /\ Good(Dumped(t)) /\ Counted(Dumped(t))
         /\ Dumped(t).cell_info_id = cell_info_id
<1>1. t # 0 /\ t \in Times \cup {0}
  BY CellAssumption
<1>2. Good(Here) /\ Counted(Here) /\ Here.cell_info_id = cell_info_id
  BY DEF IInv, Here
<1>3. QED
  BY <1>1, <1>2, DumpAndPaging DEF Dumped

\* Becomes moves the world to the primed variables.
LEMMA BecomesHere ==
  ASSUME NEW w \in World, Becomes(w)
  PROVE  Here' = w
  BY DEF Becomes, Here, World

\* The invariant after a step, from the world after it.
LEMMA IInvNext ==
  ASSUME Good(Here'), open' => Counted(Here'), cell_info_id' <= MaxId,
         file' \in 1..MaxFiles, open' \in BOOLEAN
  PROVE  IInv'
  BY DEF IInv, Here, Good, Counted, IdsOK, RowsOK, Pointed, Broadcast

\* The invariant holds initially and every packet, and the begin and end of a
\* file, keeps it.
THEOREM Inductive ==
  Spec => []IInv
<1>1. Init => IInv
  <2> SUFFICES ASSUME Init PROVE IInv
    OBVIOUS
  <2>1. Here \in World /\ Here.cells = <<>> /\ Here.sqlerr = FALSE /\ Here.ci = None /\ Here.db = {}
    <3>1. Zero \in [Counter -> Nat] /\ <<>> \in Seq(Cell)
      BY DEF Zero
    <3>2. QED
      BY <3>1 DEF Init, Here, World
  <2>2. Good(Here)
    BY <2>1, EmptyListGood
  <2>3. Counted(Here)
    BY PlusFacts DEF Init, Here, Counted, Plus, Zero
  <2>4. QED
    BY CellAssumption, <2>2, <2>3 DEF Init, IInv
<1>2. IInv /\ [Next]_vars => IInv'
  <2> SUFFICES ASSUME IInv, [Next]_vars PROVE IInv'
    OBVIOUS
  <2>1. ASSUME NEW t \in Times, NEW index \in Index, NEW c \in Content, NEW reset \in BOOLEAN,
               SysInfo(t, index, c, reset)
        PROVE  IInv'
    <3> DEFINE d == Dumped(t)
               v == handle_sysinfo(d, index, c, reset)
    <3>1. Good(d) /\ Counted(d) /\ d.cell_info_id = cell_info_id /\ cell_info_id < MaxId
      BY <2>1, DumpedGood DEF SysInfo
    <3> HIDE DEF d
    <3>2. Good(v) /\ SameCounts(v, d) /\ v.cell_info_id \in {d.cell_info_id, d.cell_info_id + 1}
      BY <3>1, SysinfoGood
    <3>3. Here' = v
      BY <2>1, <3>2, BecomesHere DEF SysInfo, d, Good
    <3> HIDE DEF v
    <3>4. Good(Here') /\ Counted(Here')
      BY <3>1, <3>2, <3>3 DEF Counted, SameCounts
    <3>5. cell_info_id \in Nat /\ MaxId \in Nat
      BY CellAssumption DEF IInv, Good, World, Here
    <3>6. cell_info_id' <= MaxId
      BY <3>1, <3>2, <3>3, <3>5 DEF Here
    <3>7. QED
      BY <2>1, <3>4, <3>6, IInvNext DEF SysInfo, IInv
  <2>2. ASSUME NEW t \in Times, NEW p \in PagingRequests, Paging(t, p)
        PROVE  IInv'
    <3> DEFINE d == Dumped(t)
               v == Paged(d, p)
    <3>1. Good(d) /\ Counted(d) /\ d.cell_info_id = cell_info_id
      BY <2>2, DumpedGood DEF Paging
    <3>2. p \in [Counter -> Nat]
      BY RequestsCount
    <3>3. d \in World /\ d.written \in [Counter -> Nat] /\ d.pending \in [Counter -> Nat]
      BY <3>1 DEF Good, World
    <3>4. v = [d EXCEPT !.pending = Plus(d.pending, p), !.heard = Plus(d.heard, p)]
      BY <3>3 DEF Paged, World
    <3>5. Here' = v
      <4>1. Plus(d.pending, p) \in [Counter -> Nat] /\ Plus(d.heard, p) \in [Counter -> Nat]
        BY <3>2, <3>3, PlusFacts DEF World
      <4>2. v \in World
        BY <3>3, <3>4, <4>1 DEF World
      <4>3. QED
        BY <2>2, <4>2, BecomesHere DEF Paging
    <3> HIDE DEF d, v
    <3>6. /\ v \in World /\ v.cells = d.cells /\ v.db = d.db /\ v.sqlerr = d.sqlerr /\ v.ci = d.ci
          /\ v.cell_info_id = d.cell_info_id /\ v.written = d.written
          /\ v.pending = Plus(d.pending, p) /\ v.heard = Plus(d.heard, p)
      <4>1. Plus(d.pending, p) \in [Counter -> Nat] /\ Plus(d.heard, p) \in [Counter -> Nat]
        BY <3>2, <3>3, PlusFacts DEF World
      <4>2. QED
        BY <3>3, <3>4, <4>1 DEF World
    <3>7. Good(v)
      BY <3>1, <3>6, SameList
    <3>8. Counted(v)
      BY <3>1, <3>2, <3>3, <3>6, PlusFacts DEF Counted
    <3>9. QED
      BY <2>2, <3>1, <3>5, <3>6, <3>7, <3>8, IInvNext DEF Paging, IInv, Here
  <2>3. ASSUME NEW t \in Times, NEW reset \in BOOLEAN, Other(t, reset)
        PROVE  IInv'
    <3> DEFINE d == Dumped(t)
               v == IF reset THEN [d EXCEPT !.ci = None] ELSE d
    <3>1. Good(d) /\ Counted(d) /\ d.cell_info_id = cell_info_id
      BY <2>3, DumpedGood DEF Other
    <3>2. Becomes(v)
      BY <2>3 DEF Other
    <3> HIDE DEF d
    <3>3. /\ v \in World /\ v.cells = d.cells /\ v.db = d.db /\ v.sqlerr = d.sqlerr
          /\ v.ci \in {None, d.ci} /\ v.cell_info_id = d.cell_info_id /\ SameCounts(v, d)
      BY <3>1 DEF Good, World, SameCounts
    <3> HIDE DEF v
    <3>4. Good(v)
      BY <3>1, <3>3 DEF Good, IdsOK, RowsOK, Pointed, Broadcast
    <3>5. Counted(v)
      BY <3>1, <3>3 DEF Counted, SameCounts
    <3>6. QED
      BY <2>3, <3>1, <3>2, <3>3, <3>4, <3>5, BecomesHere, IInvNext DEF Other, IInv, Here, Good
  <2>4. ASSUME NEW t \in Times, cell_init(t)
        PROVE  IInv'
    <3>1. cell_info_id \in Nat /\ db \in SUBSET Nat /\ sqlerr = FALSE /\ (\A id \in db : id < cell_info_id)
      BY DEF IInv, Good, World, RowsOK, Here
    <3>2. Zero \in [Counter -> Nat] /\ <<>> \in Seq(Cell) /\ Plus(Zero, Zero) = Zero
      BY DEF Zero, Plus
    <3>3. /\ Here' \in World /\ Here'.cells = <<>> /\ Here'.ci = None /\ Here'.db = db
          /\ Here'.sqlerr = sqlerr /\ Here'.cell_info_id = cell_info_id
      BY <2>4, <3>1, <3>2 DEF cell_init, Here, World
    <3>4. Good(Here')
      BY <3>1, <3>3, EmptyListGood
    <3>5. Counted(Here')
      BY <2>4, <3>2 DEF cell_init, Here, Counted
    <3>6. cell_info_id' = cell_info_id /\ file' \in 1..MaxFiles /\ open' \in BOOLEAN
      BY CellAssumption, <2>4 DEF cell_init, IInv
    <3>7. QED
      BY <3>3, <3>4, <3>5, <3>6, IInvNext DEF IInv
  <2>5. ASSUME cell_destroy PROVE IInv'
    <3> DEFINE w == [Here EXCEPT !.ci = None]
               v == cell_and_paging_dump(w, 0, TRUE, TRUE)
    <3>1. Here \in World /\ Good(Here)
      BY DEF IInv, Good
    <3>2. /\ w \in World /\ w.cells = Here.cells /\ w.db = Here.db /\ w.sqlerr = Here.sqlerr
          /\ w.ci = None /\ w.cell_info_id = Here.cell_info_id
      BY <3>1 DEF World
    <3>3. Good(w)
      <4> HIDE DEF w
      <4>1. QED
        BY <3>1, <3>2 DEF Good, IdsOK, RowsOK, Pointed, Broadcast
    <3>4. Good(v) /\ v.cell_info_id = w.cell_info_id
      BY <3>2, <3>3, DumpAndPaging
    <3>5. Becomes(v)
      BY <2>5 DEF cell_destroy
    <3> HIDE DEF v, w
    <3>6. Here' = v
      BY <3>4, <3>5, BecomesHere DEF Good
    <3>7. cell_info_id' = cell_info_id
      BY <3>2, <3>4, <3>6 DEF Here
    <3>8. QED
      BY <2>5, <3>4, <3>6, <3>7, IInvNext DEF cell_destroy, IInv
  <2>6. CASE UNCHANGED vars
    <3>1. Here' = Here
      BY <2>6 DEF vars, Here
    <3>2. QED
      BY <2>6, <3>1, IInvNext DEF vars, IInv
  <2>7. QED
    BY <2>1, <2>2, <2>3, <2>4, <2>5, <2>6 DEF Next
<1>3. QED
  BY <1>1, <1>2, PTL DEF Spec

\* TypeOK: the list, the counters and the database have their types (all of
\* cell_info.c).
THEOREM TypeCorrect ==
  Spec => []TypeOK
<1>1. IInv => TypeOK
  <2> SUFFICES ASSUME IInv PROVE TypeOK
    OBVIOUS
  <2>1. Here \in World
    BY DEF IInv, Good
  <2>2. QED
    BY CellAssumption, <2>1 DEF TypeOK, IInv, World, Here
<1>2. QED
  BY <1>1, Inductive, PTL

\* CellListConsistent: a cell is inserted once and updated only after that over
\* all files, the session's pointer is into the list, and no content of a
\* broadcast message has two cells (handle_sysinfo, cell_make_sql, cell_init).
THEOREM ListAgreesWithRows ==
  Spec => []CellListConsistent
<1>1. IInv => CellListConsistent
  BY DEF IInv, Good, RowsOK, Pointed, Broadcast, Here, CellListConsistent, NoSqlConflict,
         CiListed, CellsDistinct
<1>2. QED
  BY <1>1, Inductive, PTL

\* PagingConserved: what a file holds of paging identities is in the counters or
\* was written, once, whatever the clock does (cell_and_paging_dump).
THEOREM PagingIsConserved ==
  Spec => []PagingConserved
<1>1. IInv => PagingConserved
  BY DEF IInv, Counted, Here, PagingConserved
<1>2. QED
  BY <1>1, Inductive, PTL
=============================================================================
