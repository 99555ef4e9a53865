------------------------------- MODULE Talloc -------------------------------
(***************************************************************************)
(* The hierarchical allocator (talloc.c).  Every chunk of memory hangs off *)
(* a parent; freeing a chunk frees what hangs off it.  Only the first of   *)
(* the children knows its parent, the others reach it through their        *)
(* siblings.  A reference is a chunk of its own (the handle), child of the *)
(* context that refers.  Destructors may refuse, and may free the parent   *)
(* of their chunk.  Chunks may be carved out of a pool, whose memory is    *)
(* given back when the count of its objects is zero.                       *)
(*                                                                         *)
(* talloc_free works through the tree by recursion: stk is its call stack, *)
(* and a step is one call, one return or one round of its loop.            *)
(*                                                                         *)
(* The strings in such memory are a specification of their own, StrSpec.   *)
(***************************************************************************)
EXTENDS Integers, Sequences, FiniteSets, FiniteSetsExt

CONSTANTS
  N,             \* bound: chunks allocated at one time
  Destructors,   \* of the user: "ok" accepts, "no" refuses, "frees" frees the parent
  Uses,          \* which features are used
  PoolSpace,     \* chunks a pool has room for
  Texts,         \* of strings: texts without NUL, as sequences
  MaxSize        \* bound: octets of the buffer of a string

\* "null references": references hang off the null context, too; "cycles": a chunk may be made to keep itself alive by references; "no memory":
\* malloc and realloc may return NULL; "disabling": of null tracking.
TallocAssumption ==
  /\ N \in Nat \ {0} /\ Destructors \subseteq {"ok", "no", "frees"} /\ PoolSpace \in Nat
  /\ Uses \subseteq {"references", "null references", "cycles", "pools", "nested pools",
             "no memory", "null tracking", "disabling"}
  /\ MaxSize \in Nat \ {0} /\ Texts \subseteq Seq(Nat \ {0})

Ids == 1..N

VARIABLES
  c,       \* the chunks
  null,    \* null_context, 0 when not tracked
  stk,     \* calls of _talloc_free in progress, the innermost first
  ret,     \* what the last call returned, and for which chunk
  keep,    \* chunks referred to from outside what is being freed
  fault,   \* "" or what was done that must never be done
  buf,     \* the octets of the buffer of a string, 0 is NUL; <<>> is no string
  want     \* the text the string should hold

vars == <<c, null, stk, ret, keep, fault>>

\* No chunk.  st: "none" no memory, "live", "freed" (a pool that was freed while
\* objects in it were not).  d: destructor.
\* to: the chunk a handle refers to.  mem: the pool the memory is from.
Blank == [st |-> "none", next |-> 0, prev |-> 0, parent |-> 0, child |-> 0, refs |-> 0,
          d |-> "none", loop |-> FALSE, to |-> 0, hnext |-> 0, hprev |-> 0,
          mem |-> 0, pool |-> FALSE, used |-> 0, count |-> 0]

Live(h) == {i \in Ids : h[i].st = "live"}
User(h) == {i \in Live(h) : h[i].to = 0}     \* what the user has pointers to
Set(h, i, f, v) == IF i = 0 THEN h ELSE [h EXCEPT ![i][f] = v]

-----------------------------------------------------------------------------
(* Lists and parents.                                                      *)

\* The first of the siblings; a chunk without memory ends the walk, wrongly.
RECURSIVE First(_, _)
First(h, i) == IF h[i].prev = 0 \/ h[i].st = "none" THEN i ELSE First(h, h[i].prev)
talloc_parent_chunk(h, i) == h[First(h, i)].parent
Walkable(h, i) == h[First(h, i)].st # "none"

RECURSIVE talloc_is_parent(_, _, _)
talloc_is_parent(h, i, p) == i # 0 /\ (i = p \/ talloc_is_parent(h, talloc_parent_chunk(h, i), p))

TlistRemove(h, p, i) ==
  LET o == h[i]
      g == IF h[p].child = i THEN Set(Set(h, p, "child", o.next), o.next, "prev", 0)
           ELSE Set(Set(h, o.prev, "next", o.next), o.next, "prev", o.prev)
  IN Set(Set(g, i, "next", 0), i, "prev", 0)

\* Faulty variant: the next sibling is not told its parent.
UnlinkSilent(h, i) == IF h[i].parent # 0 THEN TlistRemove(h, h[i].parent, i)
                      ELSE Set(Set(h, h[i].prev, "next", h[i].next), h[i].next, "prev", h[i].prev)
\* Out of the children of its parent.  Its own pointers stay, when it is not the
\* first child.
Unlink(h, i) ==
  IF h[i].parent # 0
  THEN LET g == TlistRemove(h, h[i].parent, i) IN Set(g, g[h[i].parent].child, "parent", h[i].parent)
  ELSE Set(Set(h, h[i].prev, "next", h[i].next), h[i].next, "prev", h[i].prev)

Link(h, p, i) ==
  LET f == h[p].child
      g == Set(Set(h, f, "parent", 0), f, "prev", i)
  IN Set([g EXCEPT ![i].next = f, ![i].prev = 0, ![i].parent = p], p, "child", i)

\* Faulty variant: a chunk stays where it is.
StealNot(h, np, i) == h
_talloc_steal(h, np, i) ==
  IF np = 0 THEN [Unlink(h, i) EXCEPT ![i].parent = 0, ![i].next = 0, ![i].prev = 0]
  ELSE IF i = np \/ h[i].parent = np THEN h
  ELSE Link(Unlink(h, i), np, i)

\* The list of the handles of a chunk.
AddRef(h, t, r) == LET f == h[t].refs IN
  Set([h EXCEPT ![r].hnext = f, ![r].hprev = 0, ![t].refs = r], f, "hprev", r)
talloc_reference_destructor(h, r) ==
  LET o == h[r]  t == o.to
      g == IF h[t].refs = r THEN Set(Set(h, t, "refs", o.hnext), o.hnext, "hprev", 0)
           ELSE Set(Set(h, o.hprev, "hnext", o.hnext), o.hnext, "hprev", o.hprev)
  IN Set(Set(g, r, "hnext", 0), r, "hprev", 0)

-----------------------------------------------------------------------------
(* Memory.                                                                 *)

New(h) == Min({i \in Ids : h[i].st = "none"})
Room(h, k) == Cardinality({i \in Ids : h[i].st = "none"}) >= k

PoolOf(h, p) == IF p = 0 THEN 0 ELSE IF h[p].pool THEN p ELSE h[p].mem
\* The pool that a child of p is taken from, 0 for malloc.
talloc_alloc_pool(h, p) == LET q == PoolOf(h, p) IN IF q # 0 /\ h[q].used < PoolSpace THEN q ELSE 0
Take(h, q) == IF q = 0 THEN h ELSE [h EXCEPT ![q].used = @ + 1, ![q].count = @ + 1]

__talloc(h, p, i) ==
  LET q == talloc_alloc_pool(h, p)
      g == [Take(h, q) EXCEPT ![i] = [Blank EXCEPT !.st = "live", !.mem = q]]
  IN IF p = 0 THEN g ELSE Link(g, p, i)

\* The end of _talloc_free: the memory goes, or the pool's count.
Release(h, i) ==
  LET q == PoolOf(h, i)
      n == h[q].count - 1
  IN IF q = 0 THEN [h EXCEPT ![i] = Blank]
     ELSE IF i = q THEN [h EXCEPT ![i] = IF n = 0 THEN Blank ELSE [@ EXCEPT !.count = n, !.st = "freed"]]
     ELSE [h EXCEPT ![i] = Blank, ![q] = IF n = 0 THEN Blank ELSE [@ EXCEPT !.count = n]]
\* free(3) on memory inside another pool; a count below zero.
ReleaseFault(h, i) == LET q == PoolOf(h, i) IN
  IF q = 0 THEN "" ELSE IF h[q].count = 0 THEN "pool object count zero"
  ELSE IF h[q].count = 1 /\ h[q].mem # 0 THEN "free of memory inside a pool" ELSE ""

-----------------------------------------------------------------------------
(* _talloc_free.                                                           *)

Frame(i, pc) == [p |-> i, pc |-> pc, kid |-> 0, np |-> 0]
Top == stk[1]
Call(f, i) == stk' = <<Frame(i, "enter"), f>> \o Tail(stk)
Goto(pc) == stk' = <<[Top EXCEPT !.pc = pc]>> \o Tail(stk)
Return(v) == stk' = Tail(stk) /\ ret' = [p |-> Top.p, v |-> v]

\* Out of the tree; the children come next.
Detach(h) == c' = [Unlink(h, Top.p) EXCEPT ![Top.p].loop = TRUE] /\ Goto("kids") /\ UNCHANGED <<ret, fault>>

\* A destructor that is running, and one that returns -1.
Refuses(d) == d \in {"busy", "no"}

FreeEnter ==
  /\ stk # <<>> /\ Top.pc = "enter"
  /\ LET o == c[Top.p] IN
     CASE o.st = "none" -> fault' = "double free" /\ Return(-1) /\ UNCHANGED c
       [] o.st # "none" /\ o.refs # 0 ->
            /\ Call([Top EXCEPT !.pc = IF talloc_is_parent(c, o.refs, Top.p) THEN "again" ELSE "refused"], o.refs)
            /\ UNCHANGED <<c, ret, fault>>
       [] o.st # "none" /\ o.refs = 0 /\ o.loop -> Return(0) /\ UNCHANGED <<c, fault>>
       [] o.st # "none" /\ o.refs = 0 /\ ~o.loop /\ Refuses(o.d) -> Return(-1) /\ UNCHANGED <<c, fault>>
       [] o.st # "none" /\ o.refs = 0 /\ ~o.loop /\ o.d = "frees" /\ talloc_parent_chunk(c, Top.p) \notin {0, null} ->
            /\ c' = [c EXCEPT ![Top.p].d = "busy"]
            /\ Call([Top EXCEPT !.pc = "destroyed"], talloc_parent_chunk(c, Top.p)) /\ UNCHANGED <<ret, fault>>
       [] o.st # "none" /\ o.refs = 0 /\ ~o.loop /\ o.d = "ref" ->
            Detach(Set(talloc_reference_destructor(c, Top.p), Top.p, "d", "none"))
       [] OTHER -> Detach(Set(c, Top.p, "d", "none"))
  /\ UNCHANGED <<null, keep>>

\* The destructor that freed the parent returns 0.
FreeDestroyed == /\ stk # <<>> /\ Top.pc = "destroyed" /\ Detach(Set(c, Top.p, "d", "none")) /\ UNCHANGED <<null, keep>>

\* A reference was removed: one from below is not counted.
FreeReferred ==
  /\ stk # <<>> /\ Top.pc \in {"again", "refused"}
  /\ IF Top.pc = "again" THEN Goto("enter") /\ UNCHANGED ret ELSE Return(-1)
  /\ UNCHANGED <<c, null, keep, fault>>

\* One round of the loop over the children; who owns the child, should it stay?
FreeKids ==
  /\ stk # <<>> /\ Top.pc \in {"kids", "only"}
  /\ LET k == c[Top.p].child
         o == IF c[k].refs = 0 THEN 0 ELSE talloc_parent_chunk(c, c[k].refs)
     IN
     \/ /\ k # 0
        /\ Call([Top EXCEPT !.pc = IF @ = "kids" THEN "kid" ELSE "onlykid", !.kid = k, !.np = IF o # 0 THEN o ELSE null], k)
        /\ UNCHANGED <<c, ret, fault>>
     \/ /\ k = 0 /\ Top.pc = "kids"
        /\ c' = Release(c, Top.p) /\ fault' = ReleaseFault(c, Top.p) /\ Return(0)
     \/ /\ k = 0 /\ Top.pc = "only"     \* talloc_free_children: an empty pool starts again
        /\ c' = IF c[Top.p].pool /\ c[Top.p].count = 1 THEN [c EXCEPT ![Top.p].used = 0] ELSE c
        /\ stk' = Tail(stk) /\ UNCHANGED <<ret, fault>>
  /\ UNCHANGED <<null, keep>>

Owner(f) == LET p == talloc_parent_chunk(c, f.p) IN IF f.np = null /\ p # 0 THEN p ELSE f.np

\* A child that could not be freed is handed on.
FreeKid ==
  /\ stk # <<>> /\ Top.pc \in {"kid", "onlykid"}
  /\ Goto(IF Top.pc = "kid" THEN "kids" ELSE "only")
  /\ IF ret.v = 0 THEN UNCHANGED <<c, fault>>
     ELSE IF c[Top.kid].st = "none" \/ (Top.np = null /\ ~Walkable(c, Top.p))
     THEN fault' = "freed memory read" /\ UNCHANGED c
     ELSE c' = _talloc_steal(c, Owner(Top), Top.kid) /\ UNCHANGED fault
  /\ UNCHANGED <<null, ret, keep>>

\* The end of talloc_unlink: the former owner of the reference is the parent.
UnlinkSteal == /\ stk # <<>> /\ Top.pc = "steal"
               /\ c' = _talloc_steal(c, Top.np, Top.p) /\ stk' = Tail(stk) /\ ret' = [p |-> 0, v |-> 0]
               /\ UNCHANGED <<null, keep, fault>>

\* The end of talloc_disable_null_tracking.
DisableEnd == /\ stk # <<>> /\ Top.pc = "disable" /\ stk' = Tail(stk) /\ null' = 0
              /\ UNCHANGED <<c, ret, keep, fault>>

Free == FreeEnter \/ FreeDestroyed \/ FreeReferred \/ FreeKids \/ FreeKid \/ UnlinkSteal \/ DisableEnd

-----------------------------------------------------------------------------
(* The calls of the user.                                                  *)

Idle == stk = <<>> /\ fault = ""
NoRet == [p |-> 0, v |-> 0]
Ctx(i) == IF i = 0 THEN null ELSE i
Contexts == {0} \cup (User(c) \ {null})
\* Nothing keeps itself alive, by parents and references.
Owners(h, i) == {talloc_parent_chunk(h, i)} \cup {talloc_parent_chunk(h, r) : r \in {r \in Live(h) : h[r].to = i}}
Acyclic(h) == \A S \in SUBSET User(h) \ {{}} : \E i \in S : Owners(h, i) \cap S = {}
Allowed(g) == {h \in {g} : "cycles" \in Uses \/ Acyclic(h)}
Below(h, p) == {i \in Live(h) : talloc_is_parent(h, i, p)}

talloc == \E p \in Contexts :
  /\ Idle /\ Room(c, 1) /\ c' = __talloc(c, Ctx(p), New(c)) /\ ret' = NoRet /\ keep' = {}
  /\ UNCHANGED <<null, stk, fault>>

talloc_pool == \E p \in Contexts :
  /\ Idle /\ "pools" \in Uses /\ Room(c, 1) /\ ("nested pools" \in Uses \/ PoolOf(c, Ctx(p)) = 0)
  /\ c' = [__talloc(c, Ctx(p), New(c)) EXCEPT ![New(c)].pool = TRUE, ![New(c)].count = 1]
  /\ ret' = NoRet /\ keep' = {} /\ UNCHANGED <<null, stk, fault>>

talloc_set_destructor == \E i \in User(c) \ {null}, d \in {"none"} \cup Destructors :
  /\ Idle /\ c[i].d # d /\ c' = [c EXCEPT ![i].d = d]
  /\ ret' = NoRet /\ keep' = {} /\ UNCHANGED <<null, stk, fault>>

talloc_reference == \E p \in Contexts, t \in User(c) \ {null} :
  /\ Idle /\ (IF p = 0 THEN "null references" ELSE "references") \in Uses /\ Room(c, 1)
  /\ LET r == New(c) IN
     c' \in Allowed(AddRef([__talloc(c, Ctx(p), r) EXCEPT ![r].d = "ref", ![r].to = t], t, r))
  /\ ret' = NoRet /\ keep' = {} /\ UNCHANGED <<null, stk, fault>>

\* Chunks that a context outside what is freed refers to.
Kept(p) == {c[r].to : r \in {r \in Live(c) : c[r].to # 0 /\ r \notin Below(c, p)}} \ {p}

talloc_free == \E p \in User(c) \ {null} :
  /\ Idle /\ stk' = <<Frame(p, "enter")>> /\ keep' = Kept(p) /\ ret' = NoRet
  /\ UNCHANGED <<c, null, fault>>

talloc_free_children == \E p \in User(c) \ {null} :
  /\ Idle /\ stk' = <<Frame(p, "only")>> /\ keep' = Kept(p) /\ ret' = NoRet
  /\ UNCHANGED <<c, null, fault>>

talloc_steal == \E p \in Contexts, t \in User(c) \ {null} :
  /\ Idle /\ ~talloc_is_parent(c, p, t) /\ c' \in Allowed(_talloc_steal(c, Ctx(p), t))
  /\ ret' = NoRet /\ keep' = {} /\ UNCHANGED <<null, stk, fault>>

\* The first handle of t whose parent is p, 0 when there is none.
RECURSIVE FindRef(_, _)
FindRef(r, p) == IF r = 0 \/ talloc_parent_chunk(c, r) = p THEN r ELSE FindRef(c[r].hnext, p)

talloc_unlink == \E p \in Contexts, t \in User(c) \ {null} :
  LET r == FindRef(c[t].refs, Ctx(p))
      n == talloc_parent_chunk(c, c[t].refs)
  IN
  /\ Idle
  /\ \/ r # 0 /\ stk' = <<Frame(r, "enter")>>
     \/ r = 0 /\ talloc_parent_chunk(c, t) = Ctx(p) /\ c[t].refs = 0 /\ stk' = <<Frame(t, "enter")>>
     \/ /\ r = 0 /\ talloc_parent_chunk(c, t) = Ctx(p) /\ c[t].refs # 0 /\ FindRef(c[t].refs, Ctx(n)) # 0
        /\ stk' = <<Frame(FindRef(c[t].refs, n), "enter"), [Frame(t, "steal") EXCEPT !.np = n]>>
  /\ ret' = NoRet /\ keep' = {} /\ UNCHANGED <<c, null, fault>>

\* The chunk moves from i to j: its neighbours are told.
Moved(h, i, j) == LET o == h[i] IN
  Set(Set(Set(Set([h EXCEPT ![i] = Blank, ![j] = o], o.parent, "child", j), o.child, "parent", j),
      o.prev, "next", j), o.next, "prev", j)
\* A larger size: the memory moves, inside its pool, out of it, or not at all.
talloc_realloc == \E i \in User(c) \ {null} :
  LET q == c[i].mem  to == talloc_alloc_pool(c, i) IN
  /\ Idle /\ Room(c, 1) /\ c[i].refs = 0 /\ ~c[i].pool
  /\ \/ q # 0 /\ to # 0 /\ c' = Moved([c EXCEPT ![q].used = @ + 1], i, New(c))
     \/ q # 0 /\ to = 0 /\ LET g == [c EXCEPT ![q].count = @ - 1] IN
          c' \in {Moved([g EXCEPT ![i].mem = 0], i, New(c))} \cup (IF "no memory" \in Uses THEN {g} ELSE {})
     \/ q = 0 /\ c' = Moved(c, i, New(c))
  /\ ret' = NoRet /\ keep' = {} /\ UNCHANGED <<null, stk, fault>>

talloc_enable_null_tracking ==
  /\ Idle /\ "null tracking" \in Uses /\ null = 0 /\ Room(c, 1) /\ null' = New(c) /\ c' = __talloc(c, 0, New(c))
  /\ ret' = NoRet /\ keep' = {} /\ UNCHANGED <<stk, fault>>

talloc_disable_null_tracking ==
  /\ Idle /\ "disabling" \in Uses /\ null # 0 /\ stk' = <<Frame(null, "enter"), Frame(null, "disable")>>
  /\ ret' = NoRet /\ keep' = {} /\ UNCHANGED <<c, null, fault>>

Init == /\ c = [i \in Ids |-> Blank] /\ null = 0 /\ stk = <<>> /\ ret = NoRet /\ keep = {} /\ fault = ""

Next == \/ talloc \/ talloc_pool \/ talloc_set_destructor \/ talloc_reference \/ talloc_free
        \/ talloc_free_children \/ talloc_steal \/ talloc_unlink \/ talloc_realloc
        \/ talloc_enable_null_tracking \/ talloc_disable_null_tracking \/ Free

Spec == Init /\ [][Next]_vars
FairSpec == Spec /\ WF_vars(Free)

-----------------------------------------------------------------------------
(* Reports.                                                                *)

RECURSIVE talloc_total_blocks(_, _), Siblings(_, _)
Siblings(h, k) == IF k = 0 THEN 0 ELSE talloc_total_blocks(h, k) + Siblings(h, h[k].next)
talloc_total_blocks(h, i) == 1 + Siblings(h, h[i].child)

-----------------------------------------------------------------------------
TypeOK == /\ null \in 0..N /\ DOMAIN c = Ids /\ keep \subseteq Ids
          /\ \A i \in Ids : c[i].count >= 0 /\ c[i].used \in 0..PoolSpace

\* Between two calls the tree is whole: siblings know each other, the first of
\* them and only it knows the parent, and no pointer leads to freed memory.
Linked == stk = <<>> => \A i \in Live(c) :
  /\ c[i].child # 0 => c[c[i].child].st = "live" /\ c[c[i].child].parent = i /\ c[c[i].child].prev = 0
  /\ c[i].next # 0 => c[c[i].next].st = "live" /\ c[c[i].next].prev = i
  /\ c[i].prev # 0 => c[c[i].prev].next = i /\ c[i].parent = 0
  /\ c[i].parent # 0 => c[c[i].parent].child = i

\* A handle is in the list of the chunk it refers to, which is there: "the
\* pointer remains valid until both the original caller and this given context
\* are freed".
Referred == \A r \in Live(c) : c[r].to # 0 /\ c[r].d = "ref" =>
  /\ c[c[r].to].st = "live"
  /\ IF c[r].hprev = 0 THEN c[c[r].to].refs = r ELSE c[c[r].hprev].hnext = r

\* No memory is lost: every chunk is found from a chunk without a parent.
Rooted == stk = <<>> =>
  Cardinality(Live(c)) = MapThenSumSet(LAMBDA i : talloc_total_blocks(c, i),
                                       {i \in Live(c) : c[i].parent = 0 /\ c[i].prev = 0})

\* "return 0 if the memory is actually freed, otherwise -1".
Told == stk = <<>> /\ ret.p # 0 => (ret.v = 0 <=> c[ret.p].st # "live")

\* Freeing a chunk leaves what a context outside of it refers to.
References == stk = <<>> => \A i \in keep : c[i].st = "live"

\* The count of a pool is the number of its objects, its own chunk included.
Counted == \A q \in Ids : c[q].pool =>
  c[q].count = Cardinality({i \in Live(c) : c[i].mem = q}) + (IF c[q].st = "live" THEN 1 ELSE 0)

\* The memory of a pool goes with the last object in it.
Returned == \A q \in Ids : c[q].pool => c[q].count > 0

\* Freed memory is never read, nor freed again; memory inside a pool is never
\* given to free(3).
NoFault == fault = ""

\* "if the destructor fails then the free is failed, and the memory can be
\* continued to be used".
Refusing(h) == {i \in Live(h) : h[i].d = "no"}
RefusedStep == Cardinality(Refusing(c')) >= Cardinality(Refusing(c)) \/ talloc_set_destructor
Refused == [][RefusedStep]_vars

\* Every call of talloc_free comes to an end.
Ends == []<>(stk = <<>>)

-----------------------------------------------------------------------------
(* Strings: copies, and texts appended at the end of the string or at the  *)
(* end of the buffer.  The owner of a string may cut it short by writing a *)
(* NUL into it, so that the buffer is larger than the string.              *)

NUL == 0
strlen(s) == Min({i \in DOMAIN s : s[i] = NUL}) - 1
strnlen(a, n) == Min({Len(a), n})
Text(s) == SubSeq(s, 1, strlen(s))

__talloc_strlendup(a, n) == SubSeq(a, 1, n) \o <<NUL>>

\* The buffer is made as large as needed; it never keeps more than that.
__talloc_strlendup_append(s, slen, a, alen) == SubSeq(s, 1, slen) \o SubSeq(a, 1, alen) \o <<NUL>>

\* Faulty variant: the NUL of the buffer is not overwritten.
BufferEndLate(s) == Len(s)
\* The end of the buffer: its last octet is taken for the NUL.
BufferEnd(s) == IF Len(s) > 0 THEN Len(s) - 1 ELSE 0

StrInit == buf = <<>> /\ want = <<>>

talloc_strdup == \E a \in Texts, n \in 0..MaxSize :
  /\ buf = <<>> /\ want' = SubSeq(a, 1, strnlen(a, n)) /\ buf' = __talloc_strlendup(a, strnlen(a, n))

\* A string that is not there yet is copied whole, whatever the limit.
talloc_strndup_append == \E a \in Texts, n \in 0..MaxSize :
  LET k == strnlen(a, n) IN
  /\ Len(buf) + Len(a) < MaxSize
  /\ IF buf = <<>> THEN buf' = __talloc_strlendup(a, Len(a)) /\ want' = a
     ELSE buf' = __talloc_strlendup_append(buf, strlen(buf), a, k) /\ want' = want \o SubSeq(a, 1, k)

talloc_strndup_append_buffer == \E a \in Texts, n \in 0..MaxSize :
  LET k == strnlen(a, n) IN
  /\ Len(buf) + Len(a) < MaxSize
  /\ IF buf = <<>> THEN buf' = __talloc_strlendup(a, Len(a)) /\ want' = a
     ELSE /\ buf' = __talloc_strlendup_append(buf, BufferEnd(buf), a, k)
          /\ IF Len(want) = Len(buf) - 1 THEN want' = want \o SubSeq(a, 1, k)
             ELSE UNCHANGED want

\* Formatted text, one call for its length and one to write it.  No text leaves
\* the string as it is.
talloc_vasprintf_append == \E a \in Texts, whole \in BOOLEAN :
  LET end == IF whole THEN BufferEnd(buf) ELSE strlen(buf) IN
  /\ Len(buf) + Len(a) < MaxSize
  /\ IF buf = <<>> THEN buf' = __talloc_strlendup(a, Len(a)) /\ want' = a
     ELSE IF a = <<>> THEN UNCHANGED <<buf, want>>
     ELSE /\ buf' = __talloc_strlendup_append(buf, end, a, Len(a))
          /\ IF ~whole \/ Len(want) = Len(buf) - 1 THEN want' = want \o a
             ELSE UNCHANGED want

\* The owner cuts the string.
Cut == \E i \in 1..strlen(buf) : buf # <<>> /\ buf' = [buf EXCEPT ![i] = NUL] /\ want' = SubSeq(want, 1, i - 1)
StrFree == buf # <<>> /\ buf' = <<>> /\ want' = <<>>

StrNext == \/ talloc_strdup \/ talloc_strndup_append \/ talloc_strndup_append_buffer
           \/ talloc_vasprintf_append \/ (buf # <<>> /\ Cut) \/ StrFree
StrSpec == StrInit /\ [][StrNext]_<<buf, want>>

\* Every string has its NUL as the last octet of its buffer, at most.
StrTypeOK == buf # <<>> => buf[Len(buf)] = NUL /\ Len(buf) <= MaxSize

\* The string is what was copied and appended: in the end of a buffer whose
\* string was cut, an appended text is there but is not part of the string.
Holds == buf # <<>> => Text(buf) = want
=============================================================================
