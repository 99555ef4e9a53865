------------------------------ MODULE MCTalloc ------------------------------
(***************************************************************************)
(* The hierarchical allocator of libosmocore, part by part: references and *)
(* destructors that refuse, the tracking of the null context, pools, and   *)
(* strings (Talloc).                                                       *)
(***************************************************************************)
EXTENDS Integers, Sequences

VARIABLES
  part,   \* the part that runs; the variables it does not have are 0
  c, null, stk, ret, keep, fault, buf, want

vars == <<part, c, null, stk, ret, keep, fault, buf, want>>

-----------------------------------------------------------------------------
(* The parts.                                                              *)

\* The same in every part: only strings have them.
Texts == {<<>>, <<1>>, <<2, 1>>}
MaxSize == 7

Refs == INSTANCE Talloc WITH
  N <- 4, Destructors <- {"no"}, Uses <- {"references"}, PoolSpace <- 0
Tracking == INSTANCE Talloc WITH
  N <- 4, Destructors <- {"frees"}, Uses <- {"null tracking", "disabling"}, PoolSpace <- 0
Pools == INSTANCE Talloc WITH
  N <- 3, Destructors <- {}, Uses <- {"pools", "references"}, PoolSpace <- 2
Strings == INSTANCE Talloc WITH
  N <- 1, Destructors <- {}, Uses <- {}, PoolSpace <- 0

ASSUME PartsAssumption ==
  /\ Refs!TallocAssumption /\ Tracking!TallocAssumption /\ Pools!TallocAssumption
  /\ Strings!TallocAssumption

OnlyChunks ==
  /\ buf = 0 /\ want = 0
OnlyStrings ==
  /\ c = 0 /\ null = 0 /\ stk = 0 /\ ret = 0 /\ keep = 0 /\ fault = 0

Init ==
  \/ part = "references" /\ Refs!Init /\ OnlyChunks
  \/ part = "tracking" /\ Tracking!Init /\ OnlyChunks
  \/ part = "pools" /\ Pools!Init /\ OnlyChunks
  \/ part = "strings" /\ Strings!StrInit /\ OnlyStrings

KeepChunks ==
  UNCHANGED <<part, buf, want>>
KeepStrings ==
  UNCHANGED <<part, c, null, stk, ret, keep, fault>>

RefsNext ==
  \/ part = "references" /\ Refs!talloc /\ KeepChunks
  \/ part = "references" /\ Refs!talloc_set_destructor /\ KeepChunks
  \/ part = "references" /\ Refs!talloc_reference /\ KeepChunks
  \/ part = "references" /\ Refs!talloc_free /\ KeepChunks
  \/ part = "references" /\ Refs!talloc_free_children /\ KeepChunks
  \/ part = "references" /\ Refs!talloc_steal /\ KeepChunks
  \/ part = "references" /\ Refs!talloc_unlink /\ KeepChunks
  \/ part = "references" /\ Refs!talloc_realloc /\ KeepChunks
  \/ part = "references" /\ Refs!Free /\ KeepChunks
TrackingNext ==
  \/ part = "tracking" /\ Tracking!talloc /\ KeepChunks
  \/ part = "tracking" /\ Tracking!talloc_set_destructor /\ KeepChunks
  \/ part = "tracking" /\ Tracking!talloc_free /\ KeepChunks
  \/ part = "tracking" /\ Tracking!talloc_free_children /\ KeepChunks
  \/ part = "tracking" /\ Tracking!talloc_steal /\ KeepChunks
  \/ part = "tracking" /\ Tracking!talloc_unlink /\ KeepChunks
  \/ part = "tracking" /\ Tracking!talloc_realloc /\ KeepChunks
  \/ part = "tracking" /\ Tracking!talloc_enable_null_tracking /\ KeepChunks
  \/ part = "tracking" /\ Tracking!talloc_disable_null_tracking /\ KeepChunks
  \/ part = "tracking" /\ Tracking!Free /\ KeepChunks
PoolsNext ==
  \/ part = "pools" /\ Pools!talloc /\ KeepChunks
  \/ part = "pools" /\ Pools!talloc_pool /\ KeepChunks
  \/ part = "pools" /\ Pools!talloc_reference /\ KeepChunks
  \/ part = "pools" /\ Pools!talloc_free /\ KeepChunks
  \/ part = "pools" /\ Pools!talloc_free_children /\ KeepChunks
  \/ part = "pools" /\ Pools!talloc_steal /\ KeepChunks
  \/ part = "pools" /\ Pools!talloc_unlink /\ KeepChunks
  \/ part = "pools" /\ Pools!talloc_realloc /\ KeepChunks
  \/ part = "pools" /\ Pools!Free /\ KeepChunks
StringsNext ==
  \/ part = "strings" /\ Strings!talloc_strdup /\ KeepStrings
  \/ part = "strings" /\ Strings!talloc_strndup_append /\ KeepStrings
  \/ part = "strings" /\ Strings!talloc_strndup_append_buffer /\ KeepStrings
  \/ part = "strings" /\ Strings!talloc_vasprintf_append /\ KeepStrings
  \/ part = "strings" /\ buf # <<>> /\ Strings!Cut /\ KeepStrings
  \/ part = "strings" /\ Strings!StrFree /\ KeepStrings

Next == RefsNext \/ TrackingNext \/ PoolsNext \/ StringsNext

Spec == Init /\ [][Next]_vars

\* A call of talloc_free goes on until it returns.
Fairness == WF_vars(part = "tracking" /\ Tracking!Free /\ KeepChunks)
FairSpec == Spec /\ Fairness

-----------------------------------------------------------------------------
(* Properties.                                                             *)

\* Between two calls siblings and parents know each other (talloc_free,
\* talloc_steal, talloc_unlink, talloc_realloc).  With references that do not lead
\* back to an owner, and destructors that refuse, every chunk is found from one
\* without a parent, a handle is in the list of the chunk it refers to, which is
\* alive, and freeing says what it did and leaves what a context outside refers to;
\* without references, but with destructors that free the parent, no freed memory is
\* read either; a pool counts its objects and its memory is not given to free.
\* Not promised: with references, five chunks are enough for a stale prev to be
\* read while a tree is freed (talloc.c:580), and the memory of a pool may be lost
\* (talloc.c:1051).
TreeWhole ==
  /\ part = "references" => /\ Refs!Rooted /\ Refs!Linked /\ Refs!Referred
                            /\ Refs!Told /\ Refs!References
  /\ part = "tracking" => Tracking!Rooted /\ Tracking!Linked /\ Tracking!NoFault
  /\ part = "pools" => Pools!TypeOK /\ Pools!Linked /\ Pools!Counted /\ Pools!NoFault

\* A destructor that refuses keeps its chunk, although the parent goes away, and
\* every call of talloc_free comes to an end, although destructors free the parent,
\* which only TALLOC_FLAG_LOOP and the destructor (-1) of a chunk that is being
\* freed stop.  (A child that refuses for ever and has nowhere to go keeps the loop
\* over the children busy, talloc.c:566: no destructor does both here.)
FreeKeepsAndEnds ==
  /\ [][part = "references" => Refs!RefusedStep]_vars
  /\ []<>(part = "tracking" => stk = <<>>)

\* A string has its NUL as the last octet of its buffer at most, and is what was
\* copied and appended, at the end of the string or of the buffer, although its
\* owner cuts it in between (__talloc_strlendup_append, talloc_vasprintf_append).
StringsHeld == part = "strings" => Strings!StrTypeOK /\ Strings!Holds
=============================================================================
