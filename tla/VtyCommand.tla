---------------------------- MODULE VtyCommand ----------------------------
(***************************************************************************)
(* How a line is matched with the commands of a node and executed, from a  *)
(* terminal (abbreviations allowed) or from a file (command.c).            *)
(*                                                                         *)
(* A command is a sequence of positions, each with the tokens that may     *)
(* stand there.  A line is a sequence of words; a word is a sequence of    *)
(* characters.                                                             *)
(***************************************************************************)
EXTENDS Integers, Sequences, SequencesExt, FiniteSets, FiniteSetsExt

CONSTANTS
  Commands,   \* per node its commands: [toks |-> positions, to |-> node or "stay", rc |-> result]
  Parent      \* vty_go_parent on the nodes of the configuration

-----------------------------------------------------------------------------
(* Tokens: [k |-> "word", s |-> characters], [k |-> "range", min, max],    *)
(* [k |-> "variable"], [k |-> "vararg"], [k |-> "ipv4"],                   *)
(* [k |-> "option", of |-> token].                                         *)

no_match == 0
any_match == 1
extend_match == 2
ipv4_match == 4
range_match == 7
vararg_match == 8
partly_match == 9
exact_match == 10

\* CMD_VARIABLE: written in capitals or in angle brackets.
Variable(t) == t.k \in {"variable", "range", "ipv4"}
Word(t) == t.k = "word"

Digit == [d \in {"0", "1", "2", "5", "9"} |->
            CASE d = "0" -> 0 [] d = "1" -> 1 [] d = "2" -> 2 [] d = "5" -> 5 [] d = "9" -> 9]
Number(w) == \A i \in DOMAIN w : w[i] \in DOMAIN Digit
Value(w) == FoldLeft(LAMBDA n, d : 10 * n + Digit[d], 0, w)

\* strtoul takes an empty word for 0.
cmd_range_match(t, w) == t.k = "range" /\ Number(w) /\ t.min <= Value(w) /\ Value(w) <= t.max

\* The numbers between the dots.
Parts(w) ==
  LET dots == SetToSortSeq({0, Len(w) + 1} \union {i \in DOMAIN w : w[i] = "."}, <)
  IN [i \in 1..(Len(dots) - 1) |-> SubSeq(w, dots[i] + 1, dots[i + 1] - 1)]

\* The scan stops at the first thing that is wrong; a dot at the end of the
\* word ends it early: the number before it is not compared with 255.
Scan(p, open) ==
  LET bad(i) == ~Number(p[i]) \/ Len(p[i]) > 3 \/ Value(p[i]) > 255
  IN IF \/ \E i \in 1..(IF open THEN Len(p) - 2 ELSE Len(p)) : bad(i)
        \/ \E i \in 2..(Len(p) - 1) : p[i] = <<>>    \* two dots
        \/ open /\ ~Number(p[Len(p) - 1])
        \/ Len(p) > 4
     THEN no_match
     ELSE IF open \/ Len(p) < 4 THEN partly_match ELSE exact_match

cmd_ipv4_match(w) == Scan(Parts(w), Len(w) > 0 /\ Last(w) = ".")

Deopt(t) == IF t.k = "option" THEN t.of ELSE t

Match(t, w, min) ==
  CASE t.k = "vararg"   -> vararg_match
    [] t.k = "range"    -> IF cmd_range_match(t, w) THEN range_match ELSE no_match
    [] t.k = "ipv4"     -> IF cmd_ipv4_match(w) >= min THEN ipv4_match ELSE no_match
    [] t.k = "variable" -> extend_match
    [] t.k = "word"     -> IF w = t.s THEN exact_match
                           ELSE IF IsPrefix(w, t.s) /\ partly_match >= min THEN partly_match
                           ELSE no_match

cmd_match(t, w, min) == Match(Deopt(t), w, min)

\* The matches of the commands at position i.
Matches(V, w, i, level) ==
  {cmd_match(t, w, level) : t \in UNION {Range(c.toks[i]) : c \in {d \in V : Len(d.toks) >= i}}} \ {no_match}

\* The first pass: commands with any match at the level.
Passing(V, w, i, level) ==
  {c \in V : Len(c.toks) >= i /\ \E t \in Range(c.toks[i]) : cmd_match(t, w, level) # no_match}

\* Commands with a match of at least best.
AtLeast(V, w, i, best) ==
  [match |-> best,
   left  |-> {c \in V : Len(c.toks) >= i /\ \E t \in Range(c.toks[i]) : cmd_match(t, w, any_match) >= best}]

\* Faulty variant of cmd_filter: the weakest match counts.
cmd_filterWeak(w, V, i, level) ==
  AtLeast(Passing(V, w, i, level), w, i, Min({exact_match + 1} \union Matches(V, w, i, level)))

\* The strongest match at position i, and the commands that have it.  The
\* second pass allows partial matches whatever the level.
cmd_filter(w, V, i, level) ==
  AtLeast(Passing(V, w, i, level), w, i, Max({any_match} \union Matches(V, w, i, level)))

\* The tokens of position i that count as a match of the given type.
Counting(c, w, i, type) ==
  {t \in {Deopt(x) : x \in Range(c.toks[i])} :
     CASE type = exact_match  -> Word(t) /\ t.s = w
       [] type = partly_match -> Word(t) /\ IsPrefix(w, t.s)
       [] type = range_match  -> cmd_range_match(t, w)
       [] type = ipv4_match   -> t.k = "ipv4"
       [] type = extend_match -> Variable(t)
       [] OTHER               -> FALSE}

\* Two different words, or ranges, that the typed word may stand for.
is_cmd_ambiguous(w, V, i, type) ==
  type \in {partly_match, range_match} /\ Cardinality(UNION {Counting(c, w, i, type) : c \in V}) > 1

-----------------------------------------------------------------------------
(* Execution.                                                              *)

\* Mandatory positions: up to the first option.
cmd_cmdsize(c) ==
  Min({Len(c.toks)} \union {i - 1 : i \in {j \in DOMAIN c.toks : Len(c.toks[j]) = 1 /\ c.toks[j][1].k = "option"}})

\* One word with the result of the filter; a vararg ends it.
Step(w, i, f) ==
  [left |-> IF f.match = vararg_match THEN f.left ELSE {c \in f.left : Counting(c, w, i, f.match) # {}},
   stop |-> IF f.match = vararg_match THEN "vararg"
            ELSE IF is_cmd_ambiguous(w, f.left, i, f.match) THEN "ambiguous" ELSE "no"]

\* The words are matched one by one.
Narrow(words, V, level) ==
  FoldLeft(LAMBDA m, i : IF m.stop = "no" THEN Step(words[i], i, cmd_filter(words[i], m.left, i, level)) ELSE m,
           [left |-> V, stop |-> "no"], [i \in DOMAIN words |-> i])

NoCommand == [toks |-> <<>>, to |-> "stay", rc |-> "none"]

Outcome(n, m, done) ==
  IF m.stop = "ambiguous" \/ Cardinality(done) > 1 THEN [ret |-> "ambiguous", node |-> n, cmd |-> NoCommand]
  ELSE IF done = {} THEN [ret |-> IF m.left # {} THEN "incomplete" ELSE "no match", node |-> n, cmd |-> NoCommand]
  ELSE LET c == CHOOSE x \in done : TRUE
       IN [ret |-> c.rc, node |-> IF c.to = "stay" THEN n ELSE c.to, cmd |-> c]

Complete(words, m) == {c \in m.left : m.stop = "vararg" \/ Len(words) >= cmd_cmdsize(c)}
Finish(words, n, m) == Outcome(n, m, Complete(words, m))

\* cmd_execute_command_real, and with level exact_match
\* cmd_execute_command_strict: result, new node and command.
Execute(words, n, level) == Finish(words, n, Narrow(words, Range(Commands[n]), level))

Good(r) == r.ret \in {"success", "warning"}
Nodes == DOMAIN Commands
is_config_child(n) == n \in DOMAIN Parent

\* The line in the node and in the nodes above it, until one takes it: the
\* nodes from n up.
Path[n \in Nodes] == IF is_config_child(n) THEN <<n>> \o Path[Parent[n]] ELSE <<n>>
FirstGood(rs) == IF \E i \in DOMAIN rs : Good(rs[i]) THEN rs[Min({i \in DOMAIN rs : Good(rs[i])})] ELSE Last(rs)
Climb(words, n, level) == FirstGood([i \in DOMAIN Path[n] |-> Execute(words, Path[n][i], level)])

cmd_try_do_shortcut(n, words) ==
  words[1] = <<"d", "o">> /\ n \notin {"AUTH", "VIEW", "AUTH_ENABLE", "ENABLE"}

\* What no node takes changes nothing.
Stay(n, r) == IF Good(r) THEN r ELSE [r EXCEPT !.node = n]

\* A line typed at a terminal.  The result of a line that is not taken is that
\* of the first node; only the node matters here.
cmd_execute_command(words, n) ==
  IF cmd_try_do_shortcut(n, words)
  THEN [Execute(Tail(words), "ENABLE", any_match) EXCEPT !.node = n]
  ELSE Stay(n, Climb(words, n, any_match))

\* A line of a configuration file.
config_from_file(words, n) == Climb(words, n, exact_match)

-----------------------------------------------------------------------------
(* Completion and help.                                                    *)

\* Words that the word w, or nothing, may become.
cmd_entry_function(w, t) == Word(t) /\ IsPrefix(w, t.s)

At(V, i) == UNION {Range(c.toks[i]) : c \in {d \in V : Len(d.toks) >= i}}

Offered(m, w, i) ==
  IF m.stop = "ambiguous" THEN {} ELSE {t.s : t \in {x \in At(m.left, i) : cmd_entry_function(w, x)}}

cmd_complete_command(words, w, n) == Offered(Narrow(words, Range(Commands[n]), any_match), w, Len(words) + 1)

\* Tokens that '?' lists after the words.
Listed(m, i) ==
  CASE m.stop = "vararg"    -> UNION {Range(c.toks[Len(c.toks)]) : c \in m.left} \union {[k |-> "cr"]}
    [] m.stop = "ambiguous" -> {}
    [] OTHER                -> At(m.left, i) \union {[k |-> "cr"] : c \in {d \in m.left : Len(d.toks) = i - 1}}

cmd_describe_command(words, n) == Listed(Narrow(words, Range(Commands[n]), any_match), Len(words) + 1)

\* The status of the help: in the case of a vararg it is never set, and the
\* caller's variable has any value.
Status(m, list) ==
  CASE m.stop = "vararg"    -> {"success", "no match", "ambiguous"}
    [] m.stop = "ambiguous" -> {"ambiguous"}
    [] OTHER                -> {IF list = {} THEN "no match" ELSE "success"}
describe_status(words, n) ==
  Status(Narrow(words, Range(Commands[n]), any_match), cmd_describe_command(words, n))

-----------------------------------------------------------------------------

CONSTANTS
  Typed,      \* words that are typed
  MaxWords    \* bound: words of a line

VARIABLES
  node,   \* node of the VTY
  line    \* words typed so far

vars == <<node, line>>

Type == Len(line) < MaxWords /\ \E w \in Typed : line' = Append(line, w) /\ UNCHANGED node
Enter == line # <<>> /\ node' = cmd_execute_command(line, node).node /\ line' = <<>>
FromFile == line # <<>> /\ node \notin {"VIEW", "ENABLE"} /\ node' = config_from_file(line, node).node /\ line' = <<>>

Init == node = "ENABLE" /\ line = <<>>
Next == Type \/ Enter \/ FromFile
Spec == Init /\ [][Next]_vars

-----------------------------------------------------------------------------
(* Properties.                                                             *)

Word1 == Last(line)
Before == Front(line)

\* A word that completion offers is taken.
CompletionTakes ==
  line # <<>> => \A c \in cmd_complete_command(Before, Word1, node) :
                   Execute(Append(Before, c), node, any_match).ret # "no match"

\* When completion has one answer, the abbreviation and the word are the same
\* command.
Abbreviates ==
  line # <<>> => \A c \in cmd_complete_command(Before, Word1, node) :
                   {c} = cmd_complete_command(Before, Word1, node)
                     => Execute(Append(Before, c), node, any_match) = Execute(line, node, any_match)

\* A word that makes a command is one that the help before it lists.
HelpLists ==
  line # <<>> /\ Good(Execute(line, node, any_match)) =>
     \E t \in cmd_describe_command(Before, node) :
        t.k = "cr" \/ cmd_match(t, Word1, any_match) # no_match

\* A line is abbreviated if some word of it is no full match.
Abbreviated(words, toks) ==
  \E i \in DOMAIN words : i <= Len(toks) /\ \A t \in Range(toks[i]) : cmd_match(t, words[i], exact_match) = no_match

\* How many nodes from n up have to be tried until one takes the line; one more
\* than there are if none does.
Climbed(words, n, level) ==
  Min({Len(Path[n]) + 1} \union {i \in DOMAIN Path[n] : Good(Execute(words, Path[n][i], level))})

\* A line that a file takes does the same at the terminal, or a node below the
\* one that takes it knows it as an abbreviation.
FileAgrees ==
  line # <<>> /\ ~cmd_try_do_shortcut(node, line) /\ Good(config_from_file(line, node)) =>
     LET file  == Climbed(line, node, exact_match)
         typed == Climbed(line, node, any_match)
         done  == cmd_execute_command(line, node)
     IN /\ typed <= file /\ Good(done)
        /\ typed = file => done = config_from_file(line, node)
        /\ Abbreviated(line, done.cmd.toks) <=> typed < file

\* Every prefix of an address may become one.
AddressGrows ==
  line # <<>> /\ cmd_ipv4_match(Word1) = exact_match =>
     \A n \in 1..Len(Word1) : cmd_ipv4_match(SubSeq(Word1, 1, n)) # no_match

\* The help of a line that is a command says so.
HelpDefined ==
  line # <<>> /\ Good(Execute(line, node, any_match)) => describe_status(line, node) = {"success"}
=============================================================================
