------------------------------- MODULE MCVty --------------------------------
(***************************************************************************)
(* The command line of libosmocore, part by part: editing a line           *)
(* (VtyLine), the bytes of a telnet connection (VtyStream), the commands   *)
(* (VtyCommand), several terminals (Vty), output (VtyTelnet) and the       *)
(* configuration file (VtyConfig).                                         *)
(***************************************************************************)
EXTENDS Vty, VtyConfig, SequencesExt

CONSTANTS sock1, sock2   \* sockets

VARIABLES
  part,                       \* the part that runs; Vty and VtyConfig rest in an
                              \* initial state when they do not, the others in 0
  v, last,                    \* VtyLine
  s, stream, unread,          \* VtyStream
  node, line,                 \* VtyCommand
  b, when, sock, got, out, up \* VtyTelnet

line_vars    == <<v, last>>
stream_vars  == <<s, stream, unread>>
command_vars == <<node, line>>
telnet_vars  == <<b, when, sock, got, out, up>>
vars == <<part, line_vars, stream_vars, command_vars, vty_vars, telnet_vars, config_vars>>

\* Words that are completed, and keys.
TwoWords  == {<<"a", "a", "a">>, <<"b", "a">>}
SharedWords == {<<"a", "a", "b">>, <<"a", "a", "a">>, <<"b">>}
AllKeys   == {"^A", "^B", "^C", "^D", "^E", "^F", "^H", "^K", "^N", "^P", "^T", "^U", "^W",
              "ESC b", "ESC f", "?"}

\* Window sizes, one with a byte of 255, and one of a wrong length.
Naws == {<<"IAC", "SB", "NAWS", "9", "IAC", "SE">>, <<"IAC", "SB", "NAWS", "IAC", "IAC", "IAC", "SE">>,
         <<"IAC", "SB", "NAWS", "9", "9", "IAC", "SE">>}
Escapes == {<<"ESC", "[", "A">>, <<"ESC", "[", "D">>, <<"ESC", "b">>, <<"ESC", "d">>}
Telnet == Naws \union {<<"IAC", "WONT", "LINEMODE">>, <<"a">>, <<"ESC", "[", "D">>}
Keyboard == Escapes \union {<<"a">>, <<" ">>, <<"CR">>, <<"ESC">>, <<"[">>}

\* A terminal with two levels of configuration.
W(word) == [k |-> "word", s |-> word]
Rng(from, to) == [k |-> "range", min |-> from, max |-> to]
Var    == [k |-> "variable"]
Vararg == [k |-> "vararg"]
Ip     == [k |-> "ipv4"]
Opt(t) == [k |-> "option", of |-> t]
A  == W(<<"a">>)
AB == W(<<"a", "b">>)
AA == W(<<"a", "a">>)
Cmd(toks, to, rc) == [toks |-> toks, to |-> to, rc |-> rc]
Tree == [n \in {"ENABLE", "CONFIG", "SUB"} |->
  CASE n = "ENABLE" -> <<Cmd(<< <<AA>>, <<AB>> >>, "CONFIG", "success"),
                         Cmd(<< <<AB>>, <<Vararg>> >>, "stay", "success"),
                         Cmd(<< <<A>> >>, "stay", "success"),
                         Cmd(<< <<AA>>, <<A, Rng(1, 20)>> >>, "stay", "warning")>>
    [] n = "CONFIG" -> <<Cmd(<< <<AA>>, <<Rng(1, 12)>> >>, "SUB", "success"),
                         Cmd(<< <<AA>>, <<Var>> >>, "stay", "success"),
                         Cmd(<< <<AB>>, <<Opt(Rng(1, 9))>> >>, "stay", "success"),
                         Cmd(<< <<AB>>, <<AB>>, <<Var>> >>, "stay", "success"),
                         Cmd(<< <<A>>, <<Ip>> >>, "stay", "success"),
                         Cmd(<< <<A>>, <<A>> >>, "stay", "success"),
                         Cmd(<< <<AA, AB>>, <<Rng(10, 99)>>, <<A>> >>, "stay", "success"),
                         Cmd(<< <<W(<<"e">>)>> >>, "ENABLE", "success")>>
    [] n = "SUB" -> <<Cmd(<< <<A>>, <<Opt(AA)>> >>, "stay", "success"),
                      Cmd(<< <<AB>>, <<A>> >>, "stay", "fail"),
                      Cmd(<< <<W(<<"e">>)>> >>, "CONFIG", "success")>>]
Up == [n \in {"SUB"} |-> "CONFIG"]
Input == {<<"a">>, <<"b">>, <<"a", "b">>, <<"a", "a">>, <<"1">>, <<"1", "2">>, <<"9", "9">>, <<"e">>, <<"d", "o">>,
          <<"1", ".", "2">>}
Addresses == {<<"a">>} \union
             {<<x>> \o y : x \in {"1", "2", "."}, y \in {<<>>, <<"5", "9">>, <<".", "1", ".", "2">>,
                 <<"5", "5", ".", "0", ".", "0", ".", "1">>, <<".", "2", "9", "9", ".", "0", ".", "1">>,
                 <<".", "1", ".", "1", ".", "1", ".">>, <<".", ".", "1">>, <<"9", "9", ".">>}}

\* A program that gave memory back twice has no next step.
Whole == \A x \in Conns : freed[x] <= 1

-----------------------------------------------------------------------------
(* The parts.                                                              *)

Editing == INSTANCE VtyLine WITH
  VTY_BUFSIZ <- 5, VTY_MAXHIST <- 2, Words <- TwoWords, Nodes <- {"VIEW", "AUTH"},
  Letters <- {"a", " "}, Keys <- AllKeys, MaxLen <- 3
Screens == INSTANCE VtyLine WITH
  VTY_BUFSIZ <- 10, VTY_MAXHIST <- 1, Words <- SharedWords, Nodes <- {"VIEW"}, Letters <-
  {"a", "b", " "}, Keys <- AllKeys, MaxLen <- 4
Options == INSTANCE VtyStream WITH
  VTY_BUFSIZ <- 8, VTY_MAXHIST <- 2, Words <- {}, Tokens <- Telnet, NawsLen <- 2, MaxBytes
  <- 12
Keyboards == INSTANCE VtyStream WITH
  VTY_BUFSIZ <- 8, VTY_MAXHIST <- 2, Words <- {}, Tokens <- Keyboard, NawsLen <- 2,
  MaxBytes <- 5
Words == INSTANCE VtyCommand WITH
  Commands <- Tree, Parent <- Up, Typed <- Input, MaxWords <- 3
Addrs == INSTANCE VtyCommand WITH
  Commands <- Tree, Parent <- Up, Typed <- Addresses, MaxWords <- 2
Output == INSTANCE VtyTelnet WITH
  Size <- 2, SockMax <- 3, Puts <- {1, 3}, MaxOut <- 10
Restart == INSTANCE VtyConfig WITH
  Fields <- {"name", "motd"}, Failures <- {}

ASSUME PartsAssumption ==
  /\ Editing!VtyEditAssumption /\ Screens!VtyEditAssumption
  /\ Options!VtyEditAssumption /\ Keyboards!VtyEditAssumption

NoLine     == v = 0 /\ last = 0
NoStream   == s = 0 /\ stream = 0 /\ unread = 0
NoCommand  == node = 0 /\ line = 0
NoTelnet   == b = 0 /\ when = 0 /\ sock = 0 /\ got = 0 /\ out = 0 /\ up = 0
VtyRests   == VtyInit /\ ~password_check
              /\ host = [advanced |-> FALSE, password |-> "unset", enable |-> "unset"]
ConfigRests == ConfigInit /\ ~disk.config.ok /\ ~disk.sav.ok

Init ==
  \/ /\ \/ part = "line" /\ Editing!Init
        \/ part = "screen" /\ Screens!Init
     /\ NoStream /\ NoCommand /\ VtyRests /\ NoTelnet /\ ConfigRests
  \/ /\ \/ part = "telnet" /\ Options!Init
        \/ part = "keyboard" /\ Keyboards!Init
     /\ NoLine /\ NoCommand /\ VtyRests /\ NoTelnet /\ ConfigRests
  \/ /\ \/ part = "commands" /\ Words!Init
        \/ part = "addresses" /\ Addrs!Init
     /\ NoLine /\ NoStream /\ VtyRests /\ NoTelnet /\ ConfigRests
  \/ part = "sockets" /\ VtyInit /\ NoLine /\ NoStream /\ NoCommand /\ NoTelnet /\ ConfigRests
  \/ part = "output" /\ Output!Init /\ NoLine /\ NoStream /\ NoCommand /\ VtyRests /\ ConfigRests
  \/ part \in {"failures", "restart"} /\ ConfigInit /\ NoLine /\ NoStream /\ NoCommand /\ VtyRests /\ NoTelnet

KeepLine    == UNCHANGED <<part, stream_vars, command_vars, vty_vars, telnet_vars, config_vars>>
KeepStream  == UNCHANGED <<part, line_vars, command_vars, vty_vars, telnet_vars, config_vars>>
KeepCommand == UNCHANGED <<part, line_vars, stream_vars, vty_vars, telnet_vars, config_vars>>
KeepVty     == UNCHANGED <<part, line_vars, stream_vars, command_vars, telnet_vars, config_vars>>
KeepTelnet  == UNCHANGED <<part, line_vars, stream_vars, command_vars, vty_vars, config_vars>>
KeepConfig  == UNCHANGED <<part, line_vars, stream_vars, command_vars, vty_vars, telnet_vars>>

EditingNext ==
  \/ \E x \in {"a", " "} : part = "line" /\ Editing!Defined /\ Editing!Type(x) /\ KeepLine
  \/ \E key \in AllKeys : part = "line" /\ Editing!Defined /\ Editing!Press(key) /\ KeepLine
  \/ part = "line" /\ Editing!Defined /\ Editing!Tab /\ KeepLine
  \/ part = "line" /\ Editing!Defined /\ Editing!Enter /\ KeepLine

ScreensNext ==
  \/ \E x \in {"a", "b", " "} : part = "screen" /\ Screens!Defined /\ Screens!Type(x) /\ KeepLine
  \/ \E key \in AllKeys : part = "screen" /\ Screens!Defined /\ Screens!Press(key) /\ KeepLine
  \/ part = "screen" /\ Screens!Defined /\ Screens!Tab /\ KeepLine
  \/ part = "screen" /\ Screens!Defined /\ Screens!Enter /\ KeepLine

OptionsNext ==
  \/ part = "telnet" /\ Options!Read /\ KeepStream
  \/ part = "telnet" /\ Options!Send /\ KeepStream
KeyboardsNext ==
  \/ part = "keyboard" /\ Keyboards!Read /\ KeepStream
  \/ part = "keyboard" /\ Keyboards!Send /\ KeepStream
WordsNext ==
  \/ part = "commands" /\ Words!Type /\ KeepCommand
  \/ part = "commands" /\ Words!Enter /\ KeepCommand
  \/ part = "commands" /\ Words!FromFile /\ KeepCommand
AddrsNext ==
  \/ part = "addresses" /\ Addrs!Type /\ KeepCommand
  \/ part = "addresses" /\ Addrs!Enter /\ KeepCommand
SocketsNext ==
  \/ \E x \in Conns : part = "sockets" /\ Whole /\ telnet_new_connection(x) /\ KeepVty
  \/ \E x \in Conns : part = "sockets" /\ Whole /\ Hangup(x) /\ KeepVty
  \/ \E x \in Conns : part = "sockets" /\ Whole /\ Password(x) /\ KeepVty
  \/ \E x \in Conns : part = "sockets" /\ Whole /\ Mode(x) /\ KeepVty
  \/ \E x \in Conns : part = "sockets" /\ Whole /\ Setting(x) /\ KeepVty
  \/ \E x \in Conns : part = "sockets" /\ Whole /\ Login(x) /\ KeepVty
  \/ part = "sockets" /\ Whole /\ vty_reset /\ KeepVty

OutputNext ==
  \/ \E len \in {1, 3} : part = "output" /\ Output!Put(len) /\ KeepTelnet
  \/ \E len \in {1, 3} : part = "output" /\ Output!ReadReady(len) /\ KeepTelnet
  \/ part = "output" /\ Output!WriteReady /\ KeepTelnet
  \/ part = "output" /\ Output!ClientReads /\ KeepTelnet
  \/ part = "output" /\ Output!vty_close /\ KeepTelnet
FailingNext ==
  \/ part = "failures" /\ Change /\ KeepConfig
  \/ part = "failures" /\ WriteFile /\ KeepConfig
  \/ part = "failures" /\ Flush /\ KeepConfig
  \/ part = "failures" /\ UnlinkSav /\ KeepConfig
  \/ part = "failures" /\ LinkSav /\ KeepConfig
  \/ part = "failures" /\ UnlinkConfig /\ KeepConfig
  \/ part = "failures" /\ LinkConfig /\ KeepConfig
  \/ part = "failures" /\ UnlinkTmp /\ KeepConfig
  \/ part = "failures" /\ Chmod /\ KeepConfig
  \/ part = "failures" /\ Crash /\ KeepConfig
  \/ part = "failures" /\ Start /\ KeepConfig
RestartNext ==
  \/ part = "restart" /\ Restart!Change /\ KeepConfig
  \/ part = "restart" /\ Restart!WriteFile /\ KeepConfig
  \/ part = "restart" /\ Restart!Flush /\ KeepConfig
  \/ part = "restart" /\ Restart!UnlinkSav /\ KeepConfig
  \/ part = "restart" /\ Restart!LinkSav /\ KeepConfig
  \/ part = "restart" /\ Restart!UnlinkConfig /\ KeepConfig
  \/ part = "restart" /\ Restart!LinkConfig /\ KeepConfig
  \/ part = "restart" /\ Restart!UnlinkTmp /\ KeepConfig
  \/ part = "restart" /\ Restart!Chmod /\ KeepConfig
  \/ part = "restart" /\ Restart!Crash /\ KeepConfig
  \/ part = "restart" /\ Restart!Start /\ KeepConfig

Next == EditingNext \/ ScreensNext \/ OptionsNext \/ KeyboardsNext \/ WordsNext \/
        AddrsNext \/ SocketsNext \/ OutputNext \/ FailingNext \/ RestartNext

Spec == Init /\ [][Next]_vars

\* The select loop calls a connection whose event has come; the client reads.
Fairness ==
  /\ WF_vars(part = "output" /\ Output!WriteReady /\ KeepTelnet)
  /\ WF_vars(part = "output" /\ Output!ClientReads /\ KeepTelnet)
FairSpec == Spec /\ Fairness

-----------------------------------------------------------------------------
(* Properties.                                                             *)

\* What the user sees is what will be executed, with the cursor where the next
\* character goes, whatever keys move, cut and complete; the C string in the
\* buffer ends where the line ends, and from the newest position the previous
\* line is the one executed last (vty_self_insert, vty_complete_command,
\* vty_hist_add, vty_previous_line).  This is said of lines that fit the buffer's
\* first size: the half that vty_ensure adds is not cleared (vty.c:442).  The
\* number and size of the reads do not matter: the terminal is in the state of
\* one read of everything, wherever an escape sequence or a window size is cut,
\* and nothing of an option reaches the line (vty_read).  The exception is a read
\* that ends between a command (WILL, WONT, DO, DONT) and its option, which the
\* next read takes for a key (vty.c:1300).
LineShown ==
  /\ part = "line" => Editing!TypeOK /\ Editing!Terminated /\ Editing!Recall
  /\ part = "screen" => Screens!Screen
  /\ part = "telnet" => Options!Split /\ Options!NoOptionText
  /\ part = "keyboard" => Keyboards!Split

\* Completion, help, execution and the configuration file agree about what a
\* line means (cmd_complete_command, cmd_describe_command, cmd_execute_command,
\* config_from_file): a word that is offered is taken, one that makes a command
\* is listed, and every prefix of an address may become one.  A line that a file
\* takes after climbing to some node is taken at the terminal too: in that node
\* as the same command, which leads to the same node, or in a node below it, and
\* then only as an abbreviation (cmd_execute_command climbs with abbreviations,
\* config_from_file without).
CommandsAgree ==
  /\ part = "commands" => /\ Words!CompletionTakes /\ Words!Abbreviates /\ Words!HelpLists
                          /\ Words!FileAgrees
  /\ part = "addresses" => Addrs!AddressGrows

\* The bytes that are put out reach the client of a connection that stays, in
\* order and all of them (buffer_put, buffer_flush_available, client_data).
Delivered ==
  /\ [](part = "output" => Output!TypeOK /\ Output!InOrder)
  /\ []<>(part = "output" => ~up \/ Len(got) = out)
=============================================================================
