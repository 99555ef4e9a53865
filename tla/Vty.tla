-------------------------------- MODULE Vty --------------------------------
(***************************************************************************)
(* Terminals that share one program: who is let in, who may configure, and *)
(* what happens to a connection that is closed (vty.c, telnet_interface.c, *)
(* the mode commands of command.c).                                        *)
(***************************************************************************)
EXTENDS Integers

CONSTANTS
  Conns,      \* sockets that clients may connect
  MaxFail     \* wrong passwords before the end (3 in the code)

ASSUME VtyAssumption == MaxFail \in Nat \ {0}

VARIABLES
  vty,          \* per socket its VTY, or NoVty
  vty_config,   \* the configuration lock is taken
  password_check,
  host,         \* settings: advanced, password, enable
  conns,        \* connections that are registered (active_connections)
  freed         \* how often the connection of a socket was given back

vty_vars == <<vty, vty_config, password_check, host, conns, freed>>

\* The nodes in the order of enum node_type.
Order == [n \in {"AUTH", "VIEW", "AUTH_ENABLE", "ENABLE", "CONFIG", "CFG_LOG", "VTY", "L_NS"} |->
  CASE n = "AUTH" -> 0 [] n = "VIEW" -> 1 [] n = "AUTH_ENABLE" -> 2 [] n = "ENABLE" -> 3
    [] n = "CONFIG" -> 4 [] n = "CFG_LOG" -> 7 [] n = "VTY" -> 8 [] n = "L_NS" -> 11]
Nodes == DOMAIN Order
Above(n, m) == Order[n] > Order[m]
AuthNodes == {"AUTH", "AUTH_ENABLE"}
ConfigNodes == {n \in Nodes : Above(n, "ENABLE")}

\* asked and gave are kept for the properties: whether the VTY began with a
\* question for the password, and whether it was answered.
NoVty == [node |-> "AUTH", config |-> FALSE, fail |-> 0, up |-> FALSE, asked |-> FALSE, gave |-> FALSE]
Passwords == {"unset", "plain", "hidden"}   \* hidden: set with "password 8 X"

-----------------------------------------------------------------------------
(* The lock.                                                               *)

vty_config_lock(c) ==
  [config |-> vty[c].config \/ ~vty_config, lock |-> TRUE]

vty_config_unlock(c) ==
  IF vty_config /\ vty[c].config THEN [config |-> FALSE, lock |-> FALSE]
  ELSE [config |-> vty[c].config, lock |-> vty_config]

-----------------------------------------------------------------------------
(* Connections.                                                            *)

\* Faulty variant of vty_close: the lock is kept.
vty_closeLocked(c) ==
  /\ UNCHANGED vty_config
  /\ vty' = [vty EXCEPT ![c] = NoVty]
  /\ conns' = conns \ {c}
  /\ freed' = [freed EXCEPT ![c] = @ + 1]

\* vty_close and, through vty_event(VTY_CLOSED), telnet_close_client.
vty_close(c) ==
  /\ vty_config' = vty_config_unlock(c).lock
  /\ vty' = [vty EXCEPT ![c] = NoVty]
  /\ conns' = conns \ {c}
  /\ freed' = [freed EXCEPT ![c] = @ + 1]

FirstNode == IF password_check THEN "AUTH" ELSE IF host.advanced THEN "ENABLE" ELSE "VIEW"

\* telnet_new_connection with vty_create.  Without a password there is no VTY:
\* it is closed, which gives the connection back, and telnet_new_connection
\* gives it back again.
telnet_new_connection(c) ==
  /\ c \notin conns
  /\ UNCHANGED <<vty_config, password_check, host>>
  /\ IF password_check /\ host.password = "unset"
     THEN /\ freed' = [freed EXCEPT ![c] = 2]
          /\ UNCHANGED <<vty, conns>>
     ELSE /\ vty' = [vty EXCEPT ![c] = [NoVty EXCEPT !.node = FirstNode, !.up = TRUE, !.asked = password_check]]
          /\ conns' = conns \union {c}
          /\ freed' = [freed EXCEPT ![c] = 0]

\* The client is gone: vty_read reads nothing.
Hangup(c) == c \in conns /\ vty_close(c) /\ UNCHANGED <<password_check, host>>

\* vty_reset closes all.
vty_reset ==
  /\ conns # {}
  /\ vty' = [c \in Conns |-> NoVty] /\ vty_config' = FALSE
  /\ freed' = [c \in Conns |-> freed[c] + IF c \in conns THEN 1 ELSE 0]
  /\ conns' = {} /\ UNCHANGED <<password_check, host>>

-----------------------------------------------------------------------------
(* Lines and keys.                                                         *)

\* A line in an authentication node: good if it is the password.  Only a plain
\* password can be given.  In advanced mode the way leads past the enable node's
\* question unless a plain password is set: host.enable is null for a hidden one.
vty_auth(c, good) ==
  LET v    == vty[c]
      next == IF v.node = "AUTH" /\ ~(host.advanced /\ host.enable # "plain") THEN "VIEW" ELSE "ENABLE"
      n    == v.fail + 1
  IN IF good THEN [v EXCEPT !.fail = 0, !.node = next, !.gave = @ \/ v.node = "AUTH"]
     ELSE IF n < MaxFail THEN [v EXCEPT !.fail = n]
     ELSE IF v.node = "AUTH" THEN [v EXCEPT !.fail = n, !.up = FALSE]      \* VTY_CLOSE
     ELSE [v EXCEPT !.fail = 0, !.node = "VIEW"]

\* A new value for the VTY of c, which is closed if its status is VTY_CLOSE.
Becomes(c, v, lock) ==
  IF v.up
  THEN vty' = [vty EXCEPT ![c] = v] /\ vty_config' = lock /\ UNCHANGED <<conns, freed>>
  ELSE vty_close(c)

Password(c) ==
  /\ c \in conns /\ vty[c].node \in AuthNodes
  /\ \E good \in BOOLEAN :
       /\ good => (IF vty[c].node = "AUTH" THEN host.password ELSE host.enable) = "plain"
       /\ Becomes(c, vty_auth(c, good), vty_config)
  /\ UNCHANGED <<password_check, host>>

config_terminal(c) ==
  LET l == vty_config_lock(c)
  IN /\ vty[c].node = "ENABLE"
     /\ Becomes(c, [vty[c] EXCEPT !.config = l.config, !.node = IF l.config THEN "CONFIG" ELSE @], l.lock)

enable(c) ==
  /\ vty[c].node = "VIEW"
  /\ Becomes(c, [vty[c] EXCEPT !.node = IF host.enable = "unset" THEN "ENABLE" ELSE "AUTH_ENABLE"], vty_config)

disable(c) ==
  /\ vty[c].node = "ENABLE"
  /\ Becomes(c, [vty[c] EXCEPT !.node = "VIEW"], vty_config)

vty_go_parent(n) ==
  CASE n \in {"AUTH", "VIEW", "ENABLE", "CONFIG"} -> n
    [] n = "AUTH_ENABLE"                          -> "VIEW"
    [] OTHER                                      -> "CONFIG"

\* "exit", "do exit" below the enable node, and ^D on an empty line.
config_exit(c) ==
  LET v == vty[c] u == vty_config_unlock(c)
  IN CASE v.node \in {"AUTH", "VIEW", "ENABLE"} -> Becomes(c, [v EXCEPT !.up = FALSE], vty_config)
       [] v.node = "CONFIG" -> Becomes(c, [v EXCEPT !.node = "ENABLE", !.config = u.config], u.lock)
       [] Above(v.node, "CONFIG") -> Becomes(c, [v EXCEPT !.node = vty_go_parent(@)], vty_config)
       [] OTHER -> Becomes(c, v, vty_config)

DoExit(c) == Above(vty[c].node, "ENABLE") /\ Becomes(c, [vty[c] EXCEPT !.up = FALSE], vty_config)

\* "end": up to the configuration node, and out of it.
config_end(c) ==
  LET u == vty_config_unlock(c)
  IN /\ Above(vty[c].node, "ENABLE")
     /\ Becomes(c, [vty[c] EXCEPT !.node = "ENABLE", !.config = u.config], u.lock)

\* ^Z, and with it ^C: they know the nodes of the library's core only.
vty_end_config(c) ==
  LET v == vty[c] u == vty_config_unlock(c)
  IN CASE v.node \in {"CONFIG", "VTY"} -> Becomes(c, [v EXCEPT !.node = "ENABLE", !.config = u.config], u.lock)
       [] v.node = "CFG_LOG"           -> Becomes(c, [v EXCEPT !.node = "CONFIG"], vty_config)
       [] OTHER                        -> Becomes(c, v, vty_config)

\* "line vty", "log ...", "ns" from a node of the configuration: the command is
\* the configuration node's and the nodes below reach it.
Enter(c) ==
  /\ vty[c].node \in ConfigNodes
  /\ \E n \in {"CFG_LOG", "VTY", "L_NS"} : Becomes(c, [vty[c] EXCEPT !.node = n], vty_config)

Mode(c) ==
  /\ c \in conns
  /\ \/ vty[c].node \notin AuthNodes /\ (\/ config_terminal(c) \/ enable(c) \/ disable(c) \/ DoExit(c)
                                         \/ config_exit(c) \/ config_end(c) \/ Enter(c))
     \/ vty_end_config(c)
     \/ config_exit(c)
  /\ UNCHANGED <<password_check, host>>

\* Settings.  They are commands of the configuration node: in a node below it
\* the VTY is left there.
Setting(c) ==
  /\ c \in conns /\ vty[c].node \in ConfigNodes
  /\ \/ \E b \in BOOLEAN : host' = [host EXCEPT !.advanced = b]      \* [no] service advanced-vty
     \/ \E p \in {"plain", "hidden"} : host' = [host EXCEPT !.password = p]
     \/ \E p \in Passwords : host' = [host EXCEPT !.enable = p]
  /\ Becomes(c, [vty[c] EXCEPT !.node = "CONFIG"], vty_config)
  /\ UNCHANGED password_check

Login(c) ==
  /\ c \in conns /\ vty[c].node = "VTY"
  /\ \E b \in BOOLEAN : password_check' = b
  /\ UNCHANGED <<vty, vty_config, host, conns, freed>>

VtyInit ==
  /\ vty = [c \in Conns |-> NoVty] /\ vty_config = FALSE
  /\ password_check \in BOOLEAN
  /\ host \in [advanced : BOOLEAN, password : Passwords, enable : Passwords]   \* from the configuration file
  /\ conns = {} /\ freed = [c \in Conns |-> 0]

\* A program that gave memory back twice has no next step.
VtyNext ==
  /\ \A c \in Conns : freed[c] <= 1
  /\ \/ \E c \in Conns : telnet_new_connection(c) \/ Hangup(c) \/ Password(c) \/ Mode(c) \/ Setting(c) \/ Login(c)
     \/ vty_reset

VtySpec == VtyInit /\ [][VtyNext]_vty_vars

-----------------------------------------------------------------------------
(* Properties.                                                             *)

\* Type correctness; a VTY belongs to every registered connection.
VtyTypeOK ==
  /\ vty_config \in BOOLEAN /\ conns = {c \in Conns : vty[c].up}
  /\ \A c \in Conns : vty[c].node \in Nodes /\ vty[c].fail \in 0..(MaxFail - 1)

\* The terminals that configure.
Configuring == {c \in conns : vty[c].node \in ConfigNodes}

\* Only one VTY configures, it is the one that took the lock, and the lock is
\* not left behind by a VTY that went away or left the configuration.
LockHeld ==
  /\ \A c \in Conns : vty[c].config <=> c \in Configuring
  /\ vty_config <=> Configuring # {}
  /\ \A c, d \in Configuring : c = d

\* A VTY that had to give the password gave it before it gets a command.
Admitted == \A c \in conns : vty[c].asked /\ vty[c].node # "AUTH" => vty[c].gave

\* One terminal configures, it is the one that took the lock, the lock is not
\* left behind by one that went away, and a terminal that had to give the password
\* gave it (vty_config_lock, vty_config_unlock, vty_auth, vty_close).
OneConfigures == VtyTypeOK /\ LockHeld /\ Admitted
=============================================================================
