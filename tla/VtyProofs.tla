----------------------------- MODULE VtyProofs -----------------------------
(***************************************************************************)
(* The terminals: one configures at a time (Vty), for any sockets and any  *)
(* number of wrong passwords; and the configuration is not lost            *)
(* (VtyConfig), whatever call fails and whenever the machine stops.        *)
(***************************************************************************)
EXTENDS Vty, VtyConfig, TLAPS

-----------------------------------------------------------------------------
(* The lock: the invariant.                                                *)

Terminal == [node : Nodes, config : BOOLEAN, fail : 0..(MaxFail - 1), up : BOOLEAN,
             asked : BOOLEAN, gave : BOOLEAN]

\* A terminal that is in order by itself: its mark says whether it configures,
\* and it has given the password.
InOrder(x) ==
  /\ x \in Terminal
  /\ x.config <=> x.up /\ x.node \in ConfigNodes
  /\ x.up /\ x.asked /\ x.node # "AUTH" => x.gave

\* The lock is taken just when some terminal is marked, and no two are.
LockFits(f, lock) ==
  /\ lock \in BOOLEAN
  /\ lock <=> \E c \in Conns : f[c].config
  /\ \A c, d \in Conns : f[c].config /\ f[d].config => c = d

Connections ==
  /\ vty \in [Conns -> Terminal] /\ \A c \in Conns : InOrder(vty[c])
  /\ LockFits(vty, vty_config)
  /\ conns = {c \in Conns : vty[c].up} /\ password_check \in BOOLEAN

\* The nodes of the configuration.
LEMMA NodeSets ==
  /\ Nodes = {"AUTH", "VIEW", "AUTH_ENABLE", "ENABLE", "CONFIG", "CFG_LOG", "VTY", "L_NS"}
  /\ ConfigNodes = {"CONFIG", "CFG_LOG", "VTY", "L_NS"}
  /\ \A n \in Nodes : Above(n, "CONFIG") <=> n \in {"CFG_LOG", "VTY", "L_NS"}
  /\ \A n \in Nodes : Above(n, "ENABLE") <=> n \in ConfigNodes
  <1>1. Nodes = {"AUTH", "VIEW", "AUTH_ENABLE", "ENABLE", "CONFIG", "CFG_LOG", "VTY", "L_NS"}
    BY DEF Nodes, Order
  <1>2. /\ Order["AUTH"] = 0 /\ Order["VIEW"] = 1 /\ Order["AUTH_ENABLE"] = 2 /\ Order["ENABLE"] = 3
        /\ Order["CONFIG"] = 4 /\ Order["CFG_LOG"] = 7 /\ Order["VTY"] = 8 /\ Order["L_NS"] = 11
    BY DEF Order
  <1>3. \A n \in Nodes : Above(n, "ENABLE") <=> n \in {"CONFIG", "CFG_LOG", "VTY", "L_NS"}
    BY <1>1, <1>2 DEF Above
  <1>4. \A n \in Nodes : Above(n, "CONFIG") <=> n \in {"CFG_LOG", "VTY", "L_NS"}
    BY <1>1, <1>2 DEF Above
  <1> QED BY <1>1, <1>3, <1>4 DEF ConfigNodes

\* A terminal that is not there is in order.
LEMMA NoVtyInOrder == NoVty \in Terminal /\ InOrder(NoVty) /\ NoVty.up = FALSE /\ NoVty.config = FALSE
  BY VtyAssumption, NodeSets DEF NoVty, Terminal, InOrder

\* The terminal of c becomes x, and the lock fits its mark.
LEMMA TerminalChanged ==
  ASSUME Connections, NEW c \in Conns, NEW x, InOrder(x), NEW lock \in BOOLEAN,
         x.config => \A d \in Conns \ {c} : ~vty[d].config,
         lock <=> x.config \/ \E d \in Conns \ {c} : vty[d].config,
         vty' = [vty EXCEPT ![c] = x], vty_config' = lock, password_check' \in BOOLEAN,
         conns' = IF x.up THEN conns \cup {c} ELSE conns \ {c}
  PROVE  Connections'
  <1>1. x \in Terminal
    BY DEF InOrder
  <1>2. vty' \in [Conns -> Terminal] /\ vty'[c] = x /\ \A d \in Conns \ {c} : vty'[d] = vty[d]
    BY <1>1 DEF Connections
  <1>3. \A d \in Conns : InOrder(vty'[d])
    BY <1>2 DEF Connections
  <1>4. vty_config' <=> \E d \in Conns : vty'[d].config
    BY <1>2
  <1>5. \A d, e \in Conns : vty'[d].config /\ vty'[e].config => d = e
    BY <1>2 DEF Connections, LockFits
  <1>6. conns' = {d \in Conns : vty'[d].up}
    <2>1. CASE x.up
      BY <1>2, <2>1 DEF Connections
    <2>2. CASE ~x.up
      BY <1>2, <2>2 DEF Connections
    <2> QED BY <2>1, <2>2
  <1>7. vty_config' \in BOOLEAN OBVIOUS
  <1>8. LockFits(vty', vty_config')
    BY <1>4, <1>5, <1>7 DEF LockFits
  <1> QED BY <1>2, <1>3, <1>6, <1>8 DEF Connections

\* What a terminal gives back when it leaves the configuration.
LEMMA Unlocked ==
  ASSUME Connections, NEW c \in Conns
  PROVE  LET u == vty_config_unlock(c)
         IN /\ u.config = FALSE /\ u.lock \in BOOLEAN
            /\ u.lock <=> \E d \in Conns \ {c} : vty[d].config
  <1>1. vty[c] \in Terminal /\ vty[c].config \in BOOLEAN /\ LockFits(vty, vty_config)
    BY DEF Connections, Terminal
  <1>2. CASE vty[c].config
    <2>1. vty_config
      BY <1>1, <1>2 DEF LockFits
    <2>2. vty_config_unlock(c).config = FALSE /\ vty_config_unlock(c).lock = FALSE
      BY <1>2, <2>1 DEF vty_config_unlock
    <2>3. \A d \in Conns \ {c} : ~vty[d].config
      BY <1>1, <1>2 DEF LockFits
    <2> QED BY <2>2, <2>3
  <1>3. CASE ~vty[c].config
    <2>1. vty_config_unlock(c).config = vty[c].config /\ vty_config_unlock(c).lock = vty_config
      BY <1>3 DEF vty_config_unlock
    <2>2. vty_config_unlock(c).config = FALSE
      BY <1>1, <1>3, <2>1
    <2>3. vty_config_unlock(c).lock \in BOOLEAN
      BY <1>1, <2>1 DEF LockFits
    <2>4. vty_config <=> \E d \in Conns \ {c} : vty[d].config
      BY <1>1, <1>3 DEF LockFits
    <2> QED BY <2>1, <2>2, <2>3, <2>4
  <1> QED BY <1>2, <1>3

\* The connection of c is closed.
LEMMA Closed ==
  ASSUME Connections, NEW c \in Conns, vty_close(c), password_check' \in BOOLEAN
  PROVE  Connections'
  <1> DEFINE lock == vty_config_unlock(c).lock
  <1>1. lock \in BOOLEAN /\ (lock <=> \E d \in Conns \ {c} : vty[d].config)
    BY Unlocked
  <1>2. vty_config' = lock /\ vty' = [vty EXCEPT ![c] = NoVty] /\ conns' = conns \ {c}
    BY DEF vty_close
  <1> HIDE DEF lock
  <1> QED BY <1>1, <1>2, NoVtyInOrder, TerminalChanged

\* The terminal of c becomes x, which is closed if it is no longer up.
LEMMA Became ==
  ASSUME Connections, NEW c \in conns, NEW x, NEW lock \in BOOLEAN, Becomes(c, x, lock),
         password_check' \in BOOLEAN,
         x.up => InOrder(x),
         x.config => \A d \in Conns \ {c} : ~vty[d].config,
         lock <=> x.config \/ \E d \in Conns \ {c} : vty[d].config
  PROVE  Connections'
  <1>1. c \in Conns /\ conns \cup {c} = conns
    BY DEF Connections
  <1>2. CASE x.up
    <2>1. vty' = [vty EXCEPT ![c] = x] /\ vty_config' = lock /\ conns' = conns
      BY <1>2 DEF Becomes
    <2> QED BY <1>1, <1>2, <2>1, TerminalChanged
  <1>3. CASE ~x.up
    <2>1. vty_close(c)
      BY <1>3 DEF Becomes
    <2> QED BY <1>1, <2>1, Closed
  <1> QED BY <1>2, <1>3

\* As long as the mark stays the lock fits.
LEMMA BecameKept ==
  ASSUME Connections, NEW c \in conns, NEW x, Becomes(c, x, vty_config), password_check' \in BOOLEAN,
         x.up => InOrder(x), x.config = vty[c].config
  PROVE  Connections'
  <1>1. c \in Conns /\ LockFits(vty, vty_config)
    BY DEF Connections
  <1>2. x.config => \A d \in Conns \ {c} : ~vty[d].config
    BY <1>1 DEF LockFits
  <1>3. vty_config \in BOOLEAN /\ (vty_config <=> x.config \/ \E d \in Conns \ {c} : vty[d].config)
    BY <1>1 DEF LockFits
  <1> QED BY <1>2, <1>3, Became

\* A terminal that is connected.
LEMMA Connected ==
  ASSUME Connections, NEW c \in conns
  PROVE  c \in Conns /\ vty[c] \in Terminal /\ InOrder(vty[c]) /\ vty[c].up = TRUE
  <1>1. c \in Conns /\ vty[c].up
    BY DEF Connections
  <1>2. vty[c] \in Terminal /\ InOrder(vty[c])
    BY <1>1 DEF Connections
  <1>3. vty[c].up \in BOOLEAN
    BY <1>2 DEF Terminal
  <1> QED BY <1>1, <1>2, <1>3

-----------------------------------------------------------------------------
(* The commands.                                                           *)

\* A terminal moves to another node and stays in the configuration or out of it.
LEMMA NodeMoved ==
  ASSUME Connections, NEW c \in conns, NEW n \in Nodes,
         n \in ConfigNodes <=> vty[c].node \in ConfigNodes,
         vty[c].node = "AUTH" => n = "AUTH",
         Becomes(c, [vty[c] EXCEPT !.node = n], vty_config), password_check' \in BOOLEAN
  PROVE  Connections'
  <1> DEFINE x == [vty[c] EXCEPT !.node = n]
  <1>1. vty[c] \in Terminal /\ InOrder(vty[c])
    BY Connected
  <1>2. x \in Terminal /\ x.config = vty[c].config /\ x.up = vty[c].up /\ x.asked = vty[c].asked
        /\ x.gave = vty[c].gave /\ x.node = n
    BY <1>1 DEF Terminal
  <1>3. Becomes(c, x, vty_config)
    OBVIOUS
  <1> HIDE DEF x
  <1>4. InOrder(x)
    BY <1>1, <1>2 DEF InOrder
  <1> QED BY <1>2, <1>3, <1>4, BecameKept

\* A terminal leaves the configuration for the enable node.
LEMMA ConfigLeft ==
  ASSUME Connections, NEW c \in conns, vty[c].node # "AUTH",
         Becomes(c, [vty[c] EXCEPT !.node = "ENABLE", !.config = vty_config_unlock(c).config],
                 vty_config_unlock(c).lock),
         password_check' \in BOOLEAN
  PROVE  Connections'
  <1> DEFINE x == [vty[c] EXCEPT !.node = "ENABLE", !.config = vty_config_unlock(c).config]
             lock == vty_config_unlock(c).lock
  <1>1. c \in Conns /\ vty[c] \in Terminal /\ InOrder(vty[c])
    BY Connected
  <1>2. vty_config_unlock(c).config = FALSE /\ lock \in BOOLEAN
        /\ (lock <=> \E d \in Conns \ {c} : vty[d].config)
    BY <1>1, Unlocked
  <1>3. x \in Terminal /\ x.config = FALSE /\ x.up = vty[c].up /\ x.asked = vty[c].asked
        /\ x.gave = vty[c].gave /\ x.node = "ENABLE"
    BY <1>1, <1>2, NodeSets DEF Terminal
  <1>4. Becomes(c, x, lock)
    OBVIOUS
  <1> HIDE DEF x, lock
  <1>5. InOrder(x)
    BY <1>1, <1>3, NodeSets DEF InOrder
  <1> QED BY <1>2, <1>3, <1>4, <1>5, Became

\* A terminal is closed by a command.
LEMMA Quits ==
  ASSUME Connections, NEW c \in conns, Becomes(c, [vty[c] EXCEPT !.up = FALSE], vty_config),
         password_check' \in BOOLEAN
  PROVE  Connections'
  <1>1. c \in Conns /\ vty[c] \in Terminal
    BY Connected
  <1>2. [vty[c] EXCEPT !.up = FALSE].up = FALSE
    BY <1>1 DEF Terminal
  <1>3. vty_close(c)
    BY <1>2 DEF Becomes
  <1> QED BY <1>1, <1>3, Closed

\* A terminal stays as it is.
LEMMA Stays ==
  ASSUME Connections, NEW c \in conns, Becomes(c, vty[c], vty_config), password_check' \in BOOLEAN
  PROVE  Connections'
  BY Connected, BecameKept

\* "configure terminal": the lock is taken if it is free.
LEMMA Configures ==
  ASSUME Connections, NEW c \in conns, config_terminal(c), password_check' \in BOOLEAN
  PROVE  Connections'
  <1> DEFINE free == vty_config_lock(c).config
             x == [vty[c] EXCEPT !.config = free, !.node = IF free THEN "CONFIG" ELSE vty[c].node]
  <1>1. c \in Conns /\ vty[c] \in Terminal /\ InOrder(vty[c]) /\ vty[c].node = "ENABLE"
        /\ LockFits(vty, vty_config)
    BY Connected DEF config_terminal, Connections
  <1>2. vty_config_lock(c).lock = TRUE /\ free = (vty[c].config \/ ~vty_config)
    BY DEF vty_config_lock
  <1>3. Becomes(c, x, TRUE)
    BY <1>2 DEF config_terminal
  <1>4. vty[c].config = FALSE
    <2>1. vty[c].config \in BOOLEAN BY <1>1 DEF Terminal
    <2>2. ~vty[c].config BY <1>1, NodeSets DEF InOrder
    <2> QED BY <2>1, <2>2
  <1>5. vty_config \in BOOLEAN /\ (vty_config <=> \E d \in Conns : vty[d].config)
    BY <1>1 DEF LockFits
  <1>6. CASE vty_config
    <2>1. free = FALSE
      BY <1>2, <1>4, <1>6
    <2>2. x = vty[c]
      BY <1>1, <1>4, <2>1 DEF Terminal
    <2>3. Becomes(c, vty[c], vty_config)
      BY <1>3, <1>5, <1>6, <2>2
    <2> QED BY <2>3, Stays
  <1>7. CASE ~vty_config
    <2>1. free = TRUE
      BY <1>2, <1>7
    <2>2. x \in Terminal /\ x.config = TRUE /\ x.up = vty[c].up /\ x.asked = vty[c].asked
          /\ x.gave = vty[c].gave /\ x.node = "CONFIG" /\ vty[c].up = TRUE
      BY <1>1, <2>1, NodeSets, Connected DEF Terminal
    <2>3. \A d \in Conns \ {c} : ~vty[d].config
      BY <1>5, <1>7
    <2> HIDE DEF x
    <2>4. InOrder(x)
      BY <1>1, <2>2, NodeSets DEF InOrder
    <2> QED BY <1>3, <2>2, <2>3, <2>4, Became
  <1> QED BY <1>6, <1>7

\* "exit", and ^D on an empty line.
LEMMA Exits ==
  ASSUME Connections, NEW c \in conns, config_exit(c), password_check' \in BOOLEAN
  PROVE  Connections'
  <1>1. vty[c] \in Terminal /\ vty[c].node \in Nodes
    BY Connected DEF Terminal
  <1>2. CASE vty[c].node \in {"AUTH", "VIEW", "ENABLE"}
    <2>1. ~Above(vty[c].node, "CONFIG")
      BY <1>1, <1>2, NodeSets
    <2>2. Becomes(c, [vty[c] EXCEPT !.up = FALSE], vty_config)
      BY <1>2, <2>1 DEF config_exit
    <2> QED BY <2>2, Quits
  <1>3. CASE vty[c].node = "CONFIG"
    <2>1. ~Above(vty[c].node, "CONFIG")
      BY <1>1, <1>3, NodeSets
    <2>2. Becomes(c, [vty[c] EXCEPT !.node = "ENABLE", !.config = vty_config_unlock(c).config],
                  vty_config_unlock(c).lock)
      BY <1>3, <2>1 DEF config_exit
    <2> QED BY <1>3, <2>2, ConfigLeft
  <1>4. CASE vty[c].node \in {"CFG_LOG", "VTY", "L_NS"}
    <2>1. vty_go_parent(vty[c].node) = "CONFIG"
      BY <1>4 DEF vty_go_parent
    <2>2. Above(vty[c].node, "CONFIG")
      BY <1>1, <1>4, NodeSets
    <2>3. Becomes(c, [vty[c] EXCEPT !.node = vty_go_parent(vty[c].node)], vty_config)
      BY <1>4, <2>2 DEF config_exit
    <2> QED BY <1>4, <2>1, <2>3, NodeMoved, NodeSets
  <1>5. CASE vty[c].node = "AUTH_ENABLE"
    <2>1. ~Above(vty[c].node, "CONFIG")
      BY <1>1, <1>5, NodeSets
    <2>2. Becomes(c, vty[c], vty_config)
      BY <1>5, <2>1 DEF config_exit
    <2> QED BY <2>2, Stays
  <1> QED BY <1>1, <1>2, <1>3, <1>4, <1>5, NodeSets

\* ^Z and ^C.
LEMMA EndsConfig ==
  ASSUME Connections, NEW c \in conns, vty_end_config(c), password_check' \in BOOLEAN
  PROVE  Connections'
  <1>1. CASE vty[c].node \in {"CONFIG", "VTY"}
    <2>1. Becomes(c, [vty[c] EXCEPT !.node = "ENABLE", !.config = vty_config_unlock(c).config],
                  vty_config_unlock(c).lock)
      BY <1>1 DEF vty_end_config
    <2> QED BY <1>1, <2>1, ConfigLeft
  <1>2. CASE vty[c].node = "CFG_LOG"
    <2>1. Becomes(c, [vty[c] EXCEPT !.node = "CONFIG"], vty_config)
      BY <1>2 DEF vty_end_config
    <2> QED BY <1>2, <2>1, NodeMoved, NodeSets
  <1>3. CASE vty[c].node \notin {"CONFIG", "VTY", "CFG_LOG"}
    <2>1. Becomes(c, vty[c], vty_config)
      BY <1>3 DEF vty_end_config
    <2> QED BY <2>1, Stays
  <1> QED BY <1>1, <1>2, <1>3

\* Every command that changes the node.
LEMMA ModeStep ==
  ASSUME Connections, NEW c \in Conns, Mode(c)
  PROVE  Connections'
  <1>1. c \in conns /\ password_check' \in BOOLEAN
    BY DEF Mode, Connections
  <1>2. vty[c].node \in Nodes
    BY <1>1, Connected DEF Terminal
  <1>3. ASSUME enable(c) PROVE Connections'
    <2> DEFINE n == IF host.enable = "unset" THEN "ENABLE" ELSE "AUTH_ENABLE"
    <2>1. vty[c].node = "VIEW" /\ Becomes(c, [vty[c] EXCEPT !.node = n], vty_config)
      BY <1>3 DEF enable
    <2>2. n \in Nodes /\ n \notin ConfigNodes /\ "VIEW" \notin ConfigNodes
      BY NodeSets
    <2> HIDE DEF n
    <2> QED BY <1>1, <2>1, <2>2, NodeMoved
  <1>4. ASSUME disable(c) PROVE Connections'
    <2>1. vty[c].node = "ENABLE" /\ Becomes(c, [vty[c] EXCEPT !.node = "VIEW"], vty_config)
      BY <1>4 DEF disable
    <2> QED BY <1>1, <2>1, NodeMoved, NodeSets
  <1>5. ASSUME DoExit(c) PROVE Connections'
    BY <1>1, <1>5, Quits DEF DoExit
  <1>6. ASSUME config_end(c) PROVE Connections'
    <2>1. vty[c].node # "AUTH"
      BY <1>2, <1>6, NodeSets DEF config_end
    <2> QED BY <1>1, <1>6, <2>1, ConfigLeft DEF config_end
  <1>7. ASSUME Enter(c) PROVE Connections'
    <2>1. PICK n \in {"CFG_LOG", "VTY", "L_NS"} : Becomes(c, [vty[c] EXCEPT !.node = n], vty_config)
      BY <1>7 DEF Enter
    <2>2. n \in Nodes /\ n \in ConfigNodes /\ vty[c].node \in ConfigNodes /\ vty[c].node # "AUTH"
      BY <1>7, NodeSets DEF Enter
    <2> QED BY <1>1, <2>1, <2>2, NodeMoved
  <1> QED BY <1>1, <1>3, <1>4, <1>5, <1>6, <1>7, Configures, Exits, EndsConfig DEF Mode

\* A line in an authentication node.
LEMMA PasswordStep ==
  ASSUME Connections, NEW c \in Conns, Password(c)
  PROVE  Connections'
  <1>1. c \in conns /\ password_check' \in BOOLEAN /\ vty[c].node \in AuthNodes
    BY DEF Password, Connections
  <1>2. PICK good \in BOOLEAN : Becomes(c, vty_auth(c, good), vty_config)
    BY DEF Password
  <1> DEFINE x == vty_auth(c, good)
             next == IF vty[c].node = "AUTH" /\ ~(host.advanced /\ host.enable # "plain") THEN "VIEW" ELSE "ENABLE"
             n == vty[c].fail + 1
  <1>3. vty[c] \in Terminal /\ InOrder(vty[c]) /\ vty[c].up = TRUE
    BY <1>1, Connected
  <1>4. next \in {"VIEW", "ENABLE"} /\ n \in Nat
    BY <1>3, VtyAssumption DEF Terminal
  <1>5. vty[c].node \notin ConfigNodes
    BY <1>1, NodeSets DEF AuthNodes
  <1>6. x.config = vty[c].config /\ (x.up => InOrder(x))
    <2>1. CASE good
      <3> DEFINE g == vty[c].gave \/ vty[c].node = "AUTH"
      <3>1. x = [vty[c] EXCEPT !.fail = 0, !.node = next, !.gave = g]
        BY <2>1 DEF vty_auth
      <3>2. g \in BOOLEAN
        OBVIOUS
      <3>3. 0 \in 0..(MaxFail - 1)
        BY VtyAssumption
      <3>4. g <=> vty[c].gave \/ vty[c].node = "AUTH"
        OBVIOUS
      <3> HIDE DEF g, next
      <3>5. x \in Terminal /\ x.config = vty[c].config /\ x.up = vty[c].up /\ x.asked = vty[c].asked
            /\ x.gave = g /\ x.node = next
        BY <1>3, <1>4, <3>1, <3>2, <3>3, NodeSets DEF Terminal
      <3> HIDE DEF x
      <3> QED BY <1>3, <1>4, <1>5, <3>4, <3>5, NodeSets DEF InOrder
    <2>2. CASE ~good /\ n < MaxFail
      <3>1. x = [vty[c] EXCEPT !.fail = n]
        BY <2>2 DEF vty_auth
      <3>2. n \in 0..(MaxFail - 1)
        BY <1>4, <2>2, VtyAssumption
      <3>3. x \in Terminal /\ x.config = vty[c].config /\ x.up = vty[c].up /\ x.asked = vty[c].asked
            /\ x.gave = vty[c].gave /\ x.node = vty[c].node
        BY <1>3, <3>1, <3>2 DEF Terminal
      <3> HIDE DEF x
      <3> QED BY <1>3, <3>3 DEF InOrder
    <2>3. CASE ~good /\ ~(n < MaxFail) /\ vty[c].node = "AUTH"
      <3>1. x = [vty[c] EXCEPT !.fail = n, !.up = FALSE]
        BY <2>3 DEF vty_auth
      <3>2. x.config = vty[c].config /\ x.up = FALSE
        BY <1>3, <3>1 DEF Terminal
      <3> QED BY <3>2
    <2>4. CASE ~good /\ ~(n < MaxFail) /\ vty[c].node # "AUTH"
      <3>1. x = [vty[c] EXCEPT !.fail = 0, !.node = "VIEW"]
        BY <2>4 DEF vty_auth
      <3>2. 0 \in 0..(MaxFail - 1)
        BY VtyAssumption
      <3>3. x \in Terminal /\ x.config = vty[c].config /\ x.up = vty[c].up /\ x.asked = vty[c].asked
            /\ x.gave = vty[c].gave /\ x.node = "VIEW"
        BY <1>3, <3>1, <3>2, NodeSets DEF Terminal
      <3> HIDE DEF x
      <3> QED BY <1>3, <1>5, <2>4, <3>3, NodeSets DEF InOrder
    <2> QED BY <2>1, <2>2, <2>3, <2>4
  <1>7. Becomes(c, x, vty_config)
    BY <1>2
  <1> HIDE DEF x
  <1> QED BY <1>1, <1>6, <1>7, BecameKept

\* A new connection.
LEMMA NewConnection ==
  ASSUME Connections, NEW c \in Conns, telnet_new_connection(c)
  PROVE  Connections'
  <1>1. c \notin conns /\ UNCHANGED <<vty_config, password_check>>
        /\ password_check \in BOOLEAN /\ LockFits(vty, vty_config) /\ vty[c] \in Terminal /\ InOrder(vty[c])
    BY DEF telnet_new_connection, Connections
  <1>2. CASE password_check /\ host.password = "unset"
    <2>1. UNCHANGED <<vty, conns>>
      BY <1>2 DEF telnet_new_connection
    <2> QED BY <1>1, <2>1 DEF Connections
  <1>3. CASE ~(password_check /\ host.password = "unset")
    <2> DEFINE x == [NoVty EXCEPT !.node = FirstNode, !.up = TRUE, !.asked = password_check]
    <2>1. vty' = [vty EXCEPT ![c] = x] /\ conns' = conns \cup {c}
      BY <1>3 DEF telnet_new_connection
    <2>2. FirstNode \in {"AUTH", "VIEW", "ENABLE"} /\ (FirstNode # "AUTH" => ~password_check)
      BY DEF FirstNode
    <2>3. NoVty \in Terminal /\ NoVty.config = FALSE
      BY NoVtyInOrder
    <2>4. x \in Terminal /\ x.config = FALSE /\ x.up = TRUE /\ x.asked = password_check /\ x.node = FirstNode
      BY <1>1, <2>2, <2>3, NodeSets DEF Terminal
    <2> HIDE DEF x
    <2>5. InOrder(x)
      BY <2>2, <2>4, NodeSets DEF InOrder
    <2>6. ~vty[c].config
      BY <1>1 DEF InOrder, Connections
    <2>7. vty_config \in BOOLEAN /\ (vty_config <=> x.config \/ \E d \in Conns \ {c} : vty[d].config)
      BY <1>1, <2>4, <2>6 DEF LockFits
    <2> QED BY <1>1, <2>1, <2>4, <2>5, <2>7, TerminalChanged
  <1> QED BY <1>2, <1>3

\* All connections are closed.
LEMMA AllClosed ==
  ASSUME Connections, vty_reset
  PROVE  Connections'
  <1>1. vty' = [c \in Conns |-> NoVty] /\ vty_config' = FALSE /\ conns' = {} /\ UNCHANGED password_check
    BY DEF vty_reset
  <1>2. \A c \in Conns : vty'[c] = NoVty
    BY <1>1
  <1> QED BY <1>1, <1>2, NoVtyInOrder DEF Connections, LockFits

\* A setting.
LEMMA SettingStep ==
  ASSUME Connections, NEW c \in Conns, Setting(c)
  PROVE  Connections'
  <1>1. c \in conns /\ vty[c].node \in ConfigNodes /\ password_check' \in BOOLEAN
        /\ Becomes(c, [vty[c] EXCEPT !.node = "CONFIG"], vty_config)
    BY DEF Setting, Connections
  <1> QED BY <1>1, NodeMoved, NodeSets

\* Every step keeps the invariant.
LEMMA ConnectionsKept ==
  ASSUME Connections, [VtyNext]_vty_vars
  PROVE  Connections'
  <1>1. ASSUME NEW c \in Conns, Hangup(c) PROVE Connections'
    <2>1. password_check' \in BOOLEAN
      BY <1>1 DEF Hangup, Connections
    <2> QED BY <1>1, <2>1, Closed DEF Hangup
  <1>2. ASSUME NEW c \in Conns, Login(c) PROVE Connections'
    BY <1>2 DEF Login, Connections
  <1>3. ASSUME UNCHANGED vty_vars PROVE Connections'
    BY <1>3 DEF vty_vars, Connections
  <1> QED BY <1>1, <1>2, <1>3, NewConnection, PasswordStep, ModeStep, SettingStep, AllClosed DEF VtyNext

\* What the invariant says of the terminals.
LEMMA ConnectionsMean ==
  ASSUME Connections
  PROVE  OneConfigures
  <1>1. \A c \in Conns : vty[c] \in Terminal /\ InOrder(vty[c])
    BY DEF Connections
  <1>2. VtyTypeOK
    BY <1>1 DEF VtyTypeOK, Connections, LockFits, Terminal
  <1>3. \A c \in Conns : vty[c].config <=> c \in Configuring
    BY <1>1 DEF Configuring, InOrder, Connections
  <1>4. Configuring \subseteq Conns
    BY DEF Configuring, Connections
  <1>5. LockHeld
    BY <1>3, <1>4 DEF LockHeld, Connections, LockFits
  <1>6. Admitted
    BY <1>1 DEF Admitted, InOrder, Connections
  <1> QED BY <1>2, <1>5, <1>6 DEF OneConfigures

\* One terminal configures at a time and the lock is never left behind
\* (vty_config_lock, vty_config_unlock, vty_close), and a terminal that had to give
\* the password gave it (vty_auth): for any sockets and number of attempts.
THEOREM ConfiguresAlone == VtySpec => []OneConfigures
  <1>1. VtyInit => Connections
    <2> SUFFICES ASSUME VtyInit PROVE Connections OBVIOUS
    <2>1. \A c \in Conns : vty[c] = NoVty
      BY DEF VtyInit
    <2> QED BY <2>1, NoVtyInOrder DEF VtyInit, Connections, LockFits
  <1>2. Connections /\ [VtyNext]_vty_vars => Connections' BY ConnectionsKept
  <1>3. Connections => OneConfigures BY ConnectionsMean
  <1> QED BY <1>1, <1>2, <1>3, PTL DEF VtySpec

-----------------------------------------------------------------------------
(* The file: the invariant.                                                *)

\* Settings that the file can hold: the password and the question for it are
\* left as they are at the start.
Kept == {"name", "advanced", "motd"}
Good == [name : {"unset", "n1", "n2"}, login : {FALSE}, password : {"unset"}, advanced : BOOLEAN,
         motd : {"default", "none", "file"}]

\* A file that mkstemp made and nobody wrote to.
Empty == [ok |-> TRUE, whole |-> FALSE, lines |-> {}]
Files == {NoFile, Empty} \cup {Contents(r) : r \in Good}

FileTypes ==
  /\ run \in Good /\ was \in Files
  /\ disk \in [config : Files, sav : Files, tmp : Files]

\* Where the contents that the file had are while it is written, call by call.
Backup ==
  /\ disk = [n \in {"config", "sav", "tmp"} |-> disk[n]]
  /\ pc \in {"write", "unlink_sav", "link_sav", "unlink_config"} => disk.config = was
  /\ pc \in {"unlink_config", "link_config", "unlink_tmp", "chmod"} => (was.ok => disk.sav = was)
  /\ was.ok => disk.config = was \/ disk.sav = was

\* Where the new contents are.
Fresh ==
  /\ pc \in {"unlink_sav", "link_sav", "unlink_config", "link_config"} => disk.tmp = Contents(run)
  /\ pc \in {"unlink_tmp", "chmod"} => disk.config = Contents(run)
  /\ said = "saved" => pc = "idle" /\ disk.config = Contents(run)

\* What the file says comes back as it was.
LEMMA ReadBack ==
  ASSUME NEW r \in Good
  PROVE  vty_read_config_file(Contents(r)) = r
  <1> DEFINE D == {"name", "login", "password", "advanced", "motd"}
             W(g) == CASE g = "name"     -> r.name # "unset"
                       [] g = "password" -> r.password = "plain"
                       [] g = "advanced" -> r.advanced
                       [] g = "motd"     -> r.motd # "default"
                       [] g = "login"    -> ~r.login
             L == Lines(r)
             In(f) == \E l \in L : l[1] = f
  <1>1. DOMAIN Default = D
    BY DEF Default
  <1>2. r = [f \in D |-> r[f]]
    BY DEF Good
  <1>3. L = {<<f, r[f]>> : f \in {g \in D : W(g)}}
    BY <1>1 DEF Lines
  <1>4. /\ r.name # "unset" => W("name")
        /\ r.advanced => W("advanced")
        /\ r.motd # "default" => W("motd")
    OBVIOUS
  <1> HIDE DEF W, L
  <1>5. \A l \in L : l[1] \in D /\ l[2] = r[l[1]]
    BY <1>3
  <1>6. \A f \in D : W(f) => In(f)
    <2> SUFFICES ASSUME NEW f \in D, W(f) PROVE In(f) OBVIOUS
    <2>1. <<f, r[f]>> \in L BY <1>3
    <2>2. <<f, r[f]>>[1] = f OBVIOUS
    <2> QED BY <2>1, <2>2
  <1>7. \A f \in D : In(f) => (CHOOSE l \in L : l[1] = f)[2] = r[f]
    BY <1>5
  <1>8. \A f \in D : ~In(f) => r[f] = Default[f]
    <2>1. ~In("name") => r["name"] = Default["name"]
      BY <1>4, <1>6 DEF Default
    <2>2. ~In("advanced") => r["advanced"] = Default["advanced"]
      <3>1. r.advanced \in BOOLEAN BY DEF Good
      <3>2. ~In("advanced") => r.advanced = FALSE BY <1>4, <1>6, <3>1
      <3> QED BY <3>2 DEF Default
    <2>3. ~In("motd") => r["motd"] = Default["motd"]
      BY <1>4, <1>6 DEF Default
    <2>4. r["password"] = Default["password"] /\ r["login"] = Default["login"]
      BY DEF Good, Default
    <2> QED BY <2>1, <2>2, <2>3, <2>4
  <1>9. vty_read_config_file(Contents(r)) = [f \in D |-> IF In(f) THEN (CHOOSE l \in L : l[1] = f)[2] ELSE Default[f]]
    BY <1>1 DEF vty_read_config_file, Contents, L
  <1> HIDE DEF In
  <1> QED BY <1>2, <1>7, <1>8, <1>9

\* A program starts with settings that the file can hold.
LEMMA Started ==
  ASSUME NEW f \in Files
  PROVE  vty_read_config_file(f) \in Good
  <1>1. Default \in Good
    BY DEF Default, Good
  <1>2. Default = [g \in DOMAIN Default |-> Default[g]]
    BY DEF Default
  <1>3. CASE f = NoFile
    <2>1. ~f.ok BY <1>3 DEF NoFile
    <2> QED BY <1>1, <1>2, <2>1 DEF vty_read_config_file
  <1>4. CASE f = Empty
    <2>1. f.lines = {} BY <1>4 DEF Empty
    <2> QED BY <1>1, <1>2, <2>1 DEF vty_read_config_file
  <1>5. CASE f \in {Contents(r) : r \in Good}
    BY <1>5, ReadBack
  <1> QED BY <1>3, <1>4, <1>5 DEF Files

-----------------------------------------------------------------------------
(* The file: the steps.                                                    *)

\* What unlink finds in the error paths does not matter.
LEMMA Aborted ==
  ASSUME Backup, NEW t, Abort(t, disk)
  PROVE  /\ pc' = "idle" /\ said' = t /\ UNCHANGED <<run, was>> /\ Backup'
         /\ disk'.config = disk.config /\ disk'.sav = disk.sav /\ disk'.tmp \in {disk.tmp, NoFile}
  <1>1. pc' = "idle" /\ said' = t /\ UNCHANGED <<run, was>>
    BY DEF Abort, End
  <1>2. disk' = disk \/ disk' = [disk EXCEPT !.tmp = NoFile]
    BY DEF Abort
  <1>3. disk = [n \in {"config", "sav", "tmp"} |-> disk[n]]
    BY DEF Backup
  <1>4. /\ disk'.config = disk.config /\ disk'.sav = disk.sav /\ disk'.tmp \in {disk.tmp, NoFile}
        /\ disk' = [n \in {"config", "sav", "tmp"} |-> disk'[n]]
    BY <1>2, <1>3
  <1> QED BY <1>1, <1>4 DEF Backup

\* No call, no failure and no crash loses the file as it was.
LEMMA BackupKept ==
  ASSUME Backup, [ConfigNext]_config_vars
  PROVE  Backup'
  <1> DEFINE Names(d) == d = [n \in {"config", "sav", "tmp"} |-> d[n]]
  <1>1. Names(disk)
    BY DEF Backup
  <1>2. ASSUME NEW x, NEW n \in {"config", "sav", "tmp"}, disk' = [disk EXCEPT ![n] = x]
        PROVE  Names(disk') /\ disk'[n] = x /\ \A m \in {"config", "sav", "tmp"} \ {n} : disk'[m] = disk[m]
    BY <1>1, <1>2
  <1>3. ASSUME Change \/ Chmod \/ Crash \/ Start \/ UNCHANGED config_vars PROVE Backup'
    <2>1. disk' = disk /\ was' = was /\ (pc' = pc \/ pc' \in {"idle", "down"})
      BY <1>3 DEF Change, Chmod, Crash, Start, End, config_vars
    <2> QED BY <2>1 DEF Backup
  <1>4. ASSUME WriteFile PROVE Backup'
    <2>1. CASE pc' = "write" /\ disk' = [disk EXCEPT !.tmp = Empty] /\ was' = disk.config
      BY <1>2, <2>1 DEF Backup
    <2>2. CASE pc' = "idle" /\ UNCHANGED <<disk, was>>
      BY <2>2 DEF Backup
    <2> QED BY <1>4, <2>1, <2>2 DEF WriteFile, Empty
  <1>5. ASSUME Flush PROVE Backup'
    <2>1. pc = "write" /\ pc' = "unlink_sav" /\ was' = was
      BY <1>5 DEF Flush, Goto
    <2>2. PICK x : disk' = [disk EXCEPT !.tmp = x]
      BY <1>5 DEF Flush
    <2> QED BY <1>2, <2>1, <2>2 DEF Backup
  <1>6. ASSUME UnlinkSav PROVE Backup'
    <2>1. pc = "unlink_sav"
      BY <1>6 DEF UnlinkSav
    <2>2. CASE disk' = [disk EXCEPT !.sav = NoFile] /\ Goto(IF disk.config.ok THEN "link_sav" ELSE "link_config")
      <3>1. was' = was /\ pc' = IF disk.config.ok THEN "link_sav" ELSE "link_config"
        BY <2>2 DEF Goto
      <3> QED BY <1>2, <2>1, <2>2, <3>1 DEF Backup
    <2> QED BY <1>6, <2>2, Aborted DEF UnlinkSav
  <1>7. ASSUME LinkSav PROVE Backup'
    <2>1. pc = "link_sav"
      BY <1>7 DEF LinkSav
    <2>2. CASE disk' = [disk EXCEPT !.sav = disk.config] /\ Goto("unlink_config")
      <3>1. was' = was /\ pc' = "unlink_config"
        BY <2>2 DEF Goto
      <3> QED BY <1>2, <2>1, <2>2, <3>1 DEF Backup
    <2> QED BY <1>7, <2>2, Aborted DEF LinkSav
  <1>8. ASSUME UnlinkConfig PROVE Backup'
    <2>1. pc = "unlink_config"
      BY <1>8 DEF UnlinkConfig
    <2>2. CASE disk' = [disk EXCEPT !.config = NoFile] /\ Goto("link_config")
      <3>1. was' = was /\ pc' = "link_config"
        BY <2>2 DEF Goto
      <3> QED BY <1>2, <2>1, <2>2, <3>1 DEF Backup
    <2> QED BY <1>8, <2>2, Aborted DEF UnlinkConfig
  <1>9. ASSUME LinkConfig PROVE Backup'
    <2>1. pc = "link_config"
      BY <1>9 DEF LinkConfig
    <2>2. CASE disk' = [disk EXCEPT !.config = disk.tmp] /\ Goto("unlink_tmp")
      <3>1. was' = was /\ pc' = "unlink_tmp"
        BY <2>2 DEF Goto
      <3> QED BY <1>2, <2>1, <2>2, <3>1 DEF Backup
    <2> QED BY <1>9, <2>2, Aborted DEF LinkConfig
  <1>10. ASSUME UnlinkTmp PROVE Backup'
    <2>1. pc = "unlink_tmp" /\ disk' = [disk EXCEPT !.tmp = NoFile] /\ was' = was /\ pc' = "chmod"
      BY <1>10 DEF UnlinkTmp, Goto
    <2> QED BY <1>2, <2>1 DEF Backup
  <1> QED BY <1>3, <1>4, <1>5, <1>6, <1>7, <1>8, <1>9, <1>10 DEF ConfigNext

\* Before the first write the file is as it is.
LEMMA BackupFirst ==
  ASSUME ConfigInit
  PROVE  Backup
  <1>1. PICK c \in {NoFile, Contents(Default)}, t \in {NoFile, Contents(Default)} :
          disk = [config |-> c, sav |-> t, tmp |-> NoFile]
    BY DEF ConfigInit
  <1>2. disk = [n \in {"config", "sav", "tmp"} |-> disk[n]]
    BY <1>1
  <1> QED BY <1>2 DEF ConfigInit, Backup

\* The file as it was before a write is there, under its name or as the backup
\* (write_config_file): whatever calls fail, the write of the lines too, and
\* whenever the machine stops.
THEOREM FileNeverLost == ConfigSpec => []NeverLost
  <1>1. ConfigInit => Backup BY BackupFirst
  <1>2. Backup /\ [ConfigNext]_config_vars => Backup' BY BackupKept
  <1>3. Backup => NeverLost BY DEF Backup, NeverLost
  <1> QED BY <1>1, <1>2, <1>3, PTL DEF ConfigSpec

\* What is written stays what the user set, as long as the lines themselves are
\* written.
LEMMA FreshKept ==
  ASSUME Backup, FileTypes, Fresh, [ConfigNext]_config_vars,
         Fields \subseteq Kept, "write" \notin Failures
  PROVE  FileTypes' /\ Fresh'
  <1>1. /\ run \in Good /\ was \in Files
        /\ disk.config \in Files /\ disk.sav \in Files /\ disk.tmp \in Files
        /\ disk \in [config : Files, sav : Files, tmp : Files]
    BY DEF FileTypes
  <1>2. NoFile \in Files /\ Empty \in Files /\ Contents(run) \in Files
    BY <1>1 DEF Files
  <1>3. ASSUME NEW x \in Files, NEW n \in {"config", "sav", "tmp"}, disk' = [disk EXCEPT ![n] = x]
        PROVE  /\ disk' \in [config : Files, sav : Files, tmp : Files]
               /\ disk'[n] = x /\ \A m \in {"config", "sav", "tmp"} \ {n} : disk'[m] = disk[m]
    BY <1>1, <1>3
  <1>4. ASSUME NEW t, t # "saved", Abort(t, disk) PROVE FileTypes' /\ Fresh'
    <2>1. disk' = disk \/ disk' = [disk EXCEPT !.tmp = NoFile]
      BY <1>4 DEF Abort
    <2>2. disk' \in [config : Files, sav : Files, tmp : Files]
      BY <1>1, <1>2, <1>3, <2>1
    <2>3. pc' = "idle" /\ said' = t /\ UNCHANGED <<run, was>>
      BY <1>4, Aborted
    <2> QED BY <1>1, <1>4, <2>2, <2>3 DEF FileTypes, Fresh
  <1>5. ASSUME Change PROVE FileTypes' /\ Fresh'
    <2>1. PICK f \in Fields : \E x \in Values[f] : run' = [run EXCEPT ![f] = x]
      BY <1>5 DEF Change
    <2>2. PICK x \in Values[f] : run' = [run EXCEPT ![f] = x]
      BY <2>1
    <2>3. run' \in Good
      <3>1. CASE f = "name"
        <4>1. x \in {"unset", "n1", "n2"} BY <3>1 DEF Values
        <4> QED BY <1>1, <2>2, <3>1, <4>1 DEF Good
      <3>2. CASE f = "advanced"
        <4>1. x \in BOOLEAN BY <3>2 DEF Values
        <4> QED BY <1>1, <2>2, <3>2, <4>1 DEF Good
      <3>3. CASE f = "motd"
        <4>1. x \in {"default", "none", "file"} BY <3>3 DEF Values
        <4> QED BY <1>1, <2>2, <3>3, <4>1 DEF Good
      <3> QED BY <3>1, <3>2, <3>3 DEF Kept
    <2>4. pc = "idle" /\ said' = "nothing" /\ UNCHANGED <<disk, pc, was>>
      BY <1>5 DEF Change
    <2> QED BY <1>1, <2>3, <2>4 DEF FileTypes, Fresh
  <1>6. ASSUME WriteFile PROVE FileTypes' /\ Fresh'
    <2>1. CASE pc' = "write" /\ disk' = [disk EXCEPT !.tmp = Empty] /\ said' = "nothing" /\ was' = disk.config
               /\ UNCHANGED run
      <3>1. disk' \in [config : Files, sav : Files, tmp : Files]
        BY <1>2, <1>3, <2>1
      <3> QED BY <1>1, <2>1, <3>1 DEF FileTypes, Fresh
    <2>2. CASE pc' = "idle" /\ said' = "failed" /\ UNCHANGED <<disk, was, run>>
      BY <1>1, <2>2 DEF FileTypes, Fresh
    <2> QED BY <1>6, <2>1, <2>2 DEF WriteFile, Empty
  <1>7. ASSUME Flush PROVE FileTypes' /\ Fresh'
    <2>1. pc = "write" /\ pc' = "unlink_sav" /\ UNCHANGED <<run, said, was>>
      BY <1>7 DEF Flush, Goto
    <2>2. disk' = [disk EXCEPT !.tmp = Contents(run)]
      BY <1>7 DEF Flush, May
    <2>3. disk' \in [config : Files, sav : Files, tmp : Files] /\ disk'.tmp = Contents(run)
      BY <1>2, <1>3, <2>2
    <2> QED BY <1>1, <2>1, <2>3 DEF FileTypes, Fresh
  <1>8. ASSUME UnlinkSav PROVE FileTypes' /\ Fresh'
    <2>1. pc = "unlink_sav"
      BY <1>8 DEF UnlinkSav
    <2>2. CASE disk' = [disk EXCEPT !.sav = NoFile] /\ Goto(IF disk.config.ok THEN "link_sav" ELSE "link_config")
      <3>1. UNCHANGED <<run, said, was>> /\ pc' \in {"link_sav", "link_config"}
        BY <2>2 DEF Goto
      <3>2. disk' \in [config : Files, sav : Files, tmp : Files] /\ disk'.tmp = disk.tmp
        BY <1>2, <1>3, <2>2
      <3> QED BY <1>1, <2>1, <3>1, <3>2 DEF FileTypes, Fresh
    <2> QED BY <1>4, <1>8, <2>2 DEF UnlinkSav
  <1>9. ASSUME LinkSav PROVE FileTypes' /\ Fresh'
    <2>1. pc = "link_sav"
      BY <1>9 DEF LinkSav
    <2>2. CASE disk' = [disk EXCEPT !.sav = disk.config] /\ Goto("unlink_config")
      <3>1. UNCHANGED <<run, said, was>> /\ pc' = "unlink_config"
        BY <2>2 DEF Goto
      <3>2. disk' \in [config : Files, sav : Files, tmp : Files] /\ disk'.tmp = disk.tmp
        BY <1>1, <1>3, <2>2
      <3> QED BY <1>1, <2>1, <3>1, <3>2 DEF FileTypes, Fresh
    <2> QED BY <1>4, <1>9, <2>2 DEF LinkSav
  <1>10. ASSUME UnlinkConfig PROVE FileTypes' /\ Fresh'
    <2>1. pc = "unlink_config"
      BY <1>10 DEF UnlinkConfig
    <2>2. CASE disk' = [disk EXCEPT !.config = NoFile] /\ Goto("link_config")
      <3>1. UNCHANGED <<run, said, was>> /\ pc' = "link_config"
        BY <2>2 DEF Goto
      <3>2. disk' \in [config : Files, sav : Files, tmp : Files] /\ disk'.tmp = disk.tmp
        BY <1>2, <1>3, <2>2
      <3> QED BY <1>1, <2>1, <3>1, <3>2 DEF FileTypes, Fresh
    <2> QED BY <1>4, <1>10, <2>2 DEF UnlinkConfig
  <1>11. ASSUME LinkConfig PROVE FileTypes' /\ Fresh'
    <2>1. pc = "link_config"
      BY <1>11 DEF LinkConfig
    <2>2. CASE disk' = [disk EXCEPT !.config = disk.tmp] /\ Goto("unlink_tmp")
      <3>1. UNCHANGED <<run, said, was>> /\ pc' = "unlink_tmp"
        BY <2>2 DEF Goto
      <3>2. disk' \in [config : Files, sav : Files, tmp : Files] /\ disk'.config = disk.tmp
        BY <1>1, <1>3, <2>2
      <3> QED BY <1>1, <2>1, <3>1, <3>2 DEF FileTypes, Fresh
    <2> QED BY <1>4, <1>11, <2>2 DEF LinkConfig
  <1>12. ASSUME UnlinkTmp PROVE FileTypes' /\ Fresh'
    <2>1. pc = "unlink_tmp" /\ disk' = [disk EXCEPT !.tmp = NoFile] /\ pc' = "chmod"
          /\ UNCHANGED <<run, said, was>>
      BY <1>12 DEF UnlinkTmp, Goto
    <2>2. disk' \in [config : Files, sav : Files, tmp : Files] /\ disk'.config = disk.config
      BY <1>2, <1>3, <2>1
    <2> QED BY <1>1, <2>1, <2>2 DEF FileTypes, Fresh
  <1>13. ASSUME Chmod PROVE FileTypes' /\ Fresh'
    BY <1>13 DEF Chmod, End, FileTypes, Fresh
  <1>14. ASSUME Crash PROVE FileTypes' /\ Fresh'
    BY <1>14 DEF Crash, FileTypes, Fresh
  <1>15. ASSUME Start PROVE FileTypes' /\ Fresh'
    <2>1. run' = vty_read_config_file(disk.config) /\ pc' = "idle" /\ said' = "nothing" /\ UNCHANGED <<disk, was>>
      BY <1>15 DEF Start
    <2>2. run' \in Good
      BY <1>1, <2>1, Started
    <2> QED BY <1>1, <2>1, <2>2 DEF FileTypes, Fresh
  <1>16. ASSUME UNCHANGED config_vars PROVE FileTypes' /\ Fresh'
    BY <1>16 DEF config_vars, FileTypes, Fresh
  <1> QED BY <1>5, <1>6, <1>7, <1>8, <1>9, <1>10, <1>11, <1>12, <1>13, <1>14, <1>15, <1>16 DEF ConfigNext

\* An answer that the configuration is saved is true, and it comes back with the
\* next start (write_config_file, vty_read_config_file): whatever calls fail but
\* the write of the lines, whose result nobody looks at, and for the settings that
\* config_write_host and vty_config_write write.
THEOREM SavedComesBack ==
  ASSUME Fields \subseteq Kept, "write" \notin Failures
  PROVE  ConfigSpec => []ConfigKept
  <1> DEFINE FileInv == Backup /\ FileTypes /\ Fresh
  <1>1. ConfigInit => FileInv
    <2> SUFFICES ASSUME ConfigInit PROVE FileInv OBVIOUS
    <2>1. Default \in Good BY DEF Default, Good
    <2>2. NoFile \in Files /\ Contents(Default) \in Files BY <2>1 DEF Files
    <2>3. PICK c \in {NoFile, Contents(Default)}, t \in {NoFile, Contents(Default)} :
            disk = [config |-> c, sav |-> t, tmp |-> NoFile]
      BY DEF ConfigInit
    <2>4. disk \in [config : Files, sav : Files, tmp : Files] /\ disk.config \in Files
      BY <2>2, <2>3
    <2>5. FileTypes BY <2>1, <2>4 DEF ConfigInit, FileTypes
    <2>6. Fresh BY DEF ConfigInit, Fresh
    <2> QED BY <2>5, <2>6, BackupFirst
  <1>2. FileInv /\ [ConfigNext]_config_vars => FileInv'
    BY BackupKept, FreshKept
  <1>3. FileInv => ConfigKept
    <2> SUFFICES ASSUME FileInv PROVE ConfigKept OBVIOUS
    <2>1. NeverLost BY DEF Backup, NeverLost
    <2>2. SavedIsWhole BY DEF Fresh, SavedIsWhole
    <2>3. RoundTrip BY ReadBack DEF Fresh, FileTypes, RoundTrip
    <2> QED BY <2>1, <2>2, <2>3 DEF ConfigKept
  <1> HIDE DEF FileInv
  <1> QED BY <1>1, <1>2, <1>3, PTL DEF ConfigSpec
=============================================================================
