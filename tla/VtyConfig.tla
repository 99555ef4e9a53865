----------------------------- MODULE VtyConfig -----------------------------
(***************************************************************************)
(* The settings of a program, the file they are written to with "write     *)
(* file" and read from at the start (command.c, vty.c), with calls that    *)
(* fail and a machine that stops between two of them.                      *)
(***************************************************************************)
EXTENDS Integers, Sequences

CONSTANTS
  Fields,      \* settings that users make
  Failures     \* calls that may fail

VARIABLES
  run,      \* settings of the running program
  disk,     \* names of the directory: config, sav, tmp -> contents or NoFile
  pc,       \* next call of write_config_file, "idle" without one, "down" while the program does not run
  said,     \* what the user was told last
  was       \* contents of the file when the write began

config_vars == <<run, disk, pc, said, was>>

NoFile == [ok |-> FALSE]
\* hidden: set with "password 8 X"
Values == [name |-> {"unset", "n1", "n2"}, login |-> BOOLEAN, password |-> {"plain", "hidden"},
           advanced |-> BOOLEAN, motd |-> {"default", "none", "file"}]
\* cmd_init and the static variables of vty.c
Default == [name |-> "unset", login |-> FALSE, password |-> "unset", advanced |-> FALSE, motd |-> "default"]

\* The lines that config_write_host and vty_config_write put out, as the
\* settings they make when they are read again.
Lines(r) ==
  {<<f, r[f]>> : f \in {g \in DOMAIN Default :
     CASE g = "name"     -> r.name # "unset"
       [] g = "password" -> r.password = "plain"     \* host.encrypt is never set
       [] g = "advanced" -> r.advanced
       [] g = "motd"     -> r.motd # "default"
       [] g = "login"    -> ~r.login}}

Contents(r) == [ok |-> TRUE, whole |-> TRUE, lines |-> Lines(r)]

\* config_from_file on a program that has just started.
vty_read_config_file(file) ==
  [f \in DOMAIN Default |->
     IF file.ok /\ \E l \in file.lines : l[1] = f THEN (CHOOSE l \in file.lines : l[1] = f)[2] ELSE Default[f]]

-----------------------------------------------------------------------------

Change ==
  /\ pc = "idle"
  /\ \E f \in Fields : \E x \in Values[f] : run' = [run EXCEPT ![f] = x]
  /\ said' = "nothing" /\ UNCHANGED <<disk, pc, was>>

Goto(l) == pc' = l /\ UNCHANGED <<run, said, was>>
End(s) == pc' = "idle" /\ said' = s /\ UNCHANGED <<run, was>>
May(call) == call \in Failures

\* config_write_file, up to mkstemp.
WriteFile ==
  /\ pc = "idle"
  /\ \/ pc' = "write" /\ disk' = [disk EXCEPT !.tmp = [ok |-> TRUE, whole |-> FALSE, lines |-> {}]]
        /\ said' = "nothing" /\ was' = disk.config
     \/ May("mkstemp") /\ pc' = "idle" /\ said' = "failed" /\ UNCHANGED <<disk, was>>
  /\ UNCHANGED run

\* The nodes write their lines to a VTY of the file; vty_close flushes it and
\* nobody looks at the result.
Flush ==
  /\ pc = "write"
  /\ \E whole \in {TRUE} \union (IF May("write") THEN {FALSE} ELSE {}) :
       disk' = [disk EXCEPT !.tmp = IF whole THEN Contents(run) ELSE @]
  /\ Goto("unlink_sav")

\* The name of the temporary file is given back before it is used in the error
\* paths: what unlink finds there is not known.
Abort(s, d) ==
  /\ \E gone \in BOOLEAN : disk' = IF gone THEN [d EXCEPT !.tmp = NoFile] ELSE d
  /\ End(s)

UnlinkSav ==
  /\ pc = "unlink_sav"
  /\ \/ disk' = [disk EXCEPT !.sav = NoFile] /\ Goto(IF disk.config.ok THEN "link_sav" ELSE "link_config")
     \/ disk.sav.ok /\ May("unlink") /\ Abort("failed", disk)

LinkSav ==
  /\ pc = "link_sav"
  /\ \/ disk' = [disk EXCEPT !.sav = disk.config] /\ Goto("unlink_config")
     \/ May("link") /\ Abort("failed", disk)

\* Faulty variant of UnlinkConfig: the backup goes with the file.
UnlinkConfigOn ==
  /\ pc = "unlink_config"
  /\ disk' = [disk EXCEPT !.config = NoFile, !.sav = NoFile] /\ Goto("link_config")

UnlinkConfig ==
  /\ pc = "unlink_config"
  /\ \/ disk' = [disk EXCEPT !.config = NoFile] /\ Goto("link_config")
     \/ May("unlink") /\ Abort("failed", disk)

LinkConfig ==
  /\ pc = "link_config"
  /\ \/ disk' = [disk EXCEPT !.config = disk.tmp] /\ Goto("unlink_tmp")
     \/ May("link") /\ Abort("failed", disk)

UnlinkTmp == pc = "unlink_tmp" /\ disk' = [disk EXCEPT !.tmp = NoFile] /\ Goto("chmod")

Chmod ==
  /\ pc = "chmod"
  /\ \/ End("saved")
     \/ May("chmod") /\ End("failed")
  /\ UNCHANGED disk

\* The machine stops at any time.
Crash == pc # "down" /\ pc' = "down" /\ said' = "nothing" /\ UNCHANGED <<run, disk, was>>

Start ==
  /\ pc = "down" /\ pc' = "idle"
  /\ run' = vty_read_config_file(disk.config)
  /\ said' = "nothing" /\ UNCHANGED <<disk, was>>

ConfigInit ==
  /\ run = Default /\ pc = "idle" /\ said = "nothing"
  /\ disk \in {[config |-> c, sav |-> s, tmp |-> NoFile] : c, s \in {NoFile, Contents(Default)}}
  /\ was = disk.config

ConfigNext ==
  \/ Change \/ WriteFile \/ Flush \/ UnlinkSav \/ LinkSav \/ UnlinkConfig \/ LinkConfig
  \/ UnlinkTmp \/ Chmod \/ Crash \/ Start

ConfigSpec == ConfigInit /\ [][ConfigNext]_config_vars

-----------------------------------------------------------------------------
(* Properties.                                                             *)

\* Whatever fails and whenever the machine stops: the file as it was before is
\* there, under its name or as the backup.
NeverLost == was.ok => was \in {disk.config, disk.sav}

\* An answer that the configuration is saved means that the file has it.
SavedIsWhole == said = "saved" => disk.config = Contents(run)

\* What was saved comes back with the next start.
RoundTrip == said = "saved" => vty_read_config_file(disk.config) = run

\* Whichever of mkstemp, unlink, link and chmod fails, and whenever the machine
\* stops while the configuration is written, the file as it was before is there,
\* under its name or as the backup; an answer that it is saved means that the
\* file has it, and it comes back with the next start (config_write_file,
\* vty_read_config_file).  The last two are said of writes of the lines that
\* succeed ("write" is not in Failures: nobody looks at the result of vty_close,
\* command.c:2439) and of settings other than login and password (not in Fields:
\* vty.c:1654 writes login only when it is off, which is how the program starts,
\* and command.c:612 never writes a hidden password).
ConfigKept == NeverLost /\ SavedIsWhole /\ RoundTrip
=============================================================================
