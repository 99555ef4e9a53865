# gsm-parser, libosmocore and libasn1c: a TLA+ verification project

The repository holds gsm-parser, which reads what the baseband of a phone logs
(Qualcomm DIAG packets, or the bursts of a GSM recorder), puts the layer 3 messages
of GSM, UMTS and LTE back together, groups them into transactions ("sessions") and
writes one database row per session, short message and cell; and the two libraries
it is built with: libosmocore (the GSM protocol stack, the command line and the
memory allocator) and libasn1c (the ASN.1 codecs). This directory holds TLA+ modules
translated from their C sources, TLC configurations that check them on small
instances, and proofs checked by TLAPS.

`PROJECT.json` names, for every definition that models code, the source lines it
translates ("map"), the runs and their properties, the places of the code each
property is about ("hazards"), for each property one plausible bug that violates it
("mutants"), and the main theorems. A helper whose lines lie within those of a definition
of the same module that uses it has no entry of its own.

## 1. Inventory

gsm-parser is single threaded. What makes it hard is the order of its input: the
messages of two domains, two directions and three radio technologies interleave,
frames are missing or logged twice, a session can end in many ways, and pointers to
messages and cells are kept across calls that free them. The protocols of libosmocore
are hard for the usual reasons: messages are lost, timers race answers, both sides
start a procedure at once. The decoders of libasn1c get their input in pieces and go
on where they stopped.

| Part | State | Operations | Interacts with |
|---|---|---|---|
| Sessions (`session.c`) | `_s[CS]`, `_s[PS]`, the id counter `s_id`; per session the message list, the short messages, `new_msg`, flags, the last stored message | `session_init`, `session_reset`, `session_close`, `session_destroy`, `link_to_msg_list` | called by every protocol handler; writes rows through the SQL callback |
| Message handling (`l3_handler.c`, `umts_rrc.c`, `lte_eps.c`, `sms.c`) | none of its own | `handle_radio_msg`, `handle_dtap`, `handle_cc/mm/rr/gmm/sm/ss/sms`, `handle_dcch_*`, `handle_ccch_*`, `handle_eps` | starts, resets and closes sessions; links or frees the message |
| LAPDm reassembly (`handle_lapdm`) | four `lapdm_buf` per channel, kept over resets | one frame | gives complete messages to `handle_dtap` |
| Cells and paging (`cell_info.c`) | cell list, id counter, paging counters, time of the last dump; `ci` of a session | `handle_sysinfo`, `handle_paging1/2/3`, `cell_and_paging_dump`, `cell_init`, `cell_destroy` | called from `handle_rr` and once per packet from `handle_diag` |
| DIAG input (`diag_input.c`, `diag_import.c`) | `now`; ids handed from file to file | `diag_init`, `handle_diag`, `diag_destroy`, `process_file` | allocates messages, calls `handle_radio_msg` |
| Padding check (`rand_check.c`) | last frames and counters of a session | `update_counters`, `rand_check` | reported in the session row |
| RLC/MAC (`rlcmac.c`) | 64 TBFs of 128 blocks | `rlc_data_handler`, `process_blocks` | gives LLC frames to the network output |
| Bursts (`process.c`, `ccch.c`, `cch.c`, `gprs.c`, `tch.c`, `sch.c`) | burst buffers of the session | collect bursts, decode blocks | feeds `handle_radio_msg` and RLC/MAC |
| Coding (`viterbi.c`, `crc.c`, `punct.c`, `gsm_interleave.c`) | none | Viterbi, parities, FIRE code, interleaving | used by the collectors |
| LAPD, LAPDm (`lapd_core.c`, `lapdm.c`) | per data link V(S), V(R), V(A), history, state, T200, T203; per entity queues | primitives of layer 3, frames of layer 1, timers | the LAPDm entity owns two data links |
| Network service (`gprs_ns.c`) | list of NS-VCs, state, timer mode | RESET, BLOCK, UNBLOCK, ALIVE and their answers, timers | carries BSSGP |
| BSSGP (`gprs_bssgp*.c`) | BVC contexts, flow control buckets | BVC procedures, suspend, resume, flow control | uses NS |
| Short message service (`gsm0411_smc.c`, `gsm0411_smr.c`) | two state machines and their timers per transaction | CP and RP messages, MM connection | MM below, the application above |
| VTY (`vty/*.c`) | terminal, line, history, output buffer, nodes, lock, configuration file | keys, reads, writes, commands, write file | socket loop |
| talloc (`talloc.c`) | tree of chunks with references and pools | alloc, free, steal, reference, unlink, realloc | everywhere |
| BER, PER, XER (`libasn1c`) | decoding context of a structure | decode a piece, encode | RRC of gsm-parser |
| Importers, output, database scripts, `assignment.c`, `address.c` | I/O or none | | not modelled |

What makes each part correct is written at its properties (section 4); where it can
go wrong is the list of hazards in `PROJECT.json`.

## 2. Modules

A definition named after a C function models that function. Operators introduced as a
"faulty variant" are not part of a model: each is what a plausible bug would make of
the definition below it, and shows that a property notices.

| Module | Models |
|---|---|
| `Session` | the two sessions and the life of a radio message (`auto_reset = 1`) |
| `Lapdm` | reassembly of LAPDm frames of interleaved streams in four buffers |
| `CellInfo` | cell list, paging counters, the session's cell, the cell table |
| `Rlc` | blocks of a TBF, their window and ageing, LLC PDUs |
| `Padding` | the statistics on padding bits and the commands that change the cipher |
| `Bursts`, `Pdch` | collection of bursts of control channels and of the SACCH of traffic channels; of packet channels |
| `Coding` | parities, interleaving, puncturing, multiframes, the synchronisation burst; bounded inputs for them |
| `Viterbi`, `FireCode` | the soft decision decoder and the correcting code of control blocks |
| `LapdCore` | operators: what each frame, primitive and timer does to a LAPD data link |
| `LapdLink` | two data links and the link between them |
| `LapdService` | what acknowledged operation promises to layer 3 (abstract) |
| `LapdmEntity` | the LAPDm entity: two data links, queues, polling, frame formats |
| `GprsNs` | operators: NS PDUs and timers on a list of NS-VCs |
| `NsTable`, `NsLink` | one NS instance with arbitrary peers; a BSS and an SGSN over UDP |
| `Bssgp`, `BssgpFc` | BVC procedures; the two leaky buckets of the flow control |
| `Sms411` | two stations of the short message service, both layers |
| `VtyEdit`, `VtyLine`, `VtyStream` | line editor; a user; the bytes of a telnet client |
| `VtyCommand`, `Vty`, `VtyTelnet`, `VtyConfig` | command parser; several terminals and the lock; output; the configuration file |
| `Talloc` | chunks, references, destructors, pools; strings |
| `Ber`, `PerBits`, `Uper`, `Xer` | the three codecs |
| `MCRadio`, `MCLapd`, `MCGb`, `MCVty`, `MCTalloc`, `MCCodecs` | compositions for TLC |
| `SessionProofs`, `CellInfoProofs`, `LapdmProofs`, `LapdmEntityProofs`, `GbProofs`, `VtyProofs`, `Sms411Proofs`, `RadioProofs` | theorems |

### How the compositions work

The parts of a composition do not call each other; they are put together so that one
run asks one question of a whole layer. An MC module is the sum of its parts: `part`
says which one a behaviour is of and never changes. Most parts are INSTANCEs of a
component's module with constants of their own ("The parts" at the head of the MC module,
where all bounds are), and the variables a part does not have are 0. A property of the
composition is then a conjunction `part = "..." => ...` of properties of the parts.
`MCRadio` EXTENDS `Bursts`, `Pdch` and `Padding`, `MCLapd` EXTENDS `LapdmEntity`, `MCGb`
EXTENDS `NsTable`, `Bssgp` and `BssgpFc`, and `MCVty` EXTENDS `Vty` and `VtyConfig`:
their constants get their values in the .cfg, and they rest in an initial state when
their part does not run. `Lossless`, `PdchResync`, `PaddingMeasured`, `CommandKept`,
`HasContext`, `NsvcUnique`, `BvcAgreed`, `FlowConserved`, `OneConfigures` and `ConfigKept`
are therefore the components' own definitions, the ones the theorems of `RadioProofs`,
`LapdmEntityProofs`, `GbProofs` and `VtyProofs` state. Where
components do interact, the module of the component contains the interaction: `LapdLink`
has two copies of `LapdCore`, `LapdmEntity` two data links and their queues, `NsLink` two
copies of `GprsNs`, `Sms411` the SMC and SMR of two stations, `Session` the handlers of
all protocols, `CellInfo` the session's pointer into the list.

### State and actions

*Session.* One step is one radio message, from its allocation to the end of
`handle_radio_msg`, or the begin (`session_init`) or end (`session_destroy`) of a file.
Nested C calls become operators on a record `w`, the state in the middle of a step. A
message is its heap address; `live` is the set of allocated addresses, and an address
can be allocated again after it was freed, so that a dangling pointer is a pointer to
another message. Reading through a null or stale pointer, freeing twice, and the
assertions of `session_reset` and `handle_radio_msg` are recorded in `faults`. `s[d]` keeps
of `struct session_info` what the control depends on: `service` stands for
`sms_presence`, `call_presence`, `lu_acc` and `lu_reject`, `moved` for `mo` and `mt`, which
the code reads only as these disjunctions. `rows` is what `session_close` gives to the
SQL callback; short messages are numbered in the order they are stored. A handler is a
case distinction over the message types that reset, start or mark a session; the others
are `OTHER`. Repeated messages (`is_double`) are dropped as in the code; the comparison
of contents is a choice. `handle_4G` of `diag_input.c` allocates a message before it looks at
the protocol, and returns without freeing it when that is LTE RRC: the address is then in
`lost`, on no list, for ever.

*Lapdm.* The channel's four buffers, and for every stream (direction and SAPI) a sender
that cuts messages into at most `MaxFrag` frames, numbered modulo 8. A frame can be
lost, heard again, and the link can be established again by SABM. `Heard`, with
`BufferOf`, `OutOfSequence`, `Refuse`, `Pass` and `Add`, is `handle_lapdm`. Frames are known
by their place in the stream modulo `Span`, a multiple of 8; a message that is put
together is reduced to whether its frames follow each other exactly (`intact`) or by
their numbers (`follow8`) and whether it has its start (`whole`). A reset of the session
copies the buffers, so that they outlive sessions; the module therefore has no reset.

*CellInfo.* One step is one packet: `handle_diag` calls `cell_and_paging_dump` with the
packet's time, then handles the message. Types of system information fall into two
classes: those of the broadcast channel, where a known content is only counted, and
types 5 to 6, which belong to the session's cell. `ci` is the session's pointer, as the id
of the cell. `db` and `sqlerr` are the table `cell_info`; times are unsigned words.

*Rlc, Bursts, Pdch, Padding.* One step is one block, burst or frame that is heard,
missed or repeated. What a block or burst is (its PDU, its place in its block) is carried
along, so that what comes out can be compared with what was sent. The collectors are
modelled as `process_handle_burst` and `process_pdch` call for them; in this repository
nothing calls either (`process.c:59`, `61` are commented out). Where a decoder of soft bits
is given hard ones (CS1, `gprs.c:171`) nothing is decoded.

*LapdCore, LapdLink, LapdmEntity.* A data link is a record; `lapd_ph_data_ind`,
`lapd_recv_dlsap`, `lapd_t200_cb` and `lapd_t203_cb` are operators that give the new record,
the frames sent and the primitives given to layer 3. A payload is a value: `Short` are those
of less than N201 octets, a sequence of two is one longer than N201. `LapdLink` adds two channels that keep
the order and lose frames. `acc`, `got` and `excused` record what layer 3 gave, what it got,
and whether an event of the link excuses a gap. `LapdmEntity` adds the queues of the two
SAPIs, the pending frames and `PH-RTS`.

*GprsNs, NsTable, NsLink, Bssgp, BssgpFc.* An NS-VC is a record of NSVCI, NSEI, address,
state flags and timer mode, the list is a sequence. `NsTable` takes any PDU from any
address; `NsLink` runs the procedures of both sides, with losses and restarts on another
port. The Gb timers are actions. Two guards are about users outside the repository, and the
code has no such check: an operator connects only an NSVCI that is not in use
(`NsTable.Connect`), and the user of a BSS waits for the end of a BVC's procedure before it
starts the next (`Bssgp.Free`; BLOCK, UNBLOCK and BLOCK sent at once can leave the two sides
with different states). `BssgpFc` has one bucket of an MS and one of the BVC in
front of which it stands, times in ticks.

*Sms411.* Both stations have an SMC and an SMR state machine and their timers; the MM
connection between them can be refused or lost and loses messages. A handler is a function
from stations to stations; what a station hands to the MM layer and to its user in a step
is in its record until the step is over, when `TakeOf` passes it on.

*Vty\*.* `VtyEdit` is one operator per editing function on the line buffer, its cursor and
what the terminal shows. `VtyConfig` makes each system call of `config_write_file` a step
that can fail or be the last before the machine stops.

*Talloc.* Chunks are records with the pointers of `struct talloc_chunk`. `talloc_free` calls
destructors, which call talloc again, so a step is one entry of an explicit stack.

*Ber, PerBits, Uper, Xer.* Decoders and encoders as operators on a context, over a set of
types built from the constructors of the library, and good, cut and spoilt inputs.

## 3. Runs

| Run | States | Properties | What it asks |
|---|---|---|---|
| `session` | 112 621 | `Ownership`, `NoFault`, `RowIdsUnique`, `SmsFollowSession`, `StartedIsReported` | life of messages, ids and reports, over two files |
| `lapdm` | 155 655 | `Intact`, `NoGap`, `Resync` | reassembly with repetition and loss |
| `cells` | 716 256 | `CellListConsistent`, `PagingConserved` | cells and paging over two files |
| `radio` | 1 052 294 | `Lossless`, `PdchResync`, `CodesCorrect`, `PdusReassembled`, `PaddingMeasured` | bursts to blocks, the codes, RLC and the padding |
| `lapd` | 405 987 | `CommandKept`, `HasContext`, `Implements`, `Acknowledged`, `Progress` | data links with losses, against the service |
| `gb` | 125 854 | `NsvcUnique`, `BvcAgreed`, `FlowConserved`, `Recovers`, `Drains` | NS and BSSGP |
| `vty` | 291 584 | `LineShown`, `CommandsAgree`, `OneConfigures`, `ConfigKept`, `Delivered` | the command line |
| `talloc` | 453 047 | `TreeWhole`, `StringsHeld`, `FreeKeepsAndEnds` | the allocator |
| `sms411` | 30 316 | `ReportsTrue`, `Orderly`, `Finishes` | the short message service |
| `codecs` | 171 919 | `BerWhole`, `PerWhole`, `XerWhole` | the codecs |
| `lapdm_shared` | violated | `Intact` | two streams that share a buffer |
| `cells_end` | violated | `DestroyEmptiesList` | the dump at the end of a file |

### Bounds

- *Session.* Two addresses let one session own a message while another is handled, and
  let a freed address be allocated again while the old pointer still dangles. `MaxRows`
  and `MaxSid` let a session be reported in each of two files that follow each other. One
  short message is enough to be lost or to be reported twice. The theorems hold for any
  number of each.
- *Lapdm.* `Span = 16` tells a frame from the one eight places later. Three
  fragments, a loss and a repetition give messages without start, middle or end;
  numbers wrap, since streams go on for ever. Proved for all values.
- *CellInfo.* The clock has times within an interval, an interval apart, and more than a
  day apart in both directions. Two contents and three ids allow a cell to be found, to be
  made and to be dropped in favour of the session's own. Proved for all values.
- *Radio.* Each collector hears more than two rounds of its channel (`MaxFN = 48`) and misses
  up to three bursts (`MaxMiss`): enough to begin and end inside a block. Five frames (`MaxFrames`) of padding
  change twice. All this is proved for all values. The codes are checked on shorter blocks
  with all patterns of up to two wrong bits, the FIRE code on a whole control block with any
  two wrong bits within eleven. RLC has block numbers modulo 16 and one TFI, of which eight
  blocks are sent, so that numbers do not wrap there.
- *LAPD.* Sequence numbers modulo 2 or 4 wrap within two messages; a window of two frames
  needs modulo 4. Two losses can hit a frame and its repetition, or a frame and its answer.
  What `LapdmEntity` promises about one entity is proved for all values.
- *Gb.* Two NS-VCs and two addresses let a peer take the number or the address of another;
  five losses (`MaxLost`) hit a procedure and its repetitions and are one more than it takes for
  both sides to give up their tests. One retry of ALIVE instead of ten. What
  `NsTable`, `Bssgp` and `BssgpFc` promise is proved for all values.
- *Sms411.* Two submissions and one loss, one retransmission (`MaxRetr`) instead of two.
- *VTY.* A buffer of 8 or 10 octets instead of 512, and a history of one or two lines instead
  of 20: the ring and the doubling are reached by few keys. Two terminals; proved for any
  number of them, as is the safety of the configuration file.
- *talloc.* Four chunks, of which one may be a reference handle; three with pools.
- *Codecs.* BER lengths of the 32-bit build. PER fragments have a unit of 4 instead of 16K
  (`Unit`), at most 2 units (`MaxFrag`) and a long form from 3 on (`Long`); the stream's
  buffer has 8 octets instead of 32. XER integers have one octet instead of eight
  (`LongSize`), dumps two per row instead of 8 or 16 (`Row`).

Deadlock is checked only where the system cannot stop; bounded inputs end.

### Fairness

- `Session`: an open file is closed some time (`process_file` always reaches
  `diag_destroy`); nothing is assumed about which messages come.
- `Lapdm`: senders go on and what is not lost is heard. Losses, repetitions and
  re-establishments are bounded, not fair.
- `LapdLink`, part "answers": frames on the way arrive and T200 expires. In the parts
  marked `Patient` T200 expires only when the answer can no longer come: the code's T200 is
  longer than the way there and back. The part "any" lets timers expire at any time.
- `LapdmEntity`: layer 1 asks for a frame again and again (`PH-RTS`).
- `NsLink`: timers that run expire (strong fairness, since an answer may stop one before),
  PDUs that are not lost arrive.
- `BssgpFc`: time goes on, a timer that is due expires; the settings change finitely often.
- `VtyTelnet`: the select loop reports a socket that is ready, the client reads.
- `Talloc`: a call that has begun goes on.
- `Sms411`: timers that run expire, messages that are not lost are delivered.

## 4. What the runs show

- *Sessions*: every message that `handle_radio_msg` is given has one owner and is freed once; no pointer to a freed message
  is used; every session that starts is reported once, with its short messages, under an
  id of its own, over all input files.
- *LAPDm*: a reassembled message consists of consecutive frames of one stream for every
  interleaving, repetition and re-establishment as long as streams do not share a buffer;
  after a loss fragments are joined only in the order of their numbers, and reassembly
  gets back into step.
- *Cells*: a row is inserted once and updated after that; the session's pointer into the
  list is valid; one cell per content; each paging identity is counted and written once.
- *LAPD*: `Implements` is a refinement: with `accepted <- acc`, `delivered <- got` every step
  of two entities with losses is a step of `LapdService` or leaves its variables alone; with
  it goes `LinksKept`: what may be asked for again is in the history, and T200 runs for it.
  `CommandKept`: a SABM or DISC that waits for its answer can be sent again.
- *Bursts and codes*: a complete recording gives every block in one piece; after missed bursts
  the packet channels get back into step (the control channels need not, `ccch.c:128`). The
  FIRE code corrects two wrong bits within eleven at every place of the block but one: eleven
  bits that begin at bit 2.
- *Gb*: both sides come back to a link that is up, or all their tests were lost and neither has
  a timer (`gprs_ns.c:533-546`); after a restart of the BSS only that there is one NS-VC for it.
- *VTY*: reads may be cut inside a window size or an escape sequence, not between a telnet
  command and its option (`vty.c:1300`). What a file does, the terminal does, unless a node
  below knows the line as an abbreviation: `cmd_execute_command` climbs with abbreviations
  (`command.c:2083`), `config_from_file` without (`command.c:2227`).
- *Codecs*: types with one tag in BER; in PER an older receiver is served only with one unknown
  addition of a multiple of three octets; in XER integers that do not begin with a letter.
- *Others*: see the comment above each property in the MC modules. A comment that promises
  less than one might expect names the line that breaks the rest.

### Findings

Two runs show a disagreement between the code and its own comments:

- `lapdm_shared`: `handle_radio_msg` passes `&chan[ul]` and `handle_lapdm` takes element
  `!!sapi` of it. Uplink SAPI 0 and downlink SAPI 3 both get element 1; element 3 of the
  four is never used. A measurement report on the uplink SACCH during the reception of a
  short message is enough to splice the two.
- `cells_end`: `cell_destroy` dumps with the time 0; the unsigned difference to the last
  time is taken for a clock that is out of sequence, and the function returns before it
  writes or frees. What was heard since the last dump is lost, and the list is only
  emptied because `cell_init` makes a new head.

Other disagreements met while modelling. The models contain this behaviour; the constants
and properties of the runs are chosen, or weakened as their comments say, so that it is
not what they are about:

| Place | What the code does |
|---|---|
| `lapd_core.c:859` | SABM in DISC_SENT is answered by DM and stops T200: a lost DISC is not repeated |
| `lapd_core.c:863` | SABM in timer recovery is answered by UA, but V(S), V(R), V(A) and the history stay |
| `lapd_core.c:879` | SABM in MF_EST drops the history, but the message being segmented goes on |
| `lapd_core.c:1034` | a DISC that is a response or has a payload flushes the history, with a command that waits in it, before it is refused |
| `lapdm.c:501` | on the ACCH `update_pending_frames` takes the timing advance for the control field |
| `gprs_ns.c:733` | a replaced NS-VC loses its address but stays alive, data goes to address 0 |
| `gprs_ns.c:537` | after the last retry of a test no timer is started: two sides that both gave up stay dead |
| `gprs_ns.c:1282`, `1285` | an UNBLOCK ACK revives a dead NS-VC without a timer, and ends a reset whose timer goes on |
| `gprs_bssgp.c:69`, `206` | a cell that moves back is not found; RESUME NACK is sent as SUSPEND NACK |
| `gprs_bssgp.c:618` | a PDU that finds the queue full is neither queued nor freed |
| `gprs_bssgp.c:654`, `662` | rates below 100 leak nothing; a bucket that leaked empty is not written back |
| `gsm0411_smr.c:271` | an RP message of an unknown kind is refused, but the connection it came with is not released |
| `gsm0411_smc.c:393` | an abort leaves `cp_timer` running |
| `rlcmac.c:105` | after a gap the tail of a PDU is given on as a PDU |
| `rlcmac.c:251` | a TBF that starts closes that of the next TFI |
| `rlcmac.c:285` | numbers of the next round are refused while the old block is young |
| `ccch.c:119`, `128` | after missed bursts the collectors stay out of step |
| `diag_input.c:210` | the radio message allocated for a packet of LTE RRC is neither freed nor linked |
| `tch.c:141`, `gprs.c:171` | FACCH and CS1 blocks give hard bits to `decode_signalling`, which takes soft ones; `tch.c:144`: `memcpy` on overlapping arrays |
| `gprs.c:143` | the count alone places a burst; the idle frame counts as a first burst |
| `crc.c:48` | a burst of eleven bits that begins at bit 2 is found one shift late and corrected wrongly; bursts of twelve bits are not corrected |
| `vty.c:442`, `485` | the grown half of the buffer is not cleared; a completed word is copied without `vty_ensure` |
| `vty.c:739`, `1633` | the oldest line of a full history: the way back from it, and its display |
| `vty.c:842`, `851`, `924` | `^Z` keeps the line and stays in some nodes; deleting a word in an authentication node does not end |
| `vty.c:1302` | a telnet option cut by the end of a read is taken for keys |
| `vty.c:135` | in the advanced mode a hidden enable password counts as none: the terminal gets to ENABLE without it |
| `vty.c:150`, `1654`, `command.c:612` | hidden passwords and `login` do not survive `write file` |
| `command.c:1570` | the status of a description with a vararg is not set |
| `command.c:2083`, `2227` | a line in a file is tried in the nodes above without abbreviations, one at the terminal with them |
| `command.c:2446` | a full disk is not noticed when the configuration is written |
| `telnet_interface.c:160` | a connection refused for want of a password is freed twice |
| `talloc.c:401`, `1051` | a pool inside a pool; the count of a pool after `talloc_realloc` |
| `talloc.c:560`, `579`, `750` | stale `prev`; references of the null context; its end; a reference from a grandchild in `talloc_unlink` |
| `ber_decoder.c:77` | a run of tags cut by the end of the buffer forgets its limits |
| `constr_CHOICE.c:324` | an octet 0 followed by another than 0 makes the loop go round for ever |
| `per_opentype.c:280` | unknown extensions are skipped only in multiples of three octets |
| `per_support.c:259`, `OCTET_STRING.c:1268`, `1628` | numbers from 64 on; the largest character; a string of whole fragments |
| `constr_SEQUENCE.c:1208` | of several unknown additions only the first is skipped |
| `constr_SEQUENCE.c:1218`, `1363`, `constr_CHOICE.c:959` | defaults of additions; root members after extensions; canonical order |
| `INTEGER.c:401`, `462` | the overflow check; text that begins with a letter |
| `constr_SET_OF.c:710`, `constr_SEQUENCE_OF.c:125` | tags of elements without text are not counted |
| `OCTET_STRING.c:1009`, `1079`, `xer_decoder.c:271` | the reference `&#0;`; a stray angle; escapes in an element of that name |
| `constr_SEQUENCE.c:727` | an extension named like its structure ends it |

Behaviour worth knowing that contradicts no statement of the repository:

- `((mb->ns - ns) % 8) < 2` (`l3_handler.c:1107`) is computed on `int`, so that it tests the
  signed difference. Of the frames out of sequence only some count towards giving up a
  stale fragment; it can wait for a whole round of numbers and then be joined to a frame
  eight places later. `NoGap` states what does hold under loss, `Resync` that it ends.
- `Resync` asks that from some point on every message that comes out is whole. One variable
  `out` stands for all streams, so that a stream that goes on can hide one that is stuck. Null I frames
  (`l3_handler.c:1133`) are not in the streams.
- A child whose destructor refuses for ever keeps `talloc_free` of its parent in its loop when
  there is nowhere to hand it to (`talloc.c:566`).
- `gprs_ns_nsip_connect` (`gprs_ns.c:1528`) does not check that the NSVCI is unused.
- After a jump of the clock the paging counters are kept but divided by the time since
  the jump.

## 5. Proofs

All theorems hold for every value of the constants that satisfies the named assumption
of the modules (`SessionAssumption`, `CellAssumption`, `LapdmAssumption`, `NsAssumption`,
`TableAssumption`, `BssgpAssumption`, `FcAssumption`, `VtyAssumption`, `Sms411Assumption`,
`Sms411LinkAssumption`, `EntityAssumed`, `BurstsAssumption`, `PdchAssumption`,
`PaddingAssumption`), which TLC evaluates on the constants of the runs. Numbers of sessions,
frames, bursts, short messages, losses, retries, NS-VCs, BVCs, terminals or settings are
not bounded by the proofs.

| Module | Theorem | States |
|---|---|---|
| `SessionProofs` | `TypeCorrect`, `MessagesOwned`, `FaultFree`, `RowIdsNeverRepeat`, `SmsNeverLost` | `Spec => []TypeOK`, `[]Ownership`, `[]NoFault`, `[]RowIdsUnique`, and the action property `SmsFollowSession` |
| `CellInfoProofs` | `TypeCorrect`, `ListAgreesWithRows`, `PagingIsConserved` | `Spec => []TypeOK`, `[]CellListConsistent`, `[]PagingConserved` |
| `LapdmProofs` | `NumbersWithoutGap`, `MessagesIntact` | `Spec => [](TypeOK /\ NoGap)`; `Spec => []Intact` when no two streams share a buffer (`Separate`) |
| `LapdmEntityProofs` | `ContextKnown`, `NothingWaits`, `FramesAcknowledged`, `EstablishmentSupervised`, `CommandsKept` | `EntitySpec => []HasContext`, `[]Direct`; the action property `Acknowledged` on every channel but an ACCH; `EntitySpec => []EstSupervised`; `EntitySpec => []CommandKept` when every DISC that comes is well formed (`DiscEmpty`) |
| `RadioProofs` | `BlocksInOnePiece`, `PacketBlocksResync`, `PaddingIsMeasured` | `CcchSpec => []Lossless`, `PdchSpec => []PdchResync`, `PadSpec => []PaddingMeasured` |
| `GbProofs` | `IdentitiesUnique`, `BvcsAgree`, `FlowIsConserved` | `NsSpec => []NsvcUnique`, `BssgpSpec => []BvcAgreed`, `FcSpec => []FlowConserved` |
| `VtyProofs` | `ConfiguresAlone`, `FileNeverLost`, `SavedComesBack` | `VtySpec => []OneConfigures`; `ConfigSpec => []NeverLost`; `ConfigSpec => []ConfigKept` when the settings are among those that are written and the write of the lines does not fail |
| `Sms411Proofs` | `ReportsAreTrue`, `NothingAmiss`, `StaysOrderly` | `Spec => []ReportsTrue` and `Spec => [](NeverHappens /\ Connected /\ LastThing)` when a station is destroyed with its connection (`Destroy`); `Spec => []Orderly` when also no RP message is of an unknown kind |

*Session.* `IInv` adds to the properties what they do not say themselves: between two
messages `_s[CS].new_msg` is null and no session is marked closed; ids in use are at most
`s_id`, differ, and have not been reported; a reported id is below `s_id`. What `handle_4G`
loses is live, on no list and never at hand (`lost`). It says nothing
about `_s[PS].new_msg`, which dangles after almost every message; the proof shows that this
is harmless since every use is preceded by `handle_radio_msg` setting it or by a caller
clearing it. A step passes through states in which the invariant does not hold, so the
proof works on the record `w`. `Held(w)`: the message at hand is live, on no list, and
`_s[CS].new_msg` points to it. `Gone(w)`: there is no message at hand, or a release has freed
it. `Both(w)`: `Held`, and the packet switched session points to the message too, which
`handle_gmm` and `handle_sm` need. `BeginBoth` and `CarryBoth` establish `Both`; one lemma per
handler shows that it leads from there to `Held` or `Gone`; `ResetForced`, `ResetRelease` and
`ResetGone` say what the three uses of `session_reset` do; `FinishGone` shows that the end of
`handle_radio_msg` gives `Gone`, from which `IInv` follows. `SmsNeverLost` is about two states,
so it needs `Carried(w)`, which relates the middle of a step to the state in which the step
began: the short messages a started session had then are still in it, or in a row written
since. Every operator keeps `Carried`; only `session_close` exchanges the one for the other.

*CellInfo.* The invariant adds that ids of listed cells are below the counter and unique,
that a cell is marked stored just when its row is in the table, and that a cell of the
session's file is found by its id. The dump is the step that needs it: it inserts the
cells that are not stored, which is in order only because no row has their id.

*Lapdm.* `IInv` describes every buffer by the stream that owns it: the fragments in it are the
frames before the next number expected, counted back in the stream. For `Intact` it also
says that the buffer expects the next frame of its stream as long as nothing was lost;
`Separate` is what makes "its stream" well defined, and `lapdm_shared` shows what happens
without it. The code's own choice of buffers satisfies `Separate` for all streams but one
pair: uplink SAPI 0 and downlink SAPI 3.

*LAPDm entity.* Neither `HasContext` nor `Acknowledged` says enough about a data link to be
kept by a step. `IInv` says of each link that it has a context, or is idle and T200 does not
run (`Linked`), that V(R) is in range, that every frame that waits is a record of a frame
with a channel, and, without polling, that none waits (`Direct`). The operators of `LapdCore`
are functions on links, so the proof has one lemma for each of them: from a link that is
`Sound` they lead to one that is `Sound`, and with the V(R) it had (`Goes`), except for
SABM and UA, which establish the link, and for an I frame in sequence, after which a frame
with the new V(R) waits (`IFrameTaken`: RR, RNR, an I frame that was just sent, or one that
waited and that `update_pending_frames` changed). `FrameIdle` says that nothing but the
establishment, after which the context is known, makes an idle link start T200; it needs
that LAPDm does not re-establish (`lapdm.c:125`, an assumption on the constants).
`lapd_send_i` is a loop, in the model a function that is defined by recursion on the number
of rounds. What it does is proved by induction: `LeastNat` (a set of numbers has a least
one) follows from the well-foundedness of the natural numbers, `UpToAll` is induction for a
set, `RoundsExist` shows that the recursive definition has a solution, and `SendsI` that every
round of it keeps the frames that wait and sends I frames with V(R) only. On an ACCH the
octet that `update_pending_frames` changes is the timing advance (`lapdm.c:500`), and
`FramesAcknowledged` does not hold; hence its hypothesis.

*Commands.* `lapd_send_resend` takes SABM or DISC from the history at V(S) without a check, so
every frame and every primitive that can come while the command waits must leave it there.
`CommandKept` is close to inductive: `Tried` adds only that the number of repetitions is in
range and makes the history's part depend on `DiscEmpty`. A step either leaves the five
members of the link alone that T200 needs (`Same`), or ends in a state without a command
(`OtherwiseTried`), or sends a command of its own, which starts from an empty history; one
lemma per operator of `LapdCore` says which. The one exception is a malformed DISC (a response, or with a payload):
`lapd_rx_u` flushes the history (`lapd_core.c:1034`) before it looks at the frame, and the
command that waits is lost while T200 runs on. Hence the hypothesis of `CommandsKept`.
`EstablishmentSupervised`, which says nothing about the history, needs none.

*Bursts.* `Lossless` speaks of what was just decoded. `CcchInv` says what the four buffers
hold. Whatever was missed (`Holds`): at most three bursts, each as it was sent for that
buffer, and on a dedicated channel frames in a row of one direction, because
`process_ccch` empties the buffer otherwise. While nothing was missed (`Ready`): the first
bursts of one block, begun at most a multiframe ago, and the next burst for the buffer is
the one it waits for. The assumption on a channel (`Channel`) is the order in which a
multiframe sends the bursts of a block; that the hyperframe is a whole number of
multiframes is what lets the argument pass the wrap of the frame number.

*Packet channels.* `PdchInv` relates the buffer to the block on the air: a block heard from its
first burst leaves at least as many bursts in the buffer as were heard, so that at its end
the buffer is empty; one heard whole after another that was heard whole is therefore there
from its first burst, in order (`BurstOf`), and the flags that are put together are those of
its scheme. That is what the theorem states; CS2 to CS4 are then decoded, CS1 is not.

*Padding.* `PadInv` says of each kind of frame that what the code remembers is what was seen
last, counted from the end, that octets known to have changed are counted once, and that
state marked as ciphered was stored under a cipher (else the code aborts).
The code compares from the start of the part in common, the property from the end of the
frame; `SameCount` shows by a bijection that both count the same.

*NS.* `Table` says of a list of NS-VCs that every entry is well formed, that no two have the
same NSVCI or the same address, and that one in the reset procedure has a timer. One lemma
per PDU and timer shows that the operator of `GprsNs` turns a `Table` into a `Table`. The PDU
that needs it is the RESET with another NSVCI from a known address: an NS-VC that has the
number gets the address and the old one loses it; only when there is none is the old one
renumbered. The operator's `Connect` is taken with a number that is not in use.

*BSSGP.* The states of a BVC at the two sides differ while a procedure runs, so `BvcAgreed`
is not inductive. `Agreement` adds what is on the way: at most one PDU of a BVC's procedure
(`OneAtATime`), a request is what was asked last, and an acknowledgement is true of the
SGSN's context (`Genuine`). That there is at most one is
the assumption on the user (`Free`). Repetitions after a loss are then harmless, since a repeated
request is the one the context has already followed.

*Flow control.* The five places of a PDU (two queues, sent, freed, lost) partition the PDUs
offered; a queue that is not empty has its timer running. The proof goes through each of
the ways `bssgp_fc_in` and `fc_timer_cb` can move a PDU from one bucket to the next.

*VTY.* `Connections` says that a terminal is marked as configuring just when it is in a node
of the configuration, that one which was asked for the password has given it or is still
in the authentication node, and that the lock is taken just when one terminal is marked.
Commands, keys, closes and timeouts each keep it; the close of a terminal in the middle of
its configuration is the step that must give the lock back.

*Configuration file.* `Backup` follows the sequence of system calls: at every step between
the creation of the temporary file and the last unlink, the old contents are under the
name of the file or of its backup. It needs no hypothesis. `Fresh` adds that the temporary
file is what was configured when it was closed; for this `SavedComesBack` has two hypotheses,
both of them facts of the code and listed in section 4: the result of writing the lines is
not looked at (`command.c:2446`), and passwords that are hidden and `login` are not written
(`vty.c:150`).

*Short messages.* Neither property is inductive: that a report is of the right message
depends on what is still on its way, and on what both stations wait for. The invariant is
built on one fact: the message `n` goes over the connection `n` and no other, so that a
message, an answer or a release that comes late has the number of a connection that is
over. `OneIs` lists the four states station 1 can be in between two steps, with the state of
its connection and the number of reports (one less than messages while there is a
transaction); `TwoIs` does the same for station 2 and for the message its user has not
answered. `WayToOne` and `WayToTwo` say that CP-DATA carries the message or the answer of its
connection, and an acknowledgement only when it was accepted. From these, `Told`: the i-th
report is of the i-th message. One lemma per event (`CpAck`, `CpError`, `Unexpected`,
`GetsAnswer`, `CpExpires`, `RpExpires` and so on) computes what the two layers make of a station
in one step through all their calls of each other; `OneTakes` and `TwoTakes` pass on what the
step left in the record. `Destroy` is a hypothesis, since `gsm0411_smc.c:44` leaves it open and
without it `cp_timer` runs on after an abort (`gsm0411_smc.c:393`). `StaysOrderly` needs the
other hypothesis because `gsm411_mnsms_est_ind` refuses a message of an unknown kind without
releasing the connection it came with (the third case of `TwoIs`).

### Only model-checked

- Liveness (`StartedIsReported`, `Resync`, `Progress`, `Recovers`, `Drains`,
  `Finishes`, and the second halves of `Delivered` and `FreeKeepsAndEnds`): fairness is out
  of the prover's reach.
- Everything about `Ber`, `PerBits`, `Uper`, `Xer`, `Talloc`, `VtyEdit` and
  `VtyCommand`, which are written with recursive operators: the prover has no SMT backend in a
  module that reaches one. (Recursive functions are within reach, as `lapd_send_i` shows.)
- The codes of `Coding`, `Viterbi` and `FireCode`, whose properties are about particular
  tables and polynomials.
- `PdusReassembled`: `process_blocks` walks over the blocks of a TBF and adds up what it has;
  what the walk gives for every TBF is an induction over its data.
- `Implements`, that is the refinement of `LapdService` and, in `LinksKept`, the window of LAPD.
  It is about two entities and what is on the way between them, under timers that expire
  only when the answer can no longer come (`Patient`). Nothing in it is out of reach in
  principle; the lemmas of `LapdmEntityProofs` on `LapdCore` are what a proof would begin with.

## 6. Not modelled

- Contents: identities, numbers, texts, cell parameters, ARFCN lists, frequency
  assignments (`assignment.c`, `address.c`). They are copied into rows and decide nothing.
- The offline mode `auto_reset = 0` of `db_import`, with `session_create` and
  `session_free`; the other importers; console, network, SQLite and MySQL output; the
  database scripts.
- The authentication and cipher times of a session, and the two corrections of them at
  the end of `handle_lapdm` (`l3_handler.c:1102`); the contents compared by `is_double`
  (`l3_handler.c:949`, `968`), of which only the outcome is a choice; the division by the
  elapsed time (`cell_info.c:140`); the name of a file that is cut (`session.c:853`); the
  length checks of DIAG packets (`diag_import.c:97`). No property is about them.
- The FACCH collector (`tch.c`): its call is commented out (`process.c:59`), and it gives hard
  bits to `decode_signalling`, which takes soft ones, so that no block is decoded. The
  messages that the block decoders allocate and do not link (`ccch.c:146-170`, `tch.c:151`) are
  of code that nothing calls. Soft demodulation is not in the repository; the tables of
  the EGPRS schemes.
- libosmocore: message buffers, the timer list, the select loop, logging, field decoders,
  frame relay, `VTY` commands that only print, talloc's reports.
- libasn1c: constraint checks, printing, freeing, REAL, times, ANY, strings of wide
  characters;
  `uper_open_type_get_complex`, `uper_ugot_refill` and `per_skip_bits`, which no build uses;
  `field_unsigned` in XER.
