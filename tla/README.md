# mhvtl: a verification project

mhvtl presents virtual tape drives and a virtual tape library to the SCSI layer
of Linux.  A kernel module stands for the SCSI adapter; one user-space daemon
per logical unit serves the commands; cartridges are directories of files.

This directory holds TLA+ models of the parts of mhvtl whose correctness depends
on the order of things: what a tape drive writes to the three files of a
partition and in which order, how an old cartridge is updated while it is loaded,
what a load and an unload record about the cartridge, what the library and the
drives tell each other, what the daemons share as they start and die, who holds a
reservation, under which key a block is recorded, and who ends a command in the
kernel.  TLC checks the models on small instances,
TLAPS proves nearly all of their safety properties for every instance.

## 1. Inventory

| component | code | state | operations | modelled in |
|---|---|---|---|---|
| cartridge store | `usr/vtlcart.c` | per partition: the files `data`, `indx`, `meta`; in memory the end of data, the filemark map, the header under the head | load, unload, write a block, write filemarks, erase (write EOD), format, read, rewind, locate, space, change partition | `Cartridge`, `CartridgeProps` |
| tape commands | `usr/ssc.c`, `usr/cmd/vtltape.c`, `usr/mhvtl_io.c` | write permission, write protection, load status, barcode in the mouth | the SSC handlers that reach the store, and the checks before them | `Cartridge` (with the store) |
| drive daemon | `usr/cmd/vtltape.c` | barcode, load status, "in a library", its message inbox; load delay, protection, append-only mode, the alarm | the messages lload, load, unload, set_empty, mount_state, Register and the switches; UNLOAD by the host | `Changer` (the protocol), `Drive` (the mounts) |
| medium changer | `usr/smc.c`, `usr/cmd/vtllibrary.c` | elements (full, medium, access), import/export door, the move in progress | MOVE MEDIUM in its four forms, OPEN/CLOSE IMPORT/EXPORT, the operator's messages, shutdown and restart | `Changer` |
| message queue | `usr/utils/q.c` | one System V queue; per receiver a FIFO | send, blocking and polling receive, creation and removal | `Changer` (its inboxes), `Presence` (its life) |
| kernel pseudo-adapter | `kernel/mhvtl.c` | the queue of commands of each LU (free, queued, in use), timers; the logical units | queuecommand, poll and get header, get/put data, abort, timeout, reset, add/remove LU | `CmdQueue`; `Presence` (add/remove LU) |
| reservations | `usr/spc.c`, `usr/ssc.c` | registered key, reservation type, generation, the SPC-2 reservation | PERSISTENT RESERVE IN/OUT, RESERVE, RELEASE | `Reservations` |
| medium auxiliary memory | `usr/ssc.c`, `usr/vtlcart.c` | the MAM record in two files and in memory: load count, dirty flag, protection, volume change reference | read/write attribute, updateMAM on load and unload | `Drive`; `Update` (its formats) |
| mode and log pages | `usr/mode.c`, `usr/mhvtl_log.c` | pages, TapeAlert flags, medium partition page | MODE SELECT/SENSE, LOG SELECT/SENSE | no: tables (two TapeAlert flags in `Drive`) |
| presence: locks, semaphore, daemon count, unit attention | `usr/vtllib.c`, `main()` of both daemons | lock files, the semaphore "/mhVTL", the count in shared memory, the reset flag | start, exit, give up, check_reset | `Presence`; `Reservations` (the reset flag) |
| encryption | `usr/cmd/vtltape.c`, `usr/ssc.c`, `usr/mhvtl_io.c`, `usr/pm/*` | key, modes, key associated data, a pointer to them; the key in each block header | SECURITY PROTOCOL IN/OUT, the recording and the comparison of keys | `Encryption` |
| compression and block CRC | `usr/mhvtl_io.c`, `minilzo.c`, `ccan` | none | compress, decompress, checksum | no: data transformations |
| old formats and their update | `usr/utils/mhvtl_update.c`, `usr/vtlcart.c` | the files of the formats 3 to 6 | update on load | `Update` |
| drive and library personalities | `usr/pm/*` | tables, the state of a cleaning cartridge | fill in pages and media lists; cleaning timer; rules for keys | `Drive` (cleaning), `Encryption` (keys); the rest are tables |
| configuration | `usr/vtllib.c`, `vtllibrary.c`, `vtltape.c` | `device.conf`, `library_contents`, `.persist` | parse, save on exit | the saving only (`Changer`) |
| utilities | `usr/cmd/*` | none of their own | send one message, edit, dump or create a cartridge | their messages (`Changer`, `Drive`), edit_tape (`Drive`) |
| scripts, web page, packaging | `scripts`, `webgui`, `etc`, `docker`, `vagrant` | none | start and stop | no |

How they interact.  The kernel queues a SCSI command; the daemon of the LU polls
it with an ioctl, runs the handler and puts the status back.  A daemon is one
thread: a loop that takes at most one message from the queue and then at most
one command.  The library sends requests to the drives' inboxes and waits for
*any* message in its own inbox as the answer; drives send "eject" to the
library's inbox without being asked, and so does the operator's tool `vtlcmd`.
The drive and the library keep a separate notion of where a cartridge is.

Hard behaviours, and what correctness means there:

* *store*: a handler is a sequence of file operations on three files, any of
  which can fail, with the daemon able to die between any two.  Acknowledged
  blocks must stay; the index, the data and the filemark map must describe one
  tape; SPACE and LOCATE must go where the index says although they consult
  the map; WORM and protected media must not change.
* *changer*: the answer to a request is not identified; two parties remember the
  position of a cartridge; either can restart.  The inventory must hold each
  cartridge once, agree with the drives, and a cartridge must not be mounted in
  two drives; every move must end.
* *kernel*: a command can be answered, aborted and timed out concurrently.  It
  must come back to the mid level, with its own answer; its entry must be freed
  once and not be used afterwards.
* *update*: an update is a dozen system calls; after a failure or a kill the next
  load must find the blocks, the index and the attributes, and in the end mount
  the cartridge in the present format.
* *drive*: attributes are in memory and in two files, and two timers share one
  alarm; after any kill a host must be able to tell whether the medium changed,
  and nothing of the cartridge before may apply to this one.
* *presence*: daemons start, exit and die in any order; a drive must be served by
  one process, the queue must not be removed under a running one, and nobody may
  wait forever for one that died.
* *reservations*: a host knows only its key and a generation; what it was told it
  has must stay until somebody takes it, and a generation must tell a change.
* *encryption*: keys are set and blocks are written and read by different commands,
  with a pointer and arrays in between; a block must be recorded under the key in
  force, and be read under that one only.

## 2. The models

### Cartridge (`Cartridge.tla`)

The store of one cartridge and the SSC handlers that use it, in one process.

| in the model | in the code |
|---|---|
| `data`, `indx`, `mfile` | the files `data.<p>`, `indx.<p>`, `meta.<p>`; a block is a run of cells, a header is `struct raw_header` |
| `torn` | a header of which only a part was written |
| `head.pos`, `head.okw` | `raw_pos` (`c_pos` points into it) and `OK_to_write` |
| `eod`, `fmap` | `eod_blk_number[]`, `eod_data_offset[]`; `filemarks[][]` with `filemark_count` |
| `status`, `wp`, `fds` | `get_tape_load_status()`, `lu_ssc.MediaWriteProtect`, the open file descriptors |
| `op` | the handler in progress: which, and before which file operation it stands |
| `acked`, `suspect`, `failures` | history only: what the host was told is recorded; partitions `load_partition()` called corrupt; the failures so far |

A handler that writes is cut at every `pwrite()`, `ftruncate()` and `close()`:
`StartWrite` does everything up to the first one (the checks of `ssc.c`
included), then each `FileStep` is one file operation with the code that follows
it.  The `...Fails` actions are the same operation failing, with what the code
does about it, and `Crash` is the end of the process: the files stay, the memory
is lost.  The files survive the process and are never lost with the page cache: a
power failure and `fsync()` are not modelled.  Handlers that only move the head
(REWIND, LOCATE, SPACE, READ) are one action each, since nothing else runs in
the daemon.  Loading reads the files and writes none, and so is one action,
`Load`, with `load_partition()` as operators on the files.

`TapeMedium.tla` is what a cartridge promises: each partition is a log of items
under one head; items are recorded at the end only, and recording elsewhere
first discards the rest.  `CartridgeProps` holds the properties and the
refinement mapping: the log of a partition is what its *index* describes.  That
the index alone decides is why a handler of up to six file operations is still,
for a reader of the medium, a discard and a record.

Abstractions.  A WRITE is one block (the handler loops over blocks, each a call
of `write_tape_block()`); the payload is one value repeated over its cells;
compression, encryption and checksums are left out; so are a cartridge the drive
does not support, a medium of `MEDIA_TYPE_NULL`, and WRITE FILEMARKS with count
0, which writes nothing.  FORMAT is one step (it unlinks and creates files; a
failure in its middle is left for later).  A failed call fails before it changes
the file, but for `pwrite()` of a header, which may write a part of it.

### Changer (`Changer.tla`)

The library daemon, the drive daemons and the message queue.

| in the model | in the code |
|---|---|
| `holds` | `s_info.media`, with the Full bit |
| `access`, `last` | `STATUS_Access` and `last_location` of a drive element |
| `open` | `cap_closed` |
| `move` | where the library stands in MOVE MEDIUM: the `msgrcv()` it is in |
| `inbox` | the messages of one type (receiver) in the System V queue |
| `barcode`, `mounted`, `inLibrary` | the drive daemon's barcode, load status and `lu_ssc.inLibrary` |
| `mishaps` | history only: how often an answer was taken for another, a drive or the library restarted |

A move is cut at each `msgrcv()`: the library sends a request and then waits,
and in between the drives run, hosts send UNLOAD and `vtlcmd` sends what it
likes.  The code takes the oldest message of its inbox for the answer, and so
does the model (`Answer`): it does not look at the sender, and at nothing but
the text.  A move that meets an empty element where it dereferences a medium
ends in `Segfault`.  A refused command does nothing, so it has no action.

Abstractions.  The order in which the library looks for an empty slot or map
element is left open.  `save_config()` is taken as configured by default (the
state is persistent).  The external move command, adding slots, "load" typed by
the operator at a drive, rereading the configuration and READ ELEMENT STATUS are
left out.  A full message queue is not modelled: `MaxInbox` bounds only the
messages the library did not ask for.

### CmdQueue (`CmdQueue.tla`)

The queue of commands of one logical unit in the kernel module, between the
daemon, the timers of the commands and the error handling of the mid level.

| in the model | in the code |
|---|---|
| `list`, `state` | `cmd_list` of the logical unit, `mhvtl_queued_cmd.state`; an entry is known by its serial number |
| `timer` | `cmnd_timer` of each entry: armed, over, or where `mhvtl_timer_intr_handler()` stands |
| `daemon` | the ioctl of the daemon (one at a time, `ioctl_mutex`), and the entry it holds |
| `stopper` | abort or host reset, between taking `cmd_list_lock` and deleting a timer |
| `midlevel` | the `scsi_cmnd`: not outstanding, outstanding, or given up and being aborted |
| `misuse`, `crossed`, `wasReset` | history only: who used a freed entry, who finished one command with another's answer, whether a reset took an entry |

`cmd_list_lock` protects the list and nothing more: each party looks its entry
up under the lock, releases it, uses the entry, and takes the lock again to free
it.  So each party is cut where it takes the lock and at what the others can
see in between.  Abort and reset delete the timer with the lock held; while they
wait (`stopper.at # "idle"`) no other step that takes the lock is possible.

Abstractions.  There is one `scsi_cmnd`, since the adapter is registered with
`VTL_CANQUEUE` 1.  A timer fires after its command is in the list: it is armed
50000 jiffies ahead.  The walk of the list in the poll is one step, though it
takes no lock.  After a use of freed memory the behaviour is not followed.  The
mid level and the kernel's timers are external: `done()` is ignored for a
command that has timed out, `timer_delete_sync()` waits for the handler.

### Update (`Update.tla`)

`load_tape()` with the conversions of `mhvtl_update.c`, for one cartridge.

| in the model | in the code |
|---|---|
| `mam`, `tmp`, `dir` | the files `mam`, `mam.tmp`, and the others by name, each with what it holds |
| `mem`, `fd` | the global `mam`, attributes included, and the descriptor `mamfile`: the file now called mam, or the one that was renamed over |
| `pc` | where `load_tape()` stands, one place per system call that changes the directory |
| `loaded`, `errorCheck` | what the program believes is mounted; whether the file `bypass_error_check` exists |
| `cut`, `ignored`, `found` | history only: in which window an update was interrupted; a failure of `write_mam()` was ignored; which attributes the cartridge was found with |

Each call may fail, with the code's cleanup, and the program may be killed before
it.  `OtherCartridge` loads another cartridge between two loads of this one, since
the MAM in memory outlasts it.  A file is one of a few contents (whole, empty, a
part, of which format); attributes are of two groups, those every version has
(`core`) and those added to the list later (`late`), each nobody's, this cartridge's
or another's.  `init_mam()` leaves the values in memory, and `read_mam()` changes only
those it finds: so the late ones can be those of a cartridge before.

### Drive (`Drive.tla`)

The mounts of one drive: `loadTape()`, `unloadTape()`, and what calls them.

| in the model | in the code |
|---|---|
| `medium`, `mam` | the MAM on the cartridge and in memory |
| `save` | between the write of `mam` and that of `mhvtl_data` in `rewriteMAM()`, and for whom |
| `cart`, `status`, `barcode` | the open cartridge, `get_tape_load_status()`, `lu_ssc.barcode` (the mouth) |
| `alarm`, `cleaning`, `delay` | whose `alarm()` is pending, `cleaning_media_state`, `delay_load` |
| `protect`, `appendOnly`, `vcrUpdated` | `MediaWriteProtect`, `append_only_mode`, `vcr_updated` |
| `told` | the TapeAlert flags of this load |
| `changed`, `cohLoad`, `ended`, `silent` | history only: the loads that changed the data and wrote the coherency record, how each last load ended, who was changed by SET CAPACITY |

What is on the medium is one number, the load that last changed it: the blocks
are `Cartridge`'s.  A cartridge is data, WORM, cleaning, or of a type the drive
refuses.  It is assumed that the drive is in a library that accepts the eject
(`inLibrary`), and drives that do not know WORM are left out, as is the conversion
to WORM by WRITE ATTRIBUTE.  LOAD by a host has no action: `ssc_load_unload()` rewinds
first, which fails without an open file, so its `loadTape()` is not reached.

### Presence (`Presence.tla`)

`main()` of the two daemons, from the lock file to the last `exit()`.

| in the model | in the code |
|---|---|
| `pc` | where `main()` stands; an exit goes through the same shared objects backwards |
| `lock` | the lock files of `check_for_running_daemons()` |
| `sem`, `count`, `base` | the semaphore "/mhVTL", the count it guards, and the count a process has read |
| `queue`, `opened` | the message queue, and who holds the present one |
| `child`, `devp` | the child that writes to the pseudo-device in `add_lu()`; the logical units of the kernel |
| `counted`, `uncounted`, `gaveUp` | history only |

A process may die at any step (`Die`): no exit handler runs.  The change of the count,
the removal of the queue and `sem_post()` are steps of their own, and so is the last
second of sleep of who gives up: the semaphore may be free when it posts.  The child
is a process of its own and may write after its parent has gone; that
`mhvtl_add_device()` takes no lock is left out, since the units come out as if the
calls had come one after the other.  What serving means is
in the other modules; here it is the place `run`.

### Reservations (`Reservations.tla`)

PERSISTENT RESERVE and RESERVE/RELEASE: `key`, `type` and `gen` are the globals
`SPR_Reservation_*` of `spc.c`, `spc2` is `I_am_SPC_2_Reserved`, `reset` the flag
`check_reset()` looks at.  There is one action per service action.  The kernel
passes no initiator, so a host is the key it gives, its own or zero.  History:
what each host was told (`holds`, `seen`), who lost a reservation by force
(`robbed`), and whether the present reservation is one a PREEMPT gave to the key zero
(`zeroed`, over with that reservation or that key).

### Encryption (`Encryption.tla`)

The settings of SECURITY PROTOCOL OUT and the headers written and compared.

| in the model | in the code |
|---|---|
| `encrypt`, `decrypt` | `ENCRYPT_MODE`, `DECRYPT_MODE` |
| `key`, `ukad`, `akad` | the arrays of `app_encryption_state`, whose bytes beyond the length are those of earlier keys |
| `pointed` | whether `app_encr_info` points there or is null |
| `enabled`, `formatted` | ENCR_E of mode page 24h; `MAM_FLAGS_ENCRYPTION_FORMAT` |
| `tape`, `pos`, `live` | the headers on the tape, the head, whether the daemon runs |
| `told`, and `asked`, `good` of a header | history only: the page in force, what it asked for the block, whether the host was told that the block is written |

`pm` is the personality: LTO, STK (T10000 and 9840, which compare the
unauthenticated data too) or a 3592 E06.  A refused page is in force as well: it
takes the old key away and leaves the mode of decryption.  Following the null
pointer ends the daemon (`ReadDies`).  One cartridge stays in the drive, since
neither load nor unload touches the settings; a write that fails is `Cartridge`'s;
`KEY_INSTANCE_COUNTER` is left out.

### MC modules

`MCCartridge`, `MCChanger`, `MCCmdQueue`, `MCUpdate`, `MCDrive`, `MCPresence`,
`MCReservations` and `MCEncryption` hold the definitions the configurations need:
symmetries, the sets of cartridges, keys and processes, the initial homes, and the
constraints that say how many failures a run follows.

## 3. The runs

| run | asks | bounds |
|---|---|---|
| `tape_core` | do the files agree between handlers, does SPACE land where the index says, does the store implement `TapeMedium`, is a protected medium left alone | one partition, 3 blocks, 2 payloads, blocks of 1 and 2 cells, 2 failed data writes |
| `tape_parts` | is the memory of every partition what its files say, do acknowledged blocks stay, does each handler return | two partitions and the place after them, 2 blocks each, 1 failed data write |
| `tape_worm` | does a WORM medium only grow | two partitions and the place after them, 2 blocks each, 1 crash or failed write |
| `tape_faults` | do crashes and failed writes lose an acknowledged block, has every header its data | one partition, 3 blocks, 2 failures of any kind at any file operation |
| `changer` | is the inventory unique and complete, does it agree with the drives, do moves end | 1 slot, 1 import/export element, 2 drives, 2 cartridges, one cartridge one drive refuses, one mishap |
| `cmdqueue` | does every command come back, does the timer handler use a freed entry, is an entry forgotten or leaked, can a command get the answer of another | 3 commands in turn; timer, abort and host reset at any moment |
| `update` | are blocks and attributes kept through every update, is one cartridge mounted and no mixture, is the present format reached | a cartridge of each format 3 to 6, 2 failed calls, 2 kills, 1 other cartridge in between |
| `drive` | does the volume change reference tell a change, the flag an unclean end, is protection that of this cartridge, do timers end | two data cartridges (one read only), a WORM one with a used reference, a cleaning and a refused one; 2 loads, 1 kill or exit, 2 orders of the operator |
| `presence` | one process per minor, a true count, a logical unit for who serves, nobody waiting for a dead one | a media changer and two processes for one drive, 3 starts, 1 death |
| `reserve` | one owner, who keeps it, and a generation that tells | 3 hosts, 2 types, 4 changes of registration, 1 restart |
| `encrypt` | is a block recorded as the page in force says, read under its key only, and an encrypted block of a 3592 behind a label in the clear | 3 personalities, 3 keys over 2 bytes (one the beginning of another), 3 kinds of associated data, 2 items on the tape |
| `bug_crash_loses` | a comment the code does not keep, with its shortest behaviour | one partition, 2 blocks, 1 crash |

Why the bounds are enough.  A handler of the store works on the position of the
head, on the block before it and on the end of data, so three blocks give every
case: the head at the beginning, in the middle, before the last block and at the
end, with marks on either side.  Blocks of two lengths tell offsets from
numbers.  Two partitions are needed because memory is kept per partition and the
place after the last one can be reached.  Two failures are what it takes for one
to fall into the consequences of the other, with the remount between them.  In
the changer, two drives and two cartridges give a move from drive to drive while
another cartridge is about, and two senders of answers; with one slot and one
import/export element the library can be full.  The run stops following a
behaviour after more than one mishap: the properties that do not survive one say
so (`Untroubled`), and the others are claimed for the states the run reaches.
One unasked message in the inbox is enough to be mistaken for an answer.  In the
queue of commands only one command is outstanding, and the entries of earlier
ones are still there while the parties that lost a race are at work on them;
three commands give an entry that is being freed, one that is finished by
mistake and a new one.
An update meets two failures or kills for the same reason as the store: the second
falls into what the first has left.  In `drive`, two loads are what it takes for
the second to find what the first left behind, a kill included, and every kind of
cartridge is followed by every other.  In `presence` two processes want the same
minor, a third shares only the count and the queue, and the third start lets one
come back after its death.  Four changes of registration are one more than there
are hosts.  In `encrypt` a shorter key leaves a byte of the longer one in the
array, pages are set without bound, and two items are a label and what follows it.
`CHECK_DEADLOCK FALSE` stands in the runs of the changer because the library
really stops there: after a drive has restarted while the library waits for it, and after a segmentation fault; in the run of the queue, when abort
and a timer handler wait for each other, when freed memory was used, and when
all commands have been issued; and in `update`, `drive`, `presence` and `reserve`
when the loads, starts or changes of their bounds are used up.

Constraints.  `tape_worm` and `tape_faults` stop at a partition that
`load_partition()` has called corrupt: the code logs it and mounts the tape, and
nothing is promised from there on (`bug_crash_loses` shows what happens).

Fairness.  The tape daemon is a loop in one thread; a handler that has begun
goes on until it returns, so there is weak fairness of the next file operation,
done or failed, but none of the start of a handler.  In the changer the library
returns from `msgrcv()` when there is a message, and a drive polls its inbox in
each turn of its loop: weak fairness of `AnswerTaken` and of `DriveHandles(d)`.
Nothing is assumed of hosts, operators or restarts.  In the kernel a timer
fires and its handler runs, the mid level gives up on a command and aborts it,
and an ioctl that has begun goes on; nothing is assumed of the daemon between
two ioctls, which may be busy for hours or dead.  In `update` the operator loads
the cartridge again until it is mounted, and `load_tape()` goes on once begun.  In
`drive` the second write of `rewriteMAM()` follows the first and a pending alarm
goes off; nothing makes hosts or operators act.  In `presence` a process that is
starting or exiting goes on, a semaphore that is free is taken or the wait ends by
giving up, and the child writes; nobody has to start, exit or die.

## 4. What the runs show

What holds.

* Cartridge store: with data writes that fail, files, memory and index agree;
  crashes and failed data writes lose no acknowledged block of a partition that
  was not called corrupt; the order of the truncations and writes keeps every
  header's data present at each file operation, also after one failure of another
  kind; SPACE by the map equals SPACE by the index.
* Library: the inventory is unique and complete under every mistaken answer and
  restart; it agrees with the drives as long as no answer is mistaken; moves end,
  unless a drive restarted.
* Queue of commands: the handler of a timer uses no freed entry, no command is
  forgotten and no entry leaked, and a command comes back to the mid level
  although the daemon never answers.
* Update: blocks, index and map survive every failure and kill except in two
  places that cannot be resumed (the extraction of a version 3 and the renames of
  a version 5 killed halfway); attributes stay complete in a file; what is mounted
  is one cartridge with the attributes it was found with, and none of another but
  those its files lack (below); an update that failed is tried again
  and ends.
* Drive: a coherency record with the reference of the medium can be trusted after
  any kill; lost statistics are reported exactly after an end without unload; the
  switch that protects is that of the cartridge mounted; the two uses of `alarm()`
  come to an end.
* Presence: one process serves a minor; the count is that of the daemons unless
  somebody gave up waiting; a daemon whose child has come back has its logical
  unit; who starts or exits gets there though a holder of the semaphore died.
* Reservations: the two kinds exclude each other; who was told that it has the
  reservation keeps it until PREEMPT, REGISTER AND IGNORE or a restart; an
  unchanged generation means an unchanged key.
* Encryption: a block is recorded as the page in force says, whatever pages came
  before and were refused; it is read only under its key (all of it, not its
  beginning); an acknowledged encrypted block of a 3592 lies on a formatted
  cartridge, behind a block written in the clear while a key was in place, unless a
  filemark was written over that one (below).

What does not hold is a run and a finding in `PROJECT.json`:

* `bug_crash_loses`: after a crash between the truncation of the index and the
  rewrite of the map, `load_partition()` returns before it sets
  `eod_data_offset`, `load_tape()` ignores its result, and the next append
  overwrites block 0.  `vtlcart.c:1353-1357` says otherwise.

Also met while modelling, and part of the models, without a run of their own.
The properties except what is listed here, and say so.

Cartridge store:

* a failed write of a header truncates the index to one header less than it
  should; the block before is lost;
* a WRITE FILEMARKS that fails at one of its headers returns without
  `mkEODHeader()`: the end of data in memory is that from before the command,
  although `check_for_overwrite()` has cut the files.  After SPACE to it, the next
  block leaves a gap in front of it; and with two marks already written it overlays
  the first of them, a remount takes the second for the end of data, and a later
  overwrite cuts that block's data (`HeadersHaveData` is claimed of commands of at
  most two marks if it is such a header that fails);
* spacing back past block 0 goes to the end of data;
* FORMAT MEDIUM looks at the partition under the head and erases all of them: with
  the head in a blank partition, or after LOCATE to the partition behind the last
  one, it erases a WORM medium (`BlankFormatted`);
* when `rewrite_meta_file()` fails, WRITE returns GOOD although nothing was
  recorded (`vtlcart.c:278`, `mhvtl_io.c:537`);
* WRITE FILEMARKS at block 0 erases a WORM medium on purpose (`ssc.c`, "Erasing
  WORM media"): `WormKeepsItems` excepts it.

Library:

* the "eject" of one drive is taken for the failure of a load in another; the
  cartridge is mounted and in its slot;
* LOAD after UNLOAD by the host mounts nothing, though there is a call of
  `loadTape()` for it (`ssc.c:1833-1837`): the rewind before it has failed;
* the library waits without a timeout (`smc.c`: "FIXME: I really need a timeout
  here.."): a drive that restarted has forgotten that it is in a library and
  drops "lload", and the move never ends.  `MoveEnds` excuses exactly this;
* a library that exits puts the cartridges of its drives into slots and does not
  tell the drives: after its restart a mounted cartridge is in a slot, and can
  be mounted twice.  `InventoryTrue`, `MountedHere`, `PickerTold` and
  `NeverNull` are claimed without restarts;
* with no slot empty at exit, a cartridge in a drive is in no element of what is
  saved;
* a cartridge `move_drive2drive()` puts back leaves the access bit of its drive
  at "the picker can reach it", so the next move out of that drive takes it from
  the inventory before "set_empty" unloads it: the exception in `MountedHere`.

Kernel queue:

* the timer of a command has fired when the mid level aborts it: abort waits for
  the handler with the lock held that the handler waits for.  `CommandsEnd`
  excuses exactly this (`Stuck`);
* the ioctls use an entry after abort or a timer has freed it: they look it up
  under the lock and go on without it (`kernel/mhvtl.c:1546-1571`).  This is why
  `HandlerSafe` speaks of the timer handler only, and why `NoneLeft` and
  `CommandsEnd` except the states after it (`misuse`);
* abort skips an entry the timer handler has marked free and returns SUCCESS; the
  handler then finishes whatever command was issued next (`crossed`);
* a command whose timer runs out is finished with the result 0, which is GOOD;
* `mhvtl_sdev_destroy()` frees a logical unit that is still in `lu_list`, and
  never one whose `sdev` is NULL.

Update:

* the branch on `bypass_error_check` is the inverse of its message
  (`vtlcart.c:1195`);
* the first load after an update from version 3 or 4 comes up without being
  saved: `mamfile` still refers to the file the rename has replaced;
* a cartridge whose files lack the late attributes (a version 3 to 5) is mounted with
  the change reference and the coherency record of the cartridge loaded before it,
  which are then saved as its own, although `vtlcart.c:1214` says of `init_mam()`
  "initialize global mam": the exception in `MountedTruly` and `MamKept` (`OwnLate`);
* the result of `write_mam()` is ignored (`mhvtl_update.c:341`);
* a kill between the renames or in the extraction strands the cartridge, and with
  the error check also one between the renames and the update of the MAM.

Drive:

* a refusal in append-only mode dereferences a null pointer (`ssc.c:527`);
* SET CAPACITY erases protected and WORM media and sets no new reference: the
  exception in `Protected` and `VcrTells`;
* a WORM cartridge loaded after a protected one is protected;
* `set_mount_timer()` cancels the alarm of a cleaning: the cartridge stays in its
  first stage; a flag for cleaning is overwritten by the one for lost statistics;
* WRITE ATTRIBUTE ends with GOOD although an attribute was refused;
* a rejected load is later reported as lost statistics;
* "load" of the operator replaces the barcode of a mounted cartridge;
* the reference of all ones is not skipped (comment at `ssc.c:86-87`);
* a coherency record is trusted after a later write in the same load;
* `edit_tape` on a loaded cartridge writes what the next `rewriteMAM()` undoes
  (`EditTape` leaves the loaded cartridge out).

Presence:

* a daemon that died leaves its lock file, which refuses the next start until the
  operator removes it, and a count that never comes down: the queue is then never
  removed;
* who gives up waiting for the semaphore posts it and does not count;
* the exit of the last daemon can remove the queue with the "Register" of a
  library that starts;
* an exit before the child of `add_lu()` has written leaves a unit without a
  daemon.

Reservations:

* PREEMPT with key 0 leaves a reservation of key 0 nobody can release (`zeroed`);
  PREEMPT without a reservation removes the registered key; one that matches no
  key ends with GOOD;
* RESERVE(6) answers GOOD while a persistent reservation exists and does nothing;
* a unit attention is reported to one host only; hosts are told apart by their key
  alone; a reservation refuses no other command; a reset in the kernel never
  reaches the daemon.

Encryption:

* `setup_crypto()` leaves `app_encr_info` null after a write in the clear; a READ
  of an encrypted block in decryption mode 2 or 3 then ends the daemon;
* a refused SECURITY PROTOCOL OUT takes the old key away and leaves ENCR_E of mode
  page 24h as it was;
* an E06 refuses a block for an unformatted cartridge and writes it all the same:
  `setup_crypto()` ignores the result of `valid_encryption_media()`;
* on an E06, WRITE FILEMARKS at block 0 replaces the label and leaves
  `MAM_FLAGS_ENCRYPTION_FORMAT`: the next block is encrypted and acknowledged on a
  tape with no label, although `ibm_03592_pm.c:98-101` says that the label is how a
  cartridge is formatted.  `LabelFirst` excepts a tape that begins with a filemark;
* decryption mode 2 refuses filemarks and the end of data too, and the head stays;
* the settings are those of all hosts, though the status page says I_T nexus
  (`vtltape.c:771`); the status of the next block ignores the unauthenticated
  data an STK drive compares.

## 5. What is proved

`CartridgeProofs` (theorem `TypeCorrect`): `TypeOK` is an invariant of `Spec`
for every number of partitions, capacity, word width, set of payloads and
faults, and each kind of medium, from the assumption `ConstantsOK`.  `TypeOK` is
inductive as it stands.  What is to be shown is that positions stay natural
numbers: the subtractions in SPACE wrap modulo `Word`, a remount computes
offsets from headers, and an item cut by a failed write is still an item.  There
are lemmas for the operators on files and for each form of positioning (each
maps a head of the right type to one), and one lemma per action; the theorem
combines them.

`ProtectionHolds`: no step changes the data or the
index of a write-protected medium while it is loaded.  Protection is checked
when a handler begins; the files are changed by later steps.  The strengthening
is `OnlyUnloads`: on a protected medium the handler in progress is
`unload_tape()`, in one of the steps that write the map or close the files;
`GuardInv` adds `TypeOK`.  It needs that nothing sets the protection while a
handler is in progress and that `unload_tape()` never passes through a step that
truncates.  Together with the unchanged files of those steps it gives the
property.

What is recorded stays recorded.  The second half of `CartridgeProofs` proves what
the runs `tape_core`, `tape_parts`, `tape_worm` and `tape_faults` check of the three
files, for every number of partitions, blocks, failures and crashes.  The invariant
has two layers, because the properties survive different failures.

* `IInv` (theorem `SafeHolds`) speaks of `OnlySafeFaults`: data writes fail and the
  daemon dies between any two file operations.  `PartSound` says of each partition
  not called corrupt that its headers are numbered and lie end to end (`Chained`,
  `Ordered`), that the data file reaches as far as the last of them (`Backed`), and
  that what was acknowledged is a prefix of it (`Recalled`).  `MemorySound` and
  `HeadSound` say that the end of data and the header in memory are those of the
  files, but for the partition a handler is at work on; `WriteSound` says for each
  step of that handler what it has cut and written so far.  The properties speak of
  the moments between two handlers and are not inductive: the next file operation
  is right only because of where the one before has left the files.  `StepsFit` says
  which handler can be in which step.  From `IInv` follow `AckedOnDiskHolds`,
  `DataBehindHeaders` (`HeadersHaveData` under the same failures), and
  `RecordsAsMedium`: every step is one of `TapeMedium` or changes nothing it sees.
* `DInv` (theorem `MapsHold`) adds the filemark map, for `OnlyData`: data writes fail
  and the daemon lives.  A crash does disturb the map (`bug_crash_loses`), so nothing
  is claimed of it then.  `MapAgrees` says that the map lists the filemarks of the
  index in order and that the data file ends with the last block; `MapWritten` how
  far `rewrite_meta_file()` has come.  From it follow `FilesDescribeOneTape`,
  `MemoryTrue`, `AckedAlwaysKept` and `SpacingHolds`.  The last needs that the map
  entry SPACE looks for is the right filemark: the first one behind the head, for
  which the lemma `LeastNumber` uses that the natural numbers are well-founded (the
  fact stands for an induction over the blocks), and that no sum wraps.  `Room` says
  that a partition holds no more than `MaxBlocks`, and the hypothesis
  `MaxBlocks + MaxSpace < Word` that this and a count of SPACE fit in the word: with
  the 32 bits of the code, that no tape of 2^32 blocks is at hand.

`StoreIsMedium` is the refinement: with `Faults \subseteq {"data"}` the whole behaviour
implements `MediumSpec`.  The one hypothesis excludes what `TapeMedium` does not
promise (a crash may leave a partition that is called corrupt).  `WormKeeps` adds
`WormInv`: between handlers the head has the permission to write a WORM medium only
where nothing can be lost, at the end of data or on the only filemark, and a handler
cuts the index only there or for WRITE FILEMARKS at block 0; it holds in every
failure world of `OnlySafeFaults`.

`ChangerProofs` proves, for any number of elements, drives and cartridges and any
number of mishaps, `TypeCorrect`, `UniqueAlways` (`InventoryUnique`) and
`ClosedDoorKeeps` (`NothingLost`).  A move checks an element, waits for a drive,
and uses what it checked when the answer comes; `MoveSound` states, for each
place where the library waits, what is still so (the destination is empty, or
the source drive is).  It is inductive because messages of the operator are read
only between moves, and because a mistaken answer changes which branch a move
takes but not what it has checked.  One lemma per action shows `Kept`: the
invariant, the uniqueness and the presence of the cartridges.  `TextsKnown` is
assumed of what the operator's tool sends.

The agreement of the library and its drives is the invariant `Agree` (theorem
`AgreeAlways`), as long as no answer was taken for another and nobody restarted
(`Untroubled`).  `Boxes` and `LibraryBox` say that while a move waits there is either
one request on its way, to the drive that was asked and behind its registration, or
one answer, and `After` what each answer means for the drive that sent it;
`MoveTrue` says for each place where the library waits in which element and which
mouth the cartridge is; `Access` whose eject is still unread when the picker is kept
away; `Fits` that a drive can take back what it gave up.  None of the four
properties is inductive: that no medium is NULL needs to know that the drive still
has what it was asked to unload, which needs that it was asked once.  From `Agree`
follow `InventoryTrueHolds`, `MountedHereHolds`, `PickerToldHolds` and
`NeverNullHolds`, for any number of elements, drives, cartridges and messages.

`CmdQueueProofs` proves every safety property of the queue of commands, for any
number of commands and any choice of who interferes: `TypeCorrect`, `TimerSafe`
(`HandlerSafe`), `CommandsKept` (`NoneForgotten`), `NothingLeaked` (`NoneLeft`) and
`TimersCrossFirst` (`FirstCrossing`).  The invariant `IInv` says who holds which
entry: a handler that has found its entry owns it, since who frees an entry
waits for its handler (`HandlersOwn`); a timer deleted by the ioctl stays deleted
(`TimerGone`); who has called `done()` is not holding the outstanding command
(`DoneIsOver`); and each entry of the list is either the outstanding command's or
is about to be freed by a party that can be named (`Accounted`).  None of these is
inductive alone: that abort leaves no entry behind needs that an entry it skips
is marked by a handler still at work (`FreeIsMarked`).  There is one lemma per
action.

`ReservationsProofs` proves every property of its run for any set of hosts and
types and any number of changes and restarts: `ConsistentAlways`, `OwnerKeeps`
(`OwnReservation`) and `GenerationSound` (`GenerationTells`).  The invariant adds
`SeenBefore`: no host has seen a generation that is still to come.  Without it a
change that counts up could meet an old reading.  A restart forgets what was
read, since the generation starts again.

`PresenceProofs`, for any set of processes, minors, starts and deaths: `LockSound`
(`OneServer`), `UnitServed` (`Served`) and `CountKept` (`CountTrue`).  `Serving` says
that who holds the lock of a minor and whose child has come back is the one whose
unit is in the kernel; `Exclusive` that of all who stand between the wait for the
semaphore and its post there is one, as long as nobody has given up, and that the
count it has read is still the count.  `CountTrue` needs `Exclusive`: the count is
read in one step and written in another.

`DriveProofs`, for any cartridges, loads and kills with fewer loads than the
largest reference (`MaxLoads < Top`, so that references do not wrap): `ReferenceTells`
(`VcrTells`), `DirtyTells` (`LostTold`), `MouthKept` (`MouthFull`: the mouth is not
empty while a cartridge is open) and `ProtectionHolds` (`Protected`).  `References`
says that the reference on the medium is no younger than this load, and older until
the load has set a new one; `Trusted` says of each coherency record that it is older
than the reference, or as old and then written by the load that set it or a later
one; `Dirt` relates the flag on the medium and in memory to how the last load ended
and how far an unload has come; `Guarded` says that while a cartridge is open the
protection in force is that of its own switch.

`EncryptionProofs`, for any keys, associated data and personalities the assumption
`EncryptionAssumption` admits and a tape of any length: `RecordedTrue` (`WrittenAsTold`),
`KeysTell` (`ReadAsTold`) and `LabelKept` (`LabelFirst`).  `SettingsTold` says that the
arrays begin with the key the page in force gave; the bytes behind it are those of
earlier keys, and the lemma `SameHeld` shows that comparing lengths and then that
many bytes is comparing what is held.  `MarksClear` says that filemarks are never
encrypted.  `OnFormatted` and `LabelKeyed` tie the flag of a formatted cartridge to the
first block: if it is up, a key was in place when that block was written; it changes
only as that block is overwritten, which takes all the blocks behind it away.

`UpdateProofs`, for any set of old formats and any number of failures, kills and other
cartridges: `DataKeptHolds`, `MamKeptHolds` and `MountedTrulyHolds`.  `IInv` says for
every system call of `load_tape()` which names are there: `Layout` (the old names, the
new ones, or one of two mixtures while `try_update_tape()` renames), `Extraction` (the
MAM is in `meta` until `mam` has it), `Rewriting` (`mam` is the structure until
`mam.tmp` is whole).  Two parts are about what cannot be seen in the files.
`Misreads` says that a structure that was read as tags, which happens after the
rename since `mamfile` is still the old file, has made the cartridge one of version 4
in memory, and hence is not renamed in the same load.  `Attributes` is claimed
unless a failure of `write_mam()` was ignored.  All of it is claimed while
`Resumable`: no kill has hit one of the two windows the runs name.  A second
invariant, `LateInv`, is about the late attributes: a cartridge found without any
never gets others than those of a cartridge before it (`LateAbsent`); one found with
them is of the present format, and has them in its files at every step and in memory
once `read_mam()` is through (`LatePresent`).

Types (`TypeOK`) are proved in each of these and not checked by a run.

Only model-checked.  Liveness (`HandlersEnd`, `MoveEnds`, `CommandsEnd`, `Converges`,
`TimersEnd`, `Arrives`) rests on fairness, which is beyond the prover.  Of
`HeadersHaveData` the case of one failure that is neither of a data write nor a crash
(`OneFailure`) is left to `tape_faults`.  What a recursive definition computes for every input is not
provable here either; the models have none, and where the proofs need an induction
they use that every set of numbers has a least one.

## 6. Plan

1. *(done)* `Cartridge` with `TapeMedium`; its safety and the refinement proved.
2. *(done)* `Changer`; its safety proved.
3. *(done)* `CmdQueue`; its safety proved.
4. *(done)* `Reservations`; all of it proved.
5. *(done)* `Drive`: the MAM over load, unload and kill; its safety proved.
6. *(done)* `Presence`; its safety proved.
7. *(done)* `Update`; its safety proved.
8. *(done)* `Encryption`; all of it proved.

What could follow: FORMAT MEDIUM cut at its file operations; WRITE of several
blocks in one command; removing a logical unit under a running ioctl; the
external command a library may call for a move.  Of the theorems: `HeadersHaveData`
after one failure of any other kind, whose invariant has to describe files that are
not in step with memory: gaps of zero headers, marks behind the end of data, a map
that was not rewritten.

## 7. Not modelled

Listed with its reason in `PROJECT.json` (`components`).  The models stand for a
small share of the lines of the repository, and most of the others have no state
whose order could go wrong:

* LZO (`minilzo.c`, `lzodefs.h`, a fifth of the lines) is a vendored library, a
  pure function of its input; so are the checksums;
* the personalities (`*_pm.c`) are tables of capacities, densities and inquiry
  pages; the models take from them what a guard depends on (WORM, partitions,
  media, modes of encryption);
* mode pages, log pages and inquiry pages are layouts of bytes; the bits that
  steer a handler are in the models (the mode of writing, ENCR_E, TapeAlert);
* parsing of `device.conf` and `library_contents`, printing, `dump_tape`, `vtlcmd`,
  scripts and the web page read or print; `edit_tape`, `mktape` and `update_tape`
  change a cartridge and are in `Drive` and `Update` as far as a daemon meets them;
* `vtlcart_v1.c` and `vtlcart_v1_mtr.c` are linked into no program;
* within modelled functions: logging, sense bytes, timing of transfers, sizes.

Liveness is checked and not proved.  Two hazards have no property, since the
status of a command is not part of the models of the store and of the queue: a
WRITE and a command that timed out, both ending with GOOD.
