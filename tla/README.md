# A verification development of the Axoloti firmware

Axoloti is a synthesizer board (STM32F4, ChibiOS) with a desktop patch editor.
The editor compiles a patch to an executable image; the firmware loads images
from the SD card, from flash or from memory, plays them in a real-time thread, and
connects them to MIDI ports, a USB host, a display with buttons and encoders, and other boards.

The firmware under `src/firmware` is the concurrent core of the system and what
these modules are about, with the parts of the editor that share a protocol with it: its
file requests, and the MIDI routing tables it reads and writes. Every definition is translated from the C and Java sources;
`PROJECT.json` ("map") gives the lines of each one.

## Inventory

Threads and interrupts of the firmware, by priority:

| actor | source | what it does |
|---|---|---|
| codec interrupt | `patch.c` `computebufI` | swaps audio buffers, counts out the MIDI clock (into the MIDI input buffer), signals the DSP thread |
| ThreadDSP, HIGHPRIO-2 | `patch.c` | plays the RUNNING patches, dispatches MIDI input, runs the menus' event handlers |
| USB bulk reader, NORMALPRIO | `pconnection.c` | executes the host's commands: load, stop, files, memory, parameters |
| log consumer, NORMALPRIO | `pconnection.c` | drains the log pipe to the host |
| system monitor, NORMALPRIO | `sysmon.c` | watches the card switch, mounts and unmounts, starts `start.elf`, blinks the LED |
| patch worker, NORMALPRIO | `patch.c` | short-lived: one load or one stop, on one static stack |
| MIDI readers and writers | `midi_din.c`, `midi_gpio.c`, `midi_usb.c`, `midi_usbh.c` | one thread or callback per port and direction |
| UI threads | `ui.c` | poll the buttons, draw the display |

Components, their state and operations, what they share, what is hard about them and
what makes them correct:

| component | state | operations | shared with | hard behaviour | correct when |
|---|---|---|---|---|---|
| Patch manager | slots (status, instance, image), `mtxWorker`, the worker | load, stop, stop all, compute cycle | every thread that loads; menus; card | a stop races the DSP thread; failed loads; the DSP thread itself loads from a menu | only live instances play, nothing is leaked, every call returns |
| MIDI ring buffers | two indices and a ring each | put, get, notify | producers of three priorities, one consumer | no lock | bounded queue, no lost wake-up |
| MIDI decoder and encoder | five counters and bytes per serial input | one byte; length of a packet | the DIN and GPIO readers | running status, dumps, real-time bytes anywhere | each message comes out whole and once |
| MIDI routing and ports | routing maps, one output buffer per port | send, dispatch, GPIO start and stop | DSP thread, host, menus | ports that come and go while the DSP thread sends | a put reaches a buffer that is initialised, each port sends in order and nothing twice, a port can be stopped |
| USB host MIDI class | two transfer state machines | attach, SOF process, detach | USB host thread | retries, detach in a transfer | a packet is sent once |
| File transfer | one open file, the card; in the editor the connection's monitor, one consumer of answers, the reference each upload has | open, read, write, close, look, list, delete, make a directory; upload and download | two threads of the editor, the reader of the board | answers that carry no number, time-outs, resets in a block, jobs that give up half way | a job that succeeds has moved its file whole, no request gets another's answer, every job ends |
| Host connection | receive and transmit buffers, `mtxTransmit`, log pipe | commands, acknowledgements, log | every thread that logs | a blocked host, USB resets, packets of several transfers | replies are whole, a reset frees what a session held |
| System monitor and SD card | switch counter, `fs_ready` | tick, mount, unmount | patch manager, host connection | bouncing switch, failed mounts | a ready file system is on a connected card, an absence that is seen ends it, start.elf is not loaded twice |
| User interface | event words, menu stack, parameter lists | poll, enter, leave, rebuild | DSP thread, UI threads, patch manager | a menu that shows what a stop frees; a painter and a handler that move the same stack | the last event is handled, the screen ends up right, pages do not outlive their patch |
| SPI link, SPI display | double buffers, counters | exchange | a second board | resynchronisation | no frame is mixed of two |
| Exceptions | dump in backup RAM | fault, report | host connection | survives a reset | a board that crashed starts nothing by itself |
| Flash | sectors | erase, program | host connection, boot | power loss | the boot patch is whole or absent |
| Boot | the step `main` is at | first mount, threads, first patch | all that it has started already | the first patch is loaded after all it needs |
| Memory, parameters, drivers, DSP library, editor | | | | | not modelled; `PROJECT.json` says why |

The hazards, each at its source line with the properties that cover it or the reason why none
does yet, are listed in `PROJECT.json`.

## Patch manager (`PatchManager`)

One variable per field of `patch_t` that matters (`status`, `obj`, `elf`), the
number of images in the executable heap, the mutex,
one program counter per calling thread and one for the worker. `obj` says what the
pointer designates: nothing, memory not initialised (`raw`), a running instance
(`live`), one whose `dispose` has run (`disposed`), or memory already freed
(`dangling`; the code does not clear the pointer).

`Load`, `Stop` and `StopAll` are the calls; `Scan` is one turn of the loop of
`patch_stop(0)`, which reads the status without the mutex. `Lock`, `Spawn`,
`Join` and `Unlock` are the four library calls around the worker. `Resolve` to
`UiInitPatch` are the stages of `threadLoadPatch` with each of its error exits;
`StopRequest` to `Unload` those of `threadStopPatch`. `DspCycle` is a compute cycle:
it is one step because the DSP thread runs above all the others, and it is disabled while
that thread is inside `patch_load` (a menu's event handler). A worker's steps
interleave with everything else at the boundaries between actions, which are
wherever another thread can see or change what the worker uses.

The image loader is a git submodule that is not part of the tree: `LoadElf` lets it succeed while
there is room, or fail and either clear the slot's image pointer or leave what was there.
`STARTFAILED` is declared and never assigned, so it is not a value of `status`.

`PatchLifecycle` is the abstract specification: a slot is empty, loading, playing,
fading, or releasing; a load takes the lowest empty slot; one slot is in
transition at a time; only the DSP thread ends a fading. `ImplementsLifecycle` is the
refinement, with `life` as its mapping. What it catches that the invariants do not: a stop
that starts on stale status read by `patch_stop(0)` and acts on a slot another call is at work on,
two calls in progress at once, a load into a slot that is not the first free one.

### Checks

- `patch_safety` (`PatchSafety.cfg`): two slots, two callers and the menus, images that may fail to start. The safety
  properties, `NoImageLost` (no step loses an image but a load into a slot whose last load failed), and
  `OnlyDspDeadlockBlocks`: every call returns unless it is behind the one deadlock described below.
- `patch_menu_load` (`PatchMenuLoad.cfg`), a counterexample: `CallsReturn`.

Two slots of the firmware's four let `patch_stop(0)` go on after a slot whose state changed, let a load
skip an occupied slot and find both taken. Two callers and the DSP thread give every
pair of calls, and a third waiting. Three images are more than slots, so that a load with a leaked
image still finds room, and few enough that the heap runs out. No property has a counter
that needs a bound. `CHECK_DEADLOCK` is off because the deadlock of `patch_menu_load` is reachable.

### Fairness

`WF` of the compute cycle: the codec interrupt signals the thread every block.
`WF` of the worker and of the callers: the DSP thread is above them, but after an overrun it sleeps a
millisecond, "keeping cooperative with lower priority threads" (`patch.c:299-301`). `SF` of
`Lock`: `chMtxUnlock` hands the mutex to the first waiter, and waiters of one priority queue in order. It
also assumes that what the worker calls returns: the loader, `initInstance` and `dispose`
of the patch, and the USB transfer of `tx_patchList` (`HostConnection` says when that one does). Nobody is obliged to make a call.

### What the checks found

1. **The DSP thread and a stop wait for each other.** `src/api/patch.h:25` warns that
   a patch's own init and dispose must not call `patch_load`; the firmware's menu entries
   call it from an event handler, in the DSP thread. If another thread holds `mtxWorker` for a stop,
   the DSP thread waits for the mutex, the worker waits for the DSP thread to
   answer STOPPING, and the audio stops for good. The order it takes: the caller of the stop has the
   mutex, and the worker has not yet been answered (for instance the DSP thread preempts the caller between
   `chMtxLock` and the worker's first statement, and in that cycle handles a menu event). `OnlyDspDeadlockBlocks` shows that this is
   the only way for a call not to return.
2. **Failed loads leave their image behind.** An image that loads and then has no
   `getInstanceSize`, no memory or an `initInstance` that refuses stays in the executable heap;
   the next load of the slot overwrites the only pointer to it. `NoImageLost` is as strong as the code allows: no other step loses
   an image. No document claims otherwise, so this is a hazard in `PROJECT.json` and not a finding.
3. **The menus lag behind a stop.** `ui_deinit_patch` comes after `patch_dispose` and
   `ax_free` (`patch.c:521-523`): what the menus read in between is in `UserInterface`.

## MIDI ring buffers (`MidiBuffer`)

One buffer, its producers and its consumer's loop. `put` is five steps (`PutIndex`, `Room`, `Store`, `Publish`,
`Notify`) and `get` three (`Look`, `Advance`, `Fetch`): each access to the indices or the ring is a
step, in the order of the source. That order is an assumption: the fields are not volatile and the compiler could
reorder the two stores at the end of a put. `MayRun` is the scheduler: one core and no time slices, so a process runs in
the middle of another's call only if it preempts it, which the constant `Preempts` says.

A `kind` describes a buffer: does `put` signal its consumer, does each compute cycle, and how many messages does the consumer
take when it wakes. The input buffer is drained by the DSP thread each cycle; the DIN and GPIO
outputs by a writer thread that `notify` wakes; the USB device output by a writer that both wake and
that takes at most 16 messages. `MidiQueue` is the abstract bounded queue with atomic operations, of
capacity `Size - 1`; the message a get is about to return is in the consumer's `hand` there.

- `midi_buffer_one_producer`: all three kinds, one producer and the consumer free to preempt each other
  anywhere, which is every case of a buffer that one thread fills. Holds: `AcceptedIsQueued`, `ImplementsQueue`, and
  `Delivered` (no wake-up is lost) under `FairSpec`: cycles keep coming, a process that may run does.
- `midi_input_shared`, a counterexample: the input buffer with the producers it has in the firmware. The
  header says `put` discards data "when overflowing"; the source has "FIXME: make reentrant". The codec
  interrupt's clock message, put while a USB host thread is inside its put, is stored at the same
  index: both are accepted, one is lost, with room to spare.

Size 4 for 32: empty, full, one below full, and wrap-around at every offset of the indices occur. Two messages
tell a message from a stale one. A batch of 1 for 16 leaves part of a burst behind as often as can be.

`midi_output_buffer_reset` and the deinit functions have no caller and are not modelled.

## MIDI decoder and encoder (`MidiDecoder`)

`midi_decoder_process` is one action per branch; its seven variables are the fields of the decoder's
state, the byte and the packet the callback got. `MidiFraming` says what a MIDI stream means:
each message comes out as one packet on its last byte, with running status; a dump as packets of three
bytes and one that ends it; a real-time byte passes through whatever it interrupts; a status byte
always starts afresh. It promises nothing about the output for bytes that belong to no message. That the
decoder really emits packets for some of those (data after the end of a dump can come out as a dump packet) is
therefore allowed by it.

- `midi_decoder`: every sequence of twelve bytes, at least one for each branch and
  each length. The state space is finite, so the sequences are of any length. `TypeOK` includes that the counter stays in the range outside which
  `chSysHalt("MIDI SysEx invalid state")` would be reached.
- `midi_thru`, a counterexample: the code index numbers that the decoder gives to 0xF1, 0xF2 and 0xF3 are those of a
  single byte, so the encoder, whose own table lists two- and three-byte system common messages under 2 and 3, would send
  on only the first byte. `midi_decoder.h` refers to the USB MIDI 1.0 specification, which has those numbers too.

## Host connection (`HostConnection`)

Five kinds of threads send to one bulk endpoint: the reader that answers the host's commands, the log
consumer, the patch worker with its patch list, the DSP thread through what its patches log, and others that load or
stop patches. `mtxTransmit` keeps a reply of several transfers together.

A command is the sequence of operations of its handler that wait or send, one definition per
handler (`Ping`, `MemRead`, `FDirlist`, ...): `reply` (lock, transfers, unlock), `log`, `job` (a call of `patch_load` or
`patch_stop`), `data` (a further `usbReceive`), `resume`. `Jobs` is the same for the worker. A reply either stops at its first
failed transfer or, as in `rcv_f_read` and `rcv_f_dirlist`, goes on. `todo[t]` is what a thread has still to finish and `pc[t]` where
it is in the first of it; the transfers of a reply are separate steps, so that resets and other
threads come between any two. `made` counts the transfers of the owner's reply; `fresh` and `wire` are the host's view:
whether the reply began in this session, and the part of a reply it has.

`Reset` is a bus reset, a disconnection or a cable pulled at any time: both endpoints answer
`MSG_RESET`, the reader suspends the log pipe, and until `Configure` each transfer fails at once. Handlers without a
waiting operation (parameter changes, MIDI, input events) are left out, as is what the commands say.

- `host_connection`: `RepliesWhole`, an action property: whenever the host takes a transfer, it is the first of a reply if it has
  no part of one, and the next of the reply it has a part of otherwise. Exempt is the rest of a reply that was cut by a reset
  or begun before the host configured the device: the code does send the later entries of a directory list into the next
  session, without their header. `NobodyStuck`: no thread waits for ever for `mtxTransmit`, `mtxWorker`,
  room in the pipe, the worker or the DSP thread.

`NobodyStuck` assumes `HostAnswers`: no transfer stays on the endpoint for ever and the host sends the data it announced,
or resets the bus. Without it the property is false, and that is how the code is: no transfer has a time limit, so a
host that is connected and does not read stops the worker (`patch.c:506`), every caller of
`patch_load` behind it, and, once the pipe is full, the audio of a patch that logs.

One message of room in the pipe (the firmware has `PIPE_SIZE` bytes) makes it full as often as can be; replies have up to three
transfers: a first, one between, a last. One other thread competes with the reader for the worker.

Fairness: `WF` of each thread's own steps; `SF` of the steps that wait for a mutex or the
pipe, which ChibiOS serves in order, and of the worker's wait for the DSP thread, which comes by its slots between any two cycles. The menus' loads in the DSP thread are in
`PatchManager` and left out here, with the deadlock they bring.

## File transfer (`FileTransfer`)

The board keeps one open file, with one reference. The editor's requests about files
hold the connection's monitor from the moment they set the consumer of the
answer until the answer is there or the wait times out; an upload or download is many such requests, and between
two of them the user interface may make one of its own.

Each thread has a `job`, the request of it `at` which it is, and the `phase` of that request: `Prepare` (take the monitor, set
`consumer`, begin to transmit), `Take` (the board's reader has the request and runs its handler: `RcvFOpen` to `RcvFMkdir`), `Return`
(the future is completed: return or throw), `Timeout`, `TransmitTimeout`. `AfterUpload` and `AfterDownload` give the
next request; `GiveUp` is an exception, which ends the job whatever it has open. A handler leaves its packets in
`dev.out`; `Transfer` brings one to the editor's Receiver and `ProcessPacket` gives it to the consumer, which takes it, drops it, or, reading
a header from an empty packet, throws the exception that ends the Receiver (`link = "deaf"`). `rcv_f_write` is two actions, since the
bytes of its block are received after its checks; a `BusReset` between them writes a torn block.

`card` is what the directory entries tell: a file opened for writing is empty there until it is closed. Each block is named after
the job that wrote it, and each packet carries the request it answers; both are history, which no guard of the code's depends on;
only `Hopeless` reads it. `Hopeless` says that no answer to a request can arrive any more; a `Timeout` without it is a late answer and counts as trouble.

- `file_transfer`: with at most one kind of trouble in a behaviour (a late answer, a user who disconnects, a bus reset, a restart, a disk
  fault, a failed read, a full card). `OwnReply`: a request is answered with the packets sent for it. `WholeFile`, `WholeCopy`: the worker's job that succeeds
  has written, or read, its file whole. `OnlyOpener`: an open file holds blocks of its own job only. `LeftOpenByFailure`: a file stays open only while a
  job is at work or because it failed. `JobsEnd`: every job ends. Each names in its own text the trouble it does not survive:
  a full card (`f_write` succeeds and nobody looks at `bytes_written`), a failed read (`RcvFRead` ignores `err`), and late answers.
- `file_info_late`, a counterexample: the javadoc of `getFileInfo` promises null for a file that does not exist. A download's `getFileInfo` times out, its
  answer comes late and completes the `getFileInfo` of the next job, which asked for a directory that is not there.

Bounds: uploads of no and of two blocks (a first and a last, with a place between); two jobs of the worker, so that one meets what
another left behind, and one request of the user interface beside them; two files, one of them in a directory, so that uploads make it, and a
card with either. One kind of trouble, of which a late answer may come again; combinations are left out. The constants of the proofs have no such bounds.

Fairness (`FairSpec`): the threads of the editor and the board run; a wait that is hopeless times out, as `get` has a time limit. Nobody
need begin a job, connect again, or be late. The system may stop when no job is left, so `CHECK_DEADLOCK` is off.

What FatFs does is external: an entry gets its size at the close, a write on a full card is short. Left out: the reuse of the clusters of a
file deleted while it is open, data of a refused write that happen to spell a header, dates, other packets of the connection, and what `connect` asks the firmware for.

## System monitor and boot (`SystemMonitor`)

`main` and the monitor are two callers of the patch manager, each with a `pc`; the menu thread ui2 mounts the card as well. A patch call
is cut down to the mutex, the worker and the status of the slots. `InsertHandler` is three steps per thread (`hpc`: `EnterHandler`, `Connect`,
`Mount`), since `sdcConnect` and `f_mount` wait for the card and the other threads run meanwhile. `Count` is the arithmetic of the switch counter
`sdtmr`; one `Sample` is a turn of the monitor's loop, up to the mount, the start or the stop it makes. `Peripherals` starts the monitor, and only
`StartDsp`, some steps later, initialises the mutex and the slots: until then they are static data, that is, zero, and `RUNNING` is 0.

The card moves at any moment (`MoveSwitch`), so a contact that bounces is included. `Crash` and `PowerOn` are a reset at any moment, with and without
a valid dump in the backup memory; everything else begins afresh.

A dump is not the sign of a crash only. `report_fatfs_error` and the other reports of `exceptions.c:288-368` write its magic number at run time, and nothing
is reset: `OpenRoot` is the one in the modelled code, a root directory that does not open after `ListPatches` has mounted the card; `ReportError` stands for
those of all other threads (a full MIDI buffer, the patch bank, a routing file, patches). So `dump` may appear while `main` is about to load or is loading, and
`main`, which looks at it once (`Check`), loads nevertheless. `kept` tells a dump that was there at the reset and was not reported since; that `main` finds none
*because* it was reported, or does not find it at all, is what `SilentAfterCrash` has to tell apart.

- `system_monitor`: `UntouchedIsQuiet` (while the switch does not move the monitor neither mounts nor calls), `OneWorker` (the worker's static stack has
  one user), `ReadyIsConnected` (`fs_ready` implies a connected card), `AbsenceDropsMount` (a mount the monitor saw does not outlive two samples without a card),
  `SilentAfterCrash` (a board that comes up with a dump loads nothing by itself until it is reported or the card is moved, whatever is reported as a dump meanwhile), `CardOutIsNoticed` (a card gone for good is
  given up).

`touched`, `early`, `overlap`, `sight` and `kept` are histories; the first four name the circumstances in which the code does not keep the promise:

1. *`early`*: a card that is moved during boot makes the monitor call `patch_stop(0)` before `start_dsp_thread` (`sysmon.c:113`). The slots read RUNNING, the stop
   sets STOPPING with nobody to answer, and `start_dsp_thread` then initialises the mutex under its owner: a second worker may be created on the stack of the
   first, or the stop waits for a slot that has been loaded again and never returns.
2. *`overlap`*: two threads inside `InsertHandler` at once can leave `fs_ready` TRUE on a card one of them has just disconnected (`sdcard.c:48-61`).
3. *`sight`*: an absence shorter than two samples is not noticed. One absent sample takes the counter from 5 to 0, and four present ones then load `start.elf` again over the
   same mount (`sysmon.c:95-110`). A card that another thread mounts and that is gone before the monitor's next sample is never unmounted.
4. The comment "if no patch booting or running yet" (`main.c:120`) is about `main`'s own load: the monitor's may have started `start.elf`
   already, and the flash patch is then loaded beside it.

Two slots let `patch_stop(0)` go on from one to the next and `start.elf` be loaded beside another patch. The model has no other bound: the histories are of two or
four values. That TLC finds no deadlock says nothing here, as the card can always be moved and the board reset: that threads go on is what `CardOutIsNoticed` is for. Fairness: `WF` of each thread's steps and `SF` of `Lock`, as for the patch manager; nobody need touch the
card or crash.

## MIDI ports (`MidiPorts`)

A message is its number in the order of the calls of `midiSend`, and a buffer is the sequence that `MidiBuffer` implements. `Send` puts it where the
maps say: the GPIO port, a device at the USB host port, the USB device port. `midi_gpio_enable` is called from the init and dispose code of
patches: `cpc` is where its caller is, and each step of it that the DSP thread or another thread can come between is an action, in the order of the source. That order is
the point: the map is loaded (`LoadRouting`) before the threads exist and before the buffer has a notify (`ObjInit`).

`Writer`, `Read` and `Line` are the port's two threads and its serial line. The writer takes one event at a time, the message before the stop, and blocks in
`sdWrite` when the driver's queue is full; `StopSerial` is `sdStop`, which empties the queue and wakes whoever waits in it with `MSG_RESET`.
`ReadTable` and `WriteTable` are the editor, which shows a routing table only when the port exists and writes it back later.
`Free` is the scheduler: the port's threads and their caller have one priority, so that one runs until it blocks; the DSP thread comes between anything.

- `midi_ports`: `GpioBufferReady` (no message is routed to the GPIO port before its buffer has a notify), `FreshRing` (a port started again takes nothing that was
  sent before), `InOrder` (each port sends in order and nothing twice, over full queues, stops, restarts and failed transfers), `StopReturns`.

What was found on the way:

1. `GpioBufferReady` holds because of an accident: the map is loaded while `nports` is still 0, so that `load_midi_routing` reads no word and applies no default.
   The GPIO port's routing file is therefore never used; the map is 0 until the editor writes one. A repair of that alone (the mutant) would make the
   first put call a null notify.
2. The output buffers of the USB host ports are never initialised (`midi.c:46`): a put to a mapped device calls a null notify, a fault (`fault`), after which the model stops.
3. `midi_gpio_enable(0)` may wait for ever in three ways. Two are on the board (`StopStuck`): the writer, woken by `sdStop`, goes on with its buffer and fills the queue of the stopped driver, or the reader was between two `sdGet`s
   when `sdStop` woke nobody. The third is the host: between the second join and `midi_gpio_active = 0` the code logs "midi_gpio stopped" (`midi_gpio.c:144`), and the log waits without limit for room in the pipe
   (`pconnection.c:370-376`), which a host that is configured and does not read never makes; the port then counts as active with its threads gone. `JoinReader` has both outcomes and `LogStopped` is the end of the wait.
   `StopReturns` assumes the host reads (`HostReads`) and shows that with such a host the first two are the only ways.
4. A message put in the buffer while the port stops stays there; `FreshRing` shows that the restart drops it. What a writer had handed to the driver of a
   stopped port goes out when it is started again.

Bounds: buffers of two messages, a queue and a batch of one, three calls of `midiSend`: a full buffer, a full queue, a burst longer than a batch and a message before,
during and after a restart. `CHECK_DEADLOCK` is off because a fault and a stuck stop are reachable. Fairness: the threads and the line run;
nobody need enable, disable, send or connect. `HostReads` is an assumption about the host and not about the firmware. The board does not restart in this module, so an editor that
keeps a routing table over a restart of the board and writes it back is left out. The type invariant is proved and not in the run, which spends its time on the others.

## User interface (`UserInterface`)

Events are numbered, so that `LastButtonHandled` can tell the last. `QueueButton` and `QueueTurn` are `queueInputEventI`; `GetEvent` and `ClearEvent` are the two halves of
`getEvent`, which the codec interrupt may come between. `Process` runs the handler of the node on top and then Back; `ProcessLong` is a handler
that waits, during which the lower threads run: the Load page's for the card (`CardRead`) and then for `patch_load`, an action's for `f_mkfs` (Format), for `patch_load` (the load from a bank) or for nothing (Write).
`Entries` is the menu tree cut down to one entry of each kind of node: lists, the Params and Load pages, an action and the result.

Thread ui2 takes one dirty flag at a time (`TakeFlag`), looks at the node on top, and paints (`Paint`), reading the stack again. `shown` is what was painted last in the
header and in the page. The Load page's `refresh(TRUE)` draws as well, in the DSP thread, after it has waited for the card, and signals no flag (`DrawFiles`); `smeared` are the parts it drew over a page that is
not its own. The patch worker has the steps of `PatchManager` that change the first slot, tell the menus to go home or wait for the host; `inst` is the instance that the Params page reads.

- `user_interface`: `ScreenFollows` (with no flag left, the screen shows the node on top and its cursor, but for the result of a format and for `smeared` parts), `ParamsLive` (the Params page, entered while the
  first slot holds a live patch, is left before that patch is gone but for the window of `patch.c:522-523`), `LastButtonHandled`.

What was found on the way:

1. The page with the result of a format is entered from an action's handler, which returns no flag (`sdcard_menu.c:40-42`, `action_function.c:3-9`): it stays blank
   until the next event, and is exempted.
2. While the Load page's handler waits for the card, a load by the host may send the menus home and ui2 may paint the root page with its last flag. The handler then draws a file's name, or "////", over it
   (`loadpatch_menu.c:59-107`) and returns 0. If a load follows, that one sends the menus home again; if the file is gone, or the card, nobody repaints. `ScreenFollows` exempts exactly the parts drawn over, until they are painted.
3. A list of files that has become shorter than `sel`, or a card that fails, makes `refresh` draw "////" from row `1 - sel` on: with `sel` 1 or more this is row 0, the header
   (rows above the screen are dropped by the display's checks). The painter of the Load page does this too.
4. An event that an interrupt queues between the read and the clear of `getEvent` (`ui.c:508-509`) is lost (`slipped`).
5. `queueInputEventI` says "button release event takes priority" (`ui.c:496`), but a press overwrites a release that was not polled just as well (498-499): only the last event is promised.
6. `paramList.patch` is written by `ui_init_patch` and read by nobody: the Params page reads the first slot, whatever its status (`rash`).
7. The check that the stack is full (`ui.c:163`) is never needed: the real tree is at most five deep, and the stack has ten places. With the
   four places of the run the deepest way just fits.
8. The entry "Write" of the SD card menu is `while(1){}` (`sdcard_menu.c:46`): choosing it stops the DSP thread for good, and as it spins above them, all lower threads with it (`DspWaits`).
9. A handler that waits for a load waits for the host: the worker logs when a patch was made for another version of the API (`patch.c:462-467`, part of `LoadElf`), and sends the list of patches (506, `TxPatchList`).
   So does a stop, which a handler may wait behind (526).

Bounds: four button events (enter a page, and what can happen to it while a handler waits), one step of an encoder, one load or stop from outside beside those of the menus.
`CHECK_DEADLOCK` is off because of the deadlock of `patch_menu_load`, because of Write, and because nobody need press a button. Fairness: the DSP thread and the worker run, the card answers or fails; `SF` of the
menu's `chMtxLock`. ui2 need not: it, too, waits for the card and for the host when it logs (`loadpatch_menu.c:25`). `HostReads` is the assumption that the host reads what the worker logs and sends, as `HostAnswers` of `HostConnection`; without it
`LastButtonHandled` is false, and that is how the code is.

## What is proved

tlapm checks these for every value of the constants, from the `ASSUME`s of the modules and nothing else.

| module | theorem | says |
|---|---|---|
| `PatchManagerProofs` | `Types`, `StackFree`, `PlaysLive`, `NoInstanceLost`, `UiFindsPatch`, `LetGoFirst`, `ImagesAccountedFor` | the invariants and the action properties of `patch_safety`, for any number of slots, callers and images |
| `PatchManagerProofs` | `Refinement` | `Spec` implements `PatchLifecycle!Spec` |
| `PatchManagerProofs` | `OnlyOneDeadlock`, `NoDeadlockWithoutMenuLoads`, `DeadlockLasts` | a call under way can always be moved on, but for the deadlock of a load from the menu with a stop, which is for ever |
| `MidiBufferProofs` | `Types`, `NoLostWakeUps` | for a buffer of any size, any producers and any preemption: the indices stay in range and no wake-up is lost |
| `MidiBufferProofs` | `QueueImplemented`, `AcceptedOnce` | a buffer whose producers do not preempt each other implements the queue |
| `MidiDecoderProofs` | `Types`, `FramingImplemented` | the decoder implements the framing, whatever set of bytes arrives |
| `HostConnectionProofs` | `Invariance`, `Types`, `RepliesAreWhole` | replies are whole, for any number of other threads and any size of the pipe |
| `HostConnectionProofs` | `NoCircularWait`, `NoDeadlock` | the threads never wait in a circle and somebody can always go on, unless the DSP thread loads patches |
| `FileTransferProofs` | `Types`, `OwnReplies`, `UploadsWhole`, `DownloadsWhole`, `BlocksOfOpener`, `SuccessCloses` | the invariants of `file_transfer`: every request gets its own answer and a job that succeeds has moved its file whole and closed it, for any files, sizes, numbers of jobs and combinations of trouble other than the kinds each property names |
| `SystemMonitorProofs` | `TypeCorrect`, `UntouchedIsQuietHolds`, `OneWorkerHolds`, `ReadyIsConnectedHolds`, `AbsenceDropsMountHolds`, `SilentAfterCrashHolds` | the invariants of `system_monitor`, for any number of slots |
| `MidiPortsProofs` | `TypeCorrect`, `GpioBufferReadyHolds`, `FreshRingHolds`, `InOrderHolds` | the type invariant of `MidiPorts` and the invariants of `midi_ports`, for any sizes and any number of messages |
| `MidiPortsProofs` | `WorkAreasFreeHolds`, `StopGoesOnHolds` | no thread is created in a working area in use, and what a stop waits for goes on, but for `StopStuck`, up to the log, where only the host can keep it |
| `UserInterfaceProofs` | `TypeCorrect`, `ScreenFollowsHolds`, `ParamsLiveHolds` | the invariants of `user_interface`, for any depth of the stack and any number of events |
| `UserInterfaceProofs` | `ButtonKeptHolds` | the last button event waits to be polled, whatever happens, unless it slipped into `getEvent` |
| `UserInterfaceProofs` | `HandlerWaitsHolds` | whenever a menu handler keeps the DSP thread, it waits for the card, for its turn on `mtxWorker`, for a worker that is on its way, for the host, or is in one of two traps; each step of a load it has joined brings that nearer to its end; the traps, the deadlock with a stop and Write, last for ever |

*Patch manager.* None of the properties is inductive: that a RUNNING slot is live, for example, depends on where the worker is and on there being one
worker. The invariant `IInv` adds to the types that the worker knows its slot when it works on one, that exactly the owner of the mutex is between lock and unlock and a
worker exists exactly while that owner joins it (`OneCall`), what
a slot looks like at each stage of a load (`Loading`) and of a stop (`Stopping`), what all other slots look like (`Settled`), and that at least one image is allocated for each slot that has one (`ImageCount`). The
invariant is proved action by action; the refinement is one step per action, each of which is a step
of one slot's life or a stutter.

The proofs about deadlocks are of a further invariant (`StopOwner`: the DSP thread only loads, and a worker that stops a slot works for a thread that
stops one). `CanGoOn` is the disjunction of the guards of a call's, the worker's and the DSP thread's next steps. Going through the places of a thread, each is covered by a step of its own, of
the owner of the mutex or of the worker; the poll of a stop is left, and it is covered by the DSP thread's cycle unless that thread
waits in `chMtxLock` for the very mutex. This is why `NoDeadlockWithoutMenuLoads` needs its hypothesis: with menu loads the
state is reached (run `patch_menu_load`).

*Buffer.* `Types` and `NoLostWakeUps` assume nothing: their invariant (`StepInv`, `WInv`) only says that each process is in its own call, so it also
holds for the shared input buffer, where messages are lost. The refinement assumes that producers do not preempt each other (`ProducersApart`), which is weaker than the one producer of the run: in the code it is
any number of threads of one priority. Where producers do preempt each other it is false (run `midi_input_shared`). A producer inside its put then has all others idle (`Alone`). The invariant says what each program
counter implies for the process's local variables: between the room test and the publication the slot at
`next` is free, whatever the consumer did meanwhile. The proof that a get takes the head and a put adds at the tail is by arithmetic modulo the size.

*Decoder.* The invariant `MessageKnown` ties the counters to the status byte: in a message, `midiNumData` is its length
less one and fewer data bytes have been kept. It makes the byte counts of a cut-short dump harmless.

*Host connection.* The invariant says that exactly the thread inside a reply owns `mtxTransmit` and exactly the one that joins the worker owns
`mtxWorker` (`Owners`), that a transfer on the endpoint is the one its owner waits for (`Endpoint`), how many transfers it has
made (`Made`), and what part of its reply the host has (`Wire`). `RepliesWhole` follows from the last three. It is not inductive without
`Owners`: a second thread in a reply would put its transfer between.

The absence of circles is proved with a level for each place in which a thread can wait (`Level`): who waits for `mtxTransmit`, for room in the pipe, for the DSP thread to let go of a slot, for the
worker and for `mtxWorker` waits for a thread of a lower level (`Descends`), so the least of any set of threads waits for none of it. With the DSP
thread among those that load (`Dsp \in Others`) it waits for `mtxWorker` at the level of loads while stops wait for it: TLC finds the circle, and it is the deadlock of
`patch_menu_load`. `NoDeadlock` follows with what the threads with a loop of their own do in it (`Roles`).

*File transfer.* `Inv` says that a thread that is ready has a request to make and that answers have the values of their kind (`Requests`), that exactly the thread that transmits or
waits owns the monitor and the consumer is that of its request (`Monitor`), and, as long as nothing was late or hung up, that every packet on its way, in `dev.out` or in `inbox`, and
everything the consumer has taken so far belongs to the request that the owner of the monitor waits for, and that the request still being taken has none (`Answers`).
Without `Answers` the property is not inductive: an answer of an earlier request could still be on its way. Every exit of a
request (answer, time-out, reset, disconnection) has to leave none behind, and the two that do not are the two that `OwnReply` exempts.

The other four rest on `Inv` and on `JobInv`. Of each step of a job it says what the step relies on (`Uploads`, `Downloads`): before the n-th write the file is
the job's own and holds its first n - 1 blocks, or is closed because the board restarted; before the n-th read the worker has the first n - 1
blocks. Of each answer on its way, or come, it says that the step after it has what that one relies on (`Tells`). So `Return` has nothing to show; the handlers
have, each for its own request (`UploadTakes`, `DownloadTakes`, `ReceiveRestTracks`), and everything others do between two requests only loses the file or deletes entries (`Kept`, `OthersTracks`).

*System monitor.* `Rests` says what the counter is while the switch has not moved (5, or -5 or -2, none of which the next sample takes to 4 or to -1);
`LockHeld`, that a caller between lock and unlock owns the mutex, unless a call was early; `MountsAlone`, that no
thread is inside `InsertHandler` while `fs_ready` holds; `Counted`, what the counter is when a mount has been seen or missed; `NoFirstPatch`, that `main` stays clear of its
calls while the dump of the reset is there: a dump that is reported at run time may come after `main` has looked, so the invariant is about `kept` and has to say that what is kept is still in `dump`. `BootOrder` ties the two program counters and the jobs together, and every one of the others needs it.

*MIDI ports.* `GpioBufferReady` follows from `ReadyBefore`: a map that is set, or a table the editor has, was written after a start went through `ObjInit`. `FreshRing` needs where the
caller is in `midi_gpio_enable` and that no writer exists before `CreateThreads` (`CallerOrder`, `FreshBefore`). `InOrder` is inductive once what is in the line, the queue, the writer's
hand and the buffer is taken as one sequence, all of it below `sent` (`GpioOrder`, `UsbdOrder`). That a stop goes on rests on `StopInv`: the writer's stop event stays pending until the
writer takes it, and the threads live exactly from `CreateThreads` to the two joins; when the stop waits for the log, both are gone.

*User interface.* `Painted` says, for each part of the screen, that it shows the node on top, or a flag is still set for it, or the painter is about to paint it, or the list of files was drawn over it: the order in which flags are taken, clear before header before page, is what makes it inductive. `Params` ties the stage of the worker to what the instance is and to
whether the Params page may be on the stack.

The button word keeps the last event because the interrupt is the only writer but for `getEvent`, which clears what it read unless one slipped in
between (`ClearsWhatItRead`). That the worker a handler has joined loads, and so never waits for a cycle of the DSP thread (`JoinsALoad`), is inductive as it stands; `Rank` counts what is left of that load. Three things can keep a handler for ever:
the deadlock with a stop, Write, and a host that does not read. `HandlerWaitsHolds` says that there is no fourth, as far as safety goes: that the card answers, that the mutex comes round and that the worker takes the step it can take
is fairness, under which TLC checks `LastButtonHandled`.

Only model-checked: everything under fairness (`Delivered`, `OnlyDspDeadlockBlocks`, `NobodyStuck`, `JobsEnd`, `CardOutIsNoticed`, `StopReturns`, `LastButtonHandled`). The prover has no rule
for fairness and `ENABLED`. What is proved of five of them is the safety half, that what they wait for is not lost and that somebody can go on (`NoLostWakeUps`, `OnlyOneDeadlock`, `NoDeadlock`,
`StopGoesOnHolds`, `ButtonKeptHolds`); that it then happens is what TLC checks.

## Plan

Done: patch manager, its lifecycle, ring buffer and queue, decoder and framing, host connection, file transfer, system monitor with boot and crash, MIDI ports, user interface, with the theorems above.

What is left, in this order; each has its hazards in `PROJECT.json`:

1. Composition of `HostConnection` with `PatchLifecycle`: a patch whose status was checked before a wait (`pconnection.c:432`).
2. The input machine of the USB host class, driven by SOF, with a host library that may be busy, refuse or lose the device (`usbh_midi_core.c:362-418`). Its output machine
   has nothing to send as long as its buffer is not initialised.
3. `Flash` and `SpiLink`, small and with external hardware.

## Not modelled

Audio data, display drawing, the fixed-point DSP library, register set-up of the codec and board, vendor libraries, and the desktop
editor except for its file requests and routing tables. ChibiOS, FatFs and the image loader enter only as far as their callers in `src/` rely on them.

The modules translate a small share of the lines in the tree. Of its ninety thousand lines of C, C++ and Java implementation most are vendored or
generated: the STM32 HAL, its register definitions and CMSIS with the DSP library, the USB host library, FatFs and the loader's headers. They are straight-line code on registers, tables and
third-party code, whose behaviour enters as the external definitions. Of the firmware proper, which has some ten thousand lines, what is
concurrent, keeps state over several calls, or recovers from a failure is modelled; what is left besides the plan is drawing, arithmetic on samples, set-up of pins and devices, and tables.
