----------------------------- MODULE MidiPorts -----------------------------
(***************************************************************************)
(* The MIDI outputs a patch sends to, and a port that comes and goes:      *)
(* midi.c, midi_gpio.c, midi_usb.c, midi_routing.c and the connection of   *)
(* usbh_midi_core.c.  midiSend, in the DSP thread, puts a message into the *)
(* buffer of every port the routing maps name.  midi_gpio_enable, called   *)
(* by the init and dispose code of patches, starts and stops the threads   *)
(* of the GPIO port; the USB host thread maps a device as it connects; the *)
(* editor writes the maps.                                                 *)
(*                                                                         *)
(* MidiBuffer has what happens inside a buffer: here it is a sequence.  A  *)
(* message is its number, in the order of the calls of midiSend.           *)
(*                                                                         *)
(* The DSP thread runs above the threads of the port, their caller and the *)
(* host connection, which have one priority and no time slices: of them    *)
(* one goes on until it blocks (Free).                                     *)
(***************************************************************************)
EXTENDS Naturals, Sequences, SequencesExt

CONSTANTS
  RingSize,    \* messages a buffer holds, MIDI_RING_BUFFER_SIZE - 1
  QueueSize,   \* messages the serial driver's output queue holds
  Batch,       \* messages usbd_midi_out takes at once
  MaxMsgs      \* bound of the calls of midiSend

ASSUME PortsAssumption ==
  /\ RingSize \in Nat \ {0} /\ QueueSize \in Nat \ {0}
  /\ Batch \in Nat \ {0} /\ MaxMsgs \in Nat

VARIABLES
  sent,       \* messages midiSend was called with
  fault,      \* was a null notify called?
  gmap,       \* is midi_gpio_outputmap.bmvports[0] set?
  gports,     \* nports of the GPIO maps
  active,     \* midi_gpio_active
  cpc,        \* where the caller of midi_gpio_enable is
  notify,     \* has midi_gpio_output a notify?
  ring,       \* midi_gpio_output
  evt,        \* events of the writer thread: 1 is a message, 2 the stop
  writer,     \* where ThreadMidiOut is
  hand,       \* the message it is writing, if any
  reader,     \* where ThreadMidiIn is
  serial,     \* is SD2 started?
  queue,      \* the output queue of SD2
  gout,       \* the last message on the GPIO line
  mark,       \* history: sent when the GPIO port was last started
  table,      \* has the editor read a GPIO table that has a port?
  uring,      \* midi_output_usbd
  uevt,       \* event of usbd_midi_out
  usbd,       \* where usbd_midi_out is
  batch,      \* its outbuf
  uout,       \* the last message the host got
  hports,     \* nports of midi_outputmap_usbh1: is a device connected?
  hmap        \* is its bmvports[0] set?

gpioVars == <<gmap, gports, active, cpc, notify, ring, evt, writer, hand, reader,
              serial, queue, gout, mark, table>>
usbdVars == <<uring, uevt, usbd, batch, uout>>
usbhVars == <<hports, hmap>>
vars == <<sent, fault, gpioVars, usbdVars, usbhVars>>

Msg == 1 .. MaxMsgs
CallerRuns == {"create", "objinit", "ports", "sdstop", "signal"}

TypeOK ==
  /\ sent \in 0 .. MaxMsgs /\ mark \in 0 .. sent
  /\ gout \in 0 .. sent /\ uout \in 0 .. sent
  /\ fault \in BOOLEAN /\ gmap \in BOOLEAN /\ active \in BOOLEAN
  /\ notify \in BOOLEAN /\ serial \in BOOLEAN /\ table \in BOOLEAN
  /\ uevt \in BOOLEAN /\ hmap \in BOOLEAN
  /\ gports \in {0, 1} /\ hports \in {0, 1}
  /\ cpc \in {"idle", "load", "joinw", "joinr", "log"} \cup CallerRuns
  /\ evt \in SUBSET {1, 2}
  /\ writer \in {"none", "wait", "get", "blocked", "reset"}
  /\ reader \in {"none", "get", "byte", "reset"}
  /\ usbd \in {"wait", "transmit", "sleep"}
  /\ ring \in Seq(Msg) /\ Len(ring) <= RingSize
  /\ uring \in Seq(Msg) /\ Len(uring) <= RingSize
  /\ queue \in Seq(Msg) /\ Len(queue) <= QueueSize
  /\ hand \in Seq(Msg) /\ Len(hand) <= 1
  /\ batch \in Seq(Msg) /\ Len(batch) <= Batch

\* midi_gpio_output and USBHMIDIC are static, and nobody initialises the
\* buffers of the latter.
Init ==
  /\ sent = 0 /\ fault = FALSE
  /\ gmap = FALSE /\ gports = 0 /\ active = FALSE /\ cpc = "idle" /\ notify = FALSE
  /\ ring = <<>> /\ evt = {} /\ writer = "none" /\ hand = <<>> /\ reader = "none"
  /\ serial = FALSE /\ queue = <<>> /\ gout = 0 /\ mark = 0 /\ table = FALSE
  /\ uring = <<>> /\ uevt = FALSE /\ usbd = "wait" /\ batch = <<>> /\ uout = 0
  /\ hports = 0 /\ hmap = FALSE

\* load_midi_routing: the file, or the default, for as many words as the
\* port has channels: for none it leaves the map alone.
Routing(nports, map) == IF nports = 0 THEN {map} ELSE BOOLEAN

---------------------------------------------------------------------------
(* midiSend.                                                               *)

Room(r) == Len(r) < RingSize

\* The virtual port of the message is routed to the ports whose map has its
\* bit; the map of the USB device, which any editor may write, is any map.
\* The buffers of the USB host ports have no notify.
Send ==
  /\ sent < MaxMsgs
  /\ sent' = sent + 1
  /\ \E toGpio \in {FALSE, gmap}, toUsbh \in {FALSE, hports > 0 /\ hmap},
        toUsbd \in BOOLEAN :
       /\ IF toGpio /\ Room(ring)
          THEN ring' = Append(ring, sent') /\ evt' = evt \cup {1}
          ELSE UNCHANGED <<ring, evt>>
       /\ IF toUsbd /\ Room(uring)
          THEN uring' = Append(uring, sent') /\ uevt' = TRUE
          ELSE UNCHANGED <<uring, uevt>>
       /\ fault' = ((toGpio /\ Room(ring) /\ ~ notify) \/ toUsbh)
  /\ UNCHANGED <<gmap, gports, active, cpc, notify, writer, hand, reader, serial, queue,
                 gout, mark, table, usbd, batch, uout, usbhVars>>

---------------------------------------------------------------------------
(* midi_gpio_enable.  The caller and the writer do not interrupt each      *)
(* other.                                                                  *)

Free == writer # "get" /\ cpc \notin CallerRuns

CallerAt(from, to) == cpc = from /\ cpc' = to /\ writer # "get"

Enable ==
  /\ CallerAt("idle", "load") /\ ~ active
  /\ UNCHANGED <<sent, fault, gmap, gports, active, notify, ring, evt, writer, hand,
                 reader, serial, queue, gout, mark, table, usbdVars, usbhVars>>

\* Faulty: nports is set first, so that there is something to load.
LoadRoutingOfPort ==
  /\ CallerAt("load", "create")
  /\ gports' = 1
  /\ gmap' \in Routing(1, gmap)
  /\ UNCHANGED <<sent, fault, active, notify, ring, evt, writer, hand, reader, serial,
                 queue, gout, mark, table, usbdVars, usbhVars>>

LoadRouting ==
  /\ CallerAt("load", "create")
  /\ gmap' \in Routing(gports, gmap)
  /\ UNCHANGED <<sent, fault, gports, active, notify, ring, evt, writer, hand, reader,
                 serial, queue, gout, mark, table, usbdVars, usbhVars>>

\* sdStart, which leaves the queues as they are, and the two threads.
CreateThreads ==
  /\ CallerAt("create", "objinit")
  /\ serial' = TRUE /\ reader' = "get"
  /\ writer' = "wait" /\ evt' = {} /\ hand' = <<>>
  /\ mark' = sent
  /\ UNCHANGED <<sent, fault, gmap, gports, active, notify, ring, queue, gout, table,
                 usbdVars, usbhVars>>

\* Faulty: a buffer that was initialised before is left as it is.
ObjInitOnce ==
  /\ CallerAt("objinit", "ports")
  /\ notify' = TRUE
  /\ ring' = IF notify THEN ring ELSE <<>>
  /\ UNCHANGED <<sent, fault, gmap, gports, active, evt, writer, hand, reader, serial,
                 queue, gout, mark, table, usbdVars, usbhVars>>

\* midi_output_buffer_objinit; a message put between two of its assignments
\* is lost as one put before them.
ObjInit ==
  /\ CallerAt("objinit", "ports")
  /\ notify' = TRUE
  /\ ring' = <<>>
  /\ UNCHANGED <<sent, fault, gmap, gports, active, evt, writer, hand, reader, serial,
                 queue, gout, mark, table, usbdVars, usbhVars>>

Started ==
  /\ CallerAt("ports", "idle")
  /\ gports' = 1 /\ active' = TRUE
  /\ UNCHANGED <<sent, fault, gmap, notify, ring, evt, writer, hand, reader, serial, queue,
                 gout, mark, table, usbdVars, usbhVars>>

Disable ==
  /\ CallerAt("idle", IF active THEN "sdstop" ELSE "idle")
  /\ gmap' = FALSE /\ gports' = 0
  /\ UNCHANGED <<sent, fault, active, notify, ring, evt, writer, hand, reader, serial,
                 queue, gout, mark, table, usbdVars, usbhVars>>

\* sdStop empties both queues and wakes who waits in them with MSG_RESET: a
\* reader that has been woken by a byte and has not run yet is not among them.
StopSerial ==
  /\ CallerAt("sdstop", "signal")
  /\ serial' = FALSE /\ queue' = <<>>
  /\ reader' = IF reader = "get" THEN "reset" ELSE reader
  /\ IF writer = "blocked" /\ Len(queue) = QueueSize
     THEN writer' = "reset" /\ hand' = <<>>
     ELSE UNCHANGED <<writer, hand>>
  /\ UNCHANGED <<sent, fault, gmap, gports, active, notify, ring, evt, gout, mark, table,
                 usbdVars, usbhVars>>

SignalStop ==
  /\ CallerAt("signal", "joinw")
  /\ evt' = evt \cup {2}
  /\ UNCHANGED <<sent, fault, gmap, gports, active, notify, ring, writer, hand, reader,
                 serial, queue, gout, mark, table, usbdVars, usbhVars>>

JoinWriter ==
  /\ CallerAt("joinw", "joinr")
  /\ writer = "none"
  /\ UNCHANGED <<sent, fault, gmap, gports, active, notify, ring, evt, writer, hand,
                 reader, serial, queue, gout, mark, table, usbdVars, usbhVars>>

\* The second join, and LogTextMessage, which waits if the log pipe is full.
JoinReader ==
  /\ reader = "none"
  /\ \/ CallerAt("joinr", "idle") /\ active' = FALSE
     \/ CallerAt("joinr", "log") /\ UNCHANGED active
  /\ UNCHANGED <<sent, fault, gmap, gports, notify, ring, evt, writer, hand, reader,
                 serial, queue, gout, mark, table, usbdVars, usbhVars>>

\* The host has read from the pipe, and midi_gpio_deinit ends.
LogStopped ==
  /\ CallerAt("log", "idle")
  /\ active' = FALSE
  /\ UNCHANGED <<sent, fault, gmap, gports, notify, ring, evt, writer, hand, reader,
                 serial, queue, gout, mark, table, usbdVars, usbhVars>>

Caller ==
  LoadRouting \/ CreateThreads \/ ObjInit \/ Started \/ StopSerial \/ SignalStop
    \/ JoinWriter \/ JoinReader

---------------------------------------------------------------------------
(* The threads of the GPIO port, and its line.                             *)

\* Faulty: takes all events at once and looks at one.
WakeAny ==
  /\ writer = "wait" /\ evt # {} /\ Free
  /\ evt' = {}
  /\ writer' = IF 1 \in evt THEN "get" ELSE "none"
  /\ UNCHANGED <<sent, fault, gmap, gports, active, cpc, notify, ring, hand, reader,
                 serial, queue, gout, mark, table, usbdVars, usbhVars>>

\* chEvtWaitOne: the lowest event, one at a time.
Wake ==
  /\ writer = "wait" /\ evt # {} /\ Free
  /\ IF 1 \in evt THEN evt' = evt \ {1} /\ writer' = "get"
                  ELSE evt' = {} /\ writer' = "none"
  /\ UNCHANGED <<sent, fault, gmap, gports, active, cpc, notify, ring, hand, reader,
                 serial, queue, gout, mark, table, usbdVars, usbhVars>>

\* Faulty: a message that finds the queue full is left in the buffer, too.
GetKeeping ==
  /\ writer = "get"
  /\ \/ ring = <<>> /\ writer' = "wait" /\ UNCHANGED <<ring, queue, hand>>
     \/ /\ ring # <<>> /\ Len(queue) < QueueSize
        /\ queue' = Append(queue, Head(ring)) /\ ring' = Tail(ring)
        /\ UNCHANGED <<writer, hand>>
     \/ /\ ring # <<>> /\ Len(queue) = QueueSize
        /\ hand' = <<Head(ring)>> /\ writer' = "blocked"
        /\ UNCHANGED <<queue, ring>>
  /\ UNCHANGED <<sent, fault, gmap, gports, active, cpc, notify, evt, reader, serial, gout,
                 mark, table, usbdVars, usbhVars>>

\* midi_output_buffer_get, and sdWrite as far as it gets.
Get ==
  /\ writer = "get"
  /\ \/ ring = <<>> /\ writer' = "wait" /\ UNCHANGED <<ring, queue, hand>>
     \/ /\ ring # <<>> /\ Len(queue) < QueueSize
        /\ queue' = Append(queue, Head(ring)) /\ ring' = Tail(ring)
        /\ UNCHANGED <<writer, hand>>
     \/ /\ ring # <<>> /\ Len(queue) = QueueSize
        /\ hand' = <<Head(ring)>> /\ ring' = Tail(ring)
        /\ writer' = "blocked" /\ UNCHANGED queue
  /\ UNCHANGED <<sent, fault, gmap, gports, active, cpc, notify, evt, reader, serial, gout,
                 mark, table, usbdVars, usbhVars>>

\* sdWrite goes on when there is room, or gives up after MSG_RESET.
Resume ==
  /\ Free
  /\ \/ /\ writer = "blocked" /\ Len(queue) < QueueSize
        /\ queue' = queue \o hand /\ hand' = <<>>
     \/ writer = "reset" /\ UNCHANGED <<queue, hand>>
  /\ writer' = "get"
  /\ UNCHANGED <<sent, fault, gmap, gports, active, cpc, notify, ring, evt, reader, serial,
                 gout, mark, table, usbdVars, usbhVars>>

Writer == Wake \/ Get \/ Resume

\* The reader runs: it decodes its byte, or finds the queue emptied under it
\* and waits again, or leaves its loop.
Read ==
  /\ reader \in {"byte", "reset"} /\ Free
  /\ reader' = IF reader = "byte" THEN "get" ELSE "none"
  /\ UNCHANGED <<sent, fault, gmap, gports, active, cpc, notify, ring, evt, writer, hand,
                 serial, queue, gout, mark, table, usbdVars, usbhVars>>

ByteComes ==
  /\ serial /\ reader = "get"
  /\ reader' = "byte"
  /\ UNCHANGED <<sent, fault, gmap, gports, active, cpc, notify, ring, evt, writer, hand,
                 serial, queue, gout, mark, table, usbdVars, usbhVars>>

\* The line takes a message from the queue.
Line ==
  /\ serial /\ queue # <<>>
  /\ gout' = Head(queue) /\ queue' = Tail(queue)
  /\ UNCHANGED <<sent, fault, gmap, gports, active, cpc, notify, ring, evt, writer, hand,
                 reader, serial, mark, table, usbdVars, usbhVars>>

---------------------------------------------------------------------------
(* The editor, which shows a table only if it has a port, and writes the   *)
(* one it has read, which may be stale.                                    *)

ReadTable ==
  /\ gports = 1 /\ Free
  /\ table' = TRUE
  /\ UNCHANGED <<sent, fault, gmap, gports, active, cpc, notify, ring, evt, writer, hand,
                 reader, serial, queue, gout, mark, usbdVars, usbhVars>>

WriteTable ==
  /\ table /\ Free
  /\ gmap' \in BOOLEAN
  /\ UNCHANGED <<sent, fault, gports, active, cpc, notify, ring, evt, writer, hand,
                 reader, serial, queue, gout, mark, table, usbdVars, usbhVars>>

---------------------------------------------------------------------------
(* usbd_midi_out, the port of the USB device.                              *)

\* Each compute cycle signals the thread, too.
Cycle ==
  /\ uevt' = TRUE
  /\ UNCHANGED <<sent, fault, gpioVars, uring, usbd, batch, uout, usbhVars>>

TakeBatch ==
  /\ usbd = "wait" /\ uevt
  /\ uevt' = FALSE
  /\ batch' = SubSeq(uring, 1, IF Len(uring) < Batch THEN Len(uring) ELSE Batch)
  /\ uring' = SubSeq(uring, Len(batch') + 1, Len(uring))
  /\ usbd' = IF batch' = <<>> THEN "wait" ELSE "transmit"
  /\ UNCHANGED <<sent, fault, gpioVars, uout, usbhVars>>

\* The host takes the batch, or the transfer fails and the thread sleeps.
Transmit ==
  /\ usbd = "transmit"
  /\ \/ usbd' = "wait" /\ uout' = Last(batch)
     \/ usbd' = "sleep" /\ UNCHANGED uout
  /\ batch' = <<>>
  /\ UNCHANGED <<sent, fault, gpioVars, uring, uevt, usbhVars>>

WakeUp ==
  /\ usbd = "sleep" /\ usbd' = "wait"
  /\ UNCHANGED <<sent, fault, gpioVars, uring, uevt, batch, uout, usbhVars>>

---------------------------------------------------------------------------
(* A device at the USB host port.                                          *)

InterfaceInit ==
  /\ hports = 0 /\ hports' = 1
  /\ UNCHANGED <<sent, fault, gpioVars, usbdVars, hmap>>

\* MIDI_INIT: the device's name is known, and with it its routing file.
NameKnown ==
  /\ hports = 1
  /\ hmap' \in Routing(hports, hmap)
  /\ UNCHANGED <<sent, fault, gpioVars, usbdVars, hports>>

InterfaceDeInit ==
  /\ hports = 1 /\ hports' = 0
  /\ UNCHANGED <<sent, fault, gpioVars, usbdVars, hmap>>

---------------------------------------------------------------------------

Gpio == Enable \/ Disable \/ Caller \/ LogStopped \/ Writer \/ Read \/ ByteComes \/ Line
Usb == Cycle \/ TakeBatch \/ Transmit \/ WakeUp
Editor == ReadTable \/ WriteTable
UsbHost == InterfaceInit \/ NameKnown \/ InterfaceDeInit

Next == ~ fault /\ (Send \/ Gpio \/ Usb \/ Editor \/ UsbHost)

Spec == Init /\ [][Next]_vars

\* The threads run; nobody need enable, disable, send or connect.
Fairness ==
  /\ WF_vars(~ fault /\ Caller) /\ WF_vars(~ fault /\ Writer)
  /\ WF_vars(~ fault /\ Read) /\ WF_vars(~ fault /\ Line)

\* An assumption about the host: it reads the log, or is not configured, and
\* then the pipe takes everything.
HostReads == WF_vars(~ fault /\ LogStopped)

FairSpec == Spec /\ Fairness /\ HostReads

---------------------------------------------------------------------------
(* Properties.                                                             *)

\* midiSend never puts into the GPIO port's buffer before that has a notify,
\* in whatever order patches start the port, cards are mounted and the editor
\* routes: the null notify it could call is that of a USB host port.
GpioBufferReady == gmap => notify

\* A port that has been stopped and started again begins with an empty
\* buffer: nothing sent before the start is taken from it.
FreshRing ==
  active /\ cpc = "idle" =>
    \A i \in DOMAIN (hand \o ring) : (hand \o ring)[i] > mark

Increasing(s) == \A i, j \in DOMAIN s : i < j => s[i] < s[j]

\* Each port sends its messages in the order of the calls of midiSend, and
\* none twice, over full queues, stops, restarts and failed transfers.
InOrder ==
  /\ Increasing(<<gout>> \o queue \o hand \o ring)
  /\ Increasing(<<uout>> \o batch \o uring)

\* What keeps midi_gpio_enable(0) for ever, whatever the host does: the writer
\* fills the queue of the stopped driver, or the reader was not in sdGet when
\* sdStop woke it.
StopStuck ==
  \/ ~ serial /\ writer = "blocked" /\ Len(queue) = QueueSize
  \/ ~ serial /\ reader = "get"

\* Stopping the port returns, but for these two cases, if the host reads the log.
StopReturns ==
  cpc \in {"joinw", "joinr", "log"} ~> cpc = "idle" \/ StopStuck \/ fault

===========================================================================
