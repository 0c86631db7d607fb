---------------------------- MODULE MidiFraming ----------------------------
(***************************************************************************)
(* What firmware/midi_decoder.h promises of a serial MIDI stream: each     *)
(* message comes out as one packet when its last byte arrives, and a       *)
(* system exclusive dump as a run of packets of three bytes and one that   *)
(* ends it.  A real-time byte passes through whatever it interrupts.       *)
(*                                                                         *)
(* Nothing is promised about bytes that belong to no message (data before  *)
(* a status byte or after a dump, the end of no dump), but a status byte   *)
(* always starts afresh after them.                                        *)
(***************************************************************************)
EXTENDS Integers, Sequences

CONSTANTS
  Byte,                    \* the bytes that may arrive
  SysExStart, SysExEnd,
  Length                   \* the length of the message each status byte starts

NoStatus == 0
Nothing == [kind |-> "nothing", bytes |-> <<>>]

VARIABLES
  data,                    \* the byte that arrived last
  status,                  \* the message or dump being received, or NoStatus
  held,                    \* its bytes that no packet has carried yet
  out                      \* the packet that this byte completed

vars == <<data, status, held, out>>

IsData(b) == b < 128

IsStatus(b) == b >= 128 /\ b \notin {SysExStart, SysExEnd}

Sends(k, bytes) == out' = [kind |-> k, bytes |-> bytes]

Init == data = NoStatus /\ status = NoStatus /\ held = <<>> /\ out = Nothing

RealTime(b) ==
  /\ IsStatus(b) /\ Length[b] = 1
  /\ Sends("message", <<b>>)
  /\ UNCHANGED <<status, held>>

Start(b) ==
  /\ b = SysExStart \/ (IsStatus(b) /\ Length[b] > 1)
  /\ status' = b
  /\ held' = <<b>>
  /\ out' = Nothing

\* The data byte after a whole message begins another with the same status.
Continue(b) ==
  /\ IsData(b) /\ status \notin {NoStatus, SysExStart}
  /\ \/ /\ Len(held) + 1 = Length[status]
        /\ Sends("message", Append(held, b))
        /\ held' = <<status>>
     \/ /\ Len(held) + 1 < Length[status]
        /\ held' = Append(held, b)
        /\ out' = Nothing
  /\ UNCHANGED status

Dump(b) ==
  /\ IsData(b) /\ status = SysExStart
  /\ \/ Len(held) = 2 /\ Sends("more", Append(held, b)) /\ held' = <<>>
     \/ Len(held) < 2 /\ held' = Append(held, b) /\ out' = Nothing
  /\ UNCHANGED status

EndDump(b) ==
  /\ b = SysExEnd /\ status = SysExStart
  /\ Sends("end", Append(held, b))
  /\ status' = NoStatus
  /\ held' = <<>>

\* out may be anything.
Stray(b) ==
  /\ \/ IsData(b) /\ status = NoStatus
     \/ b = SysExEnd /\ status # SysExStart
  /\ UNCHANGED <<status, held>>

Next ==
  \E b \in Byte :
    /\ data' = b
    /\ RealTime(b) \/ Start(b) \/ Continue(b) \/ Dump(b) \/ EndDump(b) \/ Stray(b)

Spec == Init /\ [][Next]_vars

===========================================================================
