---------------------------- MODULE MidiDecoder ----------------------------
(***************************************************************************)
(* midi_decoder_process of firmware/midi_decoder.c, which turns the bytes  *)
(* of a serial MIDI input into USB MIDI event packets, and the table with  *)
(* which firmware/midi_encoder.c turns packets into bytes again.           *)
(***************************************************************************)
EXTENDS Integers, Sequences

CONSTANT Byte              \* the bytes that may arrive

ASSUME ByteAssumption == Byte \subseteq 0 .. 255

SysExStart == 240          \* MIDI_SYSEX_START
SysExEnd == 247            \* MIDI_SYSEX_END

\* StatusLengthLookup and SysMsgLengthLookup; the length of a dump varies.
Length ==
  [b \in 128 .. 255 |->
     IF b \in 192 .. 223 \cup {241, 243} THEN 2
     ELSE IF b < 240 \/ b \in {242, 255} THEN 3
     ELSE 1]

VARIABLES
  midiByte0, midiByte1, midiByte2,
  midiCurData,             \* data bytes of the message received so far
  midiNumData,             \* data bytes it takes, 0 in a dump
  inSysEx,
  data,                    \* the byte being processed
  packet                   \* what midi_rcv_cb was called with, if it was

bytes == <<midiByte0, midiByte1, midiByte2>>
vars  == <<bytes, midiCurData, midiNumData, inSysEx, data, packet>>

NoPacket == [cin |-> 0, b0 |-> 0, b1 |-> 0, b2 |-> 0]

TypeOK ==
  /\ midiByte0 \in Byte \cup {0}
  /\ midiByte1 \in Byte \cup {0}
  /\ midiByte2 \in Byte \cup {0}
  /\ midiCurData \in 0 .. 2
  /\ midiNumData \in 0 .. 2
  /\ inSysEx \in {0, 1}
  /\ data \in Byte \cup {0}
  /\ packet \in [cin : 0 .. 15, b0 : 0 .. 255, b1 : 0 .. 255, b2 : 0 .. 255]

Init ==
  /\ midiByte0 = 0 /\ midiByte1 = 0 /\ midiByte2 = 0
  /\ midiCurData = 0
  /\ midiNumData = 0
  /\ inSysEx = 0
  /\ data = 0
  /\ packet = NoPacket

Calls(cin, b0, b1, b2) == packet' = [cin |-> cin, b0 |-> b0, b1 |-> b1, b2 |-> b2]

\* SMidi_calcCIN
CalcCIN(b) == b \div 16

---------------------------------------------------------------------------
(* The branches of midi_decoder_process.                                   *)

SingleByte(b) ==
  /\ b \in DOMAIN Length \ {SysExStart, SysExEnd} /\ Length[b] = 1
  /\ Calls(CalcCIN(b), b, 0, 0)
  /\ UNCHANGED <<bytes, midiCurData, midiNumData, inSysEx>>

StartSysEx(b) ==
  /\ b = SysExStart
  /\ inSysEx' = 1
  /\ midiNumData' = 0
  /\ midiByte1' = b
  /\ midiCurData' = 1
  /\ packet' = NoPacket
  /\ UNCHANGED <<midiByte0, midiByte2>>

\* The default of its switch is chSysHalt("MIDI SysEx invalid state").
EndSysEx(b) ==
  /\ b = SysExEnd
  /\ inSysEx' = 0
  /\ \/ midiCurData = 0 /\ Calls(5, b, 0, 0)
     \/ midiCurData = 1 /\ Calls(6, midiByte1, b, 0)
     \/ midiCurData = 2 /\ Calls(7, midiByte1, midiByte2, b)
  /\ UNCHANGED <<bytes, midiCurData, midiNumData>>

\* Faulty: keeps counting from the message that the status byte cuts short.
StatusKeepsCount(b) ==
  /\ b \in DOMAIN Length \ {SysExStart, SysExEnd} /\ Length[b] > 1
  /\ midiByte0' = b
  /\ midiNumData' = Length[b] - 1
  /\ packet' = NoPacket
  /\ UNCHANGED <<midiByte1, midiByte2, midiCurData, inSysEx>>

Status(b) ==
  /\ b \in DOMAIN Length \ {SysExStart, SysExEnd} /\ Length[b] > 1
  /\ midiByte0' = b
  /\ midiNumData' = Length[b] - 1
  /\ midiCurData' = 0
  /\ packet' = NoPacket
  /\ UNCHANGED <<midiByte1, midiByte2, inSysEx>>

FirstData(b) ==
  /\ b < 128 /\ midiCurData = 0
  /\ midiByte1' = b
  /\ \/ /\ midiNumData = 1
        /\ Calls(CalcCIN(midiByte0), midiByte0, b, 0)
        /\ UNCHANGED midiCurData
     \/ midiNumData # 1 /\ midiCurData' = 1 /\ packet' = NoPacket
  /\ UNCHANGED <<midiByte0, midiByte2, midiNumData, inSysEx>>

SecondData(b) ==
  /\ b < 128 /\ midiCurData = 1
  /\ midiByte2' = b
  /\ \/ /\ midiNumData = 2
        /\ Calls(CalcCIN(midiByte0), midiByte0, midiByte1, b)
        /\ midiCurData' = 0
     \/ midiNumData # 2 /\ midiCurData' = 2 /\ packet' = NoPacket
  /\ UNCHANGED <<midiByte0, midiByte1, midiNumData, inSysEx>>

\* Faulty: the count runs on after a full packet of a dump.
ThirdDataCounts(b) ==
  /\ b < 128 /\ midiCurData = 2
  /\ Calls(4, midiByte1, midiByte2, b)
  /\ midiCurData' = 3
  /\ UNCHANGED <<bytes, midiNumData, inSysEx>>

ThirdData(b) ==
  /\ b < 128 /\ midiCurData = 2
  /\ Calls(4, midiByte1, midiByte2, b)
  /\ midiCurData' = 0
  /\ UNCHANGED <<bytes, midiNumData, inSysEx>>

Process(b) ==
  /\ data' = b
  /\ \/ SingleByte(b) \/ StartSysEx(b) \/ EndSysEx(b) \/ Status(b)
     \/ FirstData(b) \/ SecondData(b) \/ ThirdData(b)

Next == \E b \in Byte : Process(b)

Spec == Init /\ [][Next]_vars

---------------------------------------------------------------------------
(* midi_encoder_get_length                                                 *)

CinMsgLength(cin) == <<0, 0, 2, 3, 3, 1, 2, 3, 3, 3, 3, 3, 2, 2, 3, 1>>[cin + 1]

---------------------------------------------------------------------------
(* Properties.                                                             *)

First(n, x, y, z) ==
  IF n = 0 THEN <<>> ELSE IF n = 1 THEN <<x>> ELSE IF n = 2 THEN <<x, y>> ELSE <<x, y, z>>

\* How many bytes of the message or dump the packet carries.
Carries(p) ==
  IF p.cin = 0 THEN 0 ELSE IF p.cin \in 4 .. 7 THEN CinMsgLength(p.cin) ELSE Length[p.b0]

\* A packet of the decoder that is sent to a serial output leaves it with as
\* many bytes as the message had: the decoder and midi_encoder.c agree on the
\* code index numbers.
EncoderSendsWhole == packet # NoPacket => CinMsgLength(packet.cin) = Carries(packet)

---------------------------------------------------------------------------
(* The framing the decoder implements.                                     *)

status ==
  IF midiNumData # 0 THEN midiByte0 ELSE IF inSysEx = 1 THEN SysExStart ELSE 0

held ==
  IF midiNumData # 0 THEN First(midiCurData + 1, midiByte0, midiByte1, midiByte2)
  ELSE IF inSysEx = 1 THEN First(midiCurData, midiByte1, midiByte2, 0)
  ELSE <<>>

Says(p) ==
  [kind |-> IF p.cin = 0 THEN "nothing" ELSE IF p.cin = 4 THEN "more"
            ELSE IF p.cin \in 5 .. 7 THEN "end" ELSE "message",
   bytes |-> First(Carries(p), p.b0, p.b1, p.b2)]

out == Says(packet)

Framing == INSTANCE MidiFraming

\* Messages and dumps come out whole, once and in order, with running status,
\* interrupted by real-time bytes or cut short by a status byte; stray bytes
\* never outlast the next status byte.
ImplementsFraming == Framing!Spec

===========================================================================
