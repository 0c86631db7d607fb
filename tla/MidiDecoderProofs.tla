------------------------- MODULE MidiDecoderProofs -------------------------
(* Proofs about MidiDecoder for any set of bytes.                          *)
EXTENDS MidiDecoder, SequenceTheorems, TLAPS

IsStatus(b) == b \in DOMAIN Length \ {SysExStart, SysExEnd}

\* A message is under way only after the status byte that says its length.
MessageKnown ==
  midiNumData # 0 =>
    /\ IsStatus(midiByte0)
    /\ Length[midiByte0] = midiNumData + 1
    /\ midiCurData < midiNumData

IInv == TypeOK /\ MessageKnown

LEMMA LengthType == Length \in [128 .. 255 -> {1, 2, 3}]
  BY DEF Length

LEMMA CalcCINRange == \A b \in 128 .. 255 : CalcCIN(b) \in 8 .. 15
  BY DEF CalcCIN

LEMMA InitInv == Init => IInv
  BY DEF Init, IInv, TypeOK, MessageKnown, NoPacket

LEMMA StepInv == IInv /\ [Next]_vars => IInv'
<1> SUFFICES ASSUME IInv, [Next]_vars PROVE IInv'
  OBVIOUS
<1> USE ByteAssumption, LengthType, CalcCINRange
<1>1. CASE UNCHANGED vars
  BY <1>1 DEF IInv, TypeOK, MessageKnown, vars, bytes
<1>2. ASSUME NEW b \in Byte, Process(b) PROVE IInv'
  <2>0. b \in 0 .. 255 /\ DOMAIN Length = 128 .. 255
    OBVIOUS
  <2>1. CASE SingleByte(b)
    BY <1>2, <2>0, <2>1
    DEF Process, SingleByte, Calls, IInv, TypeOK, MessageKnown, IsStatus, bytes
  <2>2. CASE StartSysEx(b)
    BY <1>2, <2>0, <2>2
    DEF Process, StartSysEx, NoPacket, IInv, TypeOK, MessageKnown, IsStatus
  <2>3. CASE EndSysEx(b)
    <3>1. packet' \in [cin : 0 .. 15, b0 : 0 .. 255, b1 : 0 .. 255, b2 : 0 .. 255]
      <4>1. midiByte1 \in 0 .. 255 /\ midiByte2 \in 0 .. 255
        BY DEF IInv, TypeOK
      <4>2. CASE Calls(5, b, 0, 0)
        BY <2>0, <4>2 DEF Calls
      <4>3. CASE Calls(6, midiByte1, b, 0)
        BY <2>0, <4>1, <4>3 DEF Calls
      <4>4. CASE Calls(7, midiByte1, midiByte2, b)
        BY <2>0, <4>1, <4>4 DEF Calls
      <4> QED
        BY <2>3, <4>2, <4>3, <4>4 DEF EndSysEx
    <3>2. UNCHANGED <<midiByte0, midiByte1, midiByte2, midiCurData, midiNumData>> /\ inSysEx' = 0
      BY <2>3 DEF EndSysEx, bytes
    <3>3. TypeOK'
      BY <1>2, <3>1, <3>2 DEF Process, IInv, TypeOK
    <3>4. MessageKnown'
      BY <3>2 DEF IInv, MessageKnown, IsStatus
    <3> QED
      BY <3>3, <3>4 DEF IInv
  <2>4. CASE Status(b)
    <3>1. /\ b \in DOMAIN Length \ {SysExStart, SysExEnd} /\ Length[b] \in 2 .. 3
          /\ midiByte0' = b /\ midiNumData' = Length[b] - 1 /\ midiCurData' = 0
          /\ packet' = NoPacket /\ UNCHANGED <<midiByte1, midiByte2, inSysEx>>
      BY <2>4 DEF Status
    <3>2. packet' \in [cin : 0 .. 15, b0 : 0 .. 255, b1 : 0 .. 255, b2 : 0 .. 255]
      BY <3>1 DEF NoPacket
    <3>3. TypeOK'
      BY <1>2, <3>1, <3>2 DEF Process, IInv, TypeOK
    <3>4. MessageKnown'
      BY <2>0, <3>1 DEF MessageKnown, IsStatus
    <3> QED
      BY <3>3, <3>4 DEF IInv
  <2>5. CASE FirstData(b)
    <3>1. UNCHANGED <<midiByte0, midiByte2, midiNumData, inSysEx>>
          /\ midiByte1' = b /\ midiCurData' \in {0, 1}
          /\ (midiCurData' = 1 => midiNumData # 1)
      BY <2>5 DEF FirstData
    <3>2. packet' \in [cin : 0 .. 15, b0 : 0 .. 255, b1 : 0 .. 255, b2 : 0 .. 255]
      <4>1. CASE packet' = NoPacket
        BY <4>1 DEF NoPacket
      <4>2. CASE midiNumData = 1 /\ Calls(CalcCIN(midiByte0), midiByte0, b, 0)
        BY <2>0, <4>2 DEF Calls, IInv, TypeOK, MessageKnown, IsStatus
      <4> QED
        BY <2>5, <4>1, <4>2 DEF FirstData
    <3>3. TypeOK'
      BY <1>2, <3>1, <3>2 DEF Process, IInv, TypeOK
    <3>4. MessageKnown'
      BY <3>1 DEF IInv, TypeOK, MessageKnown, IsStatus
    <3> QED
      BY <3>3, <3>4 DEF IInv
  <2>6. CASE SecondData(b)
    <3>1. UNCHANGED <<midiByte0, midiByte1, midiNumData, inSysEx>>
          /\ midiByte2' = b /\ midiCurData = 1 /\ midiCurData' \in {0, 2}
          /\ (midiNumData = 2 => midiCurData' = 0)
      BY <2>6 DEF SecondData
    <3>2. packet' \in [cin : 0 .. 15, b0 : 0 .. 255, b1 : 0 .. 255, b2 : 0 .. 255]
      <4>1. CASE packet' = NoPacket
        BY <4>1 DEF NoPacket
      <4>2. CASE midiNumData = 2 /\ Calls(CalcCIN(midiByte0), midiByte0, midiByte1, b)
        BY <2>0, <4>2 DEF Calls, IInv, TypeOK, MessageKnown, IsStatus
      <4> QED
        BY <2>6, <4>1, <4>2 DEF SecondData
    <3>3. TypeOK'
      BY <1>2, <3>1, <3>2 DEF Process, IInv, TypeOK
    <3>4. MessageKnown'
      BY <3>1 DEF IInv, TypeOK, MessageKnown, IsStatus
    <3> QED
      BY <3>3, <3>4 DEF IInv
  <2>7. CASE ThirdData(b)
    BY <1>2, <2>0, <2>7
    DEF Process, ThirdData, Calls, IInv, TypeOK, MessageKnown, IsStatus, bytes
  <2> QED
    BY <1>2, <2>1, <2>2, <2>3, <2>4, <2>5, <2>6, <2>7 DEF Process
<1> QED
  BY <1>1, <1>2 DEF Next

\* The invariant the theorems below rest on.
THEOREM Invariance == Spec => []IInv
  BY InitInv, StepInv, PTL DEF Spec

\* midi_decoder_process keeps its state in range; in particular the switch at
\* the end of a dump never reaches the chSysHalt of its default.
THEOREM Types == Spec => []TypeOK
<1>1. IInv => TypeOK
  BY DEF IInv
<1> QED
  BY <1>1, Invariance, PTL

---------------------------------------------------------------------------
(* The mapping to MidiFraming, branch by branch.                           *)

LEMMA Appended ==
  ASSUME NEW S, NEW s \in Seq(S), NEW e \in S, NEW t \in Seq(S),
         Len(t) = Len(s) + 1, t[Len(s) + 1] = e, \A i \in 1 .. Len(s) : t[i] = s[i]
  PROVE  Append(s, e) = t
<1>1. Append(s, e) \in Seq(S) /\ Len(Append(s, e)) = Len(t)
  OBVIOUS
<1>2. \A i \in 1 .. Len(Append(s, e)) : Append(s, e)[i] = t[i]
  BY AppendProperties
<1> QED
  BY <1>1, <1>2, SeqEqual

LEMMA Appending ==
  ASSUME NEW x, NEW y, NEW e
  PROVE  /\ Append(<<>>, e) = <<e>> /\ Len(<<>>) = 0
         /\ Append(<<x>>, e) = <<x, e>> /\ Len(<<x>>) = 1
         /\ Append(<<x, y>>, e) = <<x, y, e>> /\ Len(<<x, y>>) = 2
<1>1. Append(<<>>, e) = <<e>> /\ Len(<<>>) = 0
  OBVIOUS
<1>2. Append(<<x>>, e) = <<x, e>>
  <2>1. <<x>> \in Seq({x, e}) /\ <<x, e>> \in Seq({x, e}) /\ e \in {x, e}
    OBVIOUS
  <2>2. Len(<<x, e>>) = Len(<<x>>) + 1 /\ <<x, e>>[Len(<<x>>) + 1] = e
    OBVIOUS
  <2>3. \A i \in 1 .. Len(<<x>>) : <<x, e>>[i] = <<x>>[i]
    OBVIOUS
  <2> QED
    BY <2>1, <2>2, <2>3, Appended, Zenon
<1>3. Append(<<x, y>>, e) = <<x, y, e>>
  <2>1. <<x, y>> \in Seq({x, y, e}) /\ <<x, y, e>> \in Seq({x, y, e}) /\ e \in {x, y, e}
    OBVIOUS
  <2>2. Len(<<x, y, e>>) = Len(<<x, y>>) + 1 /\ <<x, y, e>>[Len(<<x, y>>) + 1] = e
    OBVIOUS
  <2>3. \A i \in 1 .. Len(<<x, y>>) : <<x, y, e>>[i] = <<x, y>>[i]
    OBVIOUS
  <2> QED
    BY <2>1, <2>2, <2>3, Appended, Zenon
<1>4. Len(<<x>>) = 1 /\ Len(<<x, y>>) = 2
  OBVIOUS
<1> QED
  BY <1>1, <1>2, <1>3, <1>4

LEMMA FirstOf ==
  ASSUME NEW x, NEW y, NEW z
  PROVE  /\ First(0, x, y, z) = <<>> /\ First(1, x, y, z) = <<x>>
         /\ First(2, x, y, z) = <<x, y>> /\ First(3, x, y, z) = <<x, y, z>>
  BY DEF First

LEMMA DumpLength ==
  /\ CinMsgLength(4) = 3 /\ CinMsgLength(5) = 1
  /\ CinMsgLength(6) = 2 /\ CinMsgLength(7) = 3
  BY DEF CinMsgLength

\* The message or dump under way, in the words of MidiFraming.
Holds ==
  /\ midiNumData # 0 => status = midiByte0
  /\ midiNumData = 0 /\ inSysEx = 1 => status = SysExStart
  /\ midiNumData = 0 /\ inSysEx # 1 => status = 0 /\ held = <<>>
  /\ midiNumData # 0 /\ midiCurData = 0 => held = <<midiByte0>>
  /\ midiNumData # 0 /\ midiCurData = 1 => held = <<midiByte0, midiByte1>>
  /\ midiNumData = 0 /\ inSysEx = 1 =>
       /\ midiCurData = 0 => held = <<>>
       /\ midiCurData = 1 => held = <<midiByte1>>
       /\ midiCurData = 2 => held = <<midiByte1, midiByte2>>

LEMMA Holding == Holds
  BY DEF Holds, status, held, First

LEMMA HoldingNext == Holds'
  BY Holding, PTL

\* What the packet says, in the words of MidiFraming.
Out ==
  LET p(c, x, y, z) == [cin |-> c, b0 |-> x, b1 |-> y, b2 |-> z]
  IN  /\ packet = NoPacket => out = Framing!Nothing
      /\ \A x, y, z :
           /\ packet = p(4, x, y, z) => out = [kind |-> "more", bytes |-> <<x, y, z>>]
           /\ packet = p(5, x, y, z) => out = [kind |-> "end", bytes |-> <<x>>]
           /\ packet = p(6, x, y, z) => out = [kind |-> "end", bytes |-> <<x, y>>]
           /\ packet = p(7, x, y, z) => out = [kind |-> "end", bytes |-> <<x, y, z>>]
      /\ \A x, y, z : \A c \in 8 .. 15 :
           packet = p(c, x, y, z) =>
             /\ Length[x] = 1 => out = [kind |-> "message", bytes |-> <<x>>]
             /\ Length[x] = 2 => out = [kind |-> "message", bytes |-> <<x, y>>]
             /\ Length[x] = 3 => out = [kind |-> "message", bytes |-> <<x, y, z>>]

LEMMA Saying == Out
<1>1. packet = NoPacket => out = Framing!Nothing
  BY DEF out, Says, Carries, NoPacket, First, Framing!Nothing
<1>2. ASSUME NEW x, NEW y, NEW z, packet = [cin |-> 4, b0 |-> x, b1 |-> y, b2 |-> z]
      PROVE  out = [kind |-> "more", bytes |-> <<x, y, z>>]
  BY <1>2, FirstOf, DumpLength DEF out, Says, Carries
<1>3. ASSUME NEW x, NEW y, NEW z, packet = [cin |-> 5, b0 |-> x, b1 |-> y, b2 |-> z]
      PROVE  out = [kind |-> "end", bytes |-> <<x>>]
  BY <1>3, FirstOf, DumpLength DEF out, Says, Carries
<1>4. ASSUME NEW x, NEW y, NEW z, packet = [cin |-> 6, b0 |-> x, b1 |-> y, b2 |-> z]
      PROVE  out = [kind |-> "end", bytes |-> <<x, y>>]
  BY <1>4, FirstOf, DumpLength DEF out, Says, Carries
<1>5. ASSUME NEW x, NEW y, NEW z, packet = [cin |-> 7, b0 |-> x, b1 |-> y, b2 |-> z]
      PROVE  out = [kind |-> "end", bytes |-> <<x, y, z>>]
  BY <1>5, FirstOf, DumpLength DEF out, Says, Carries
<1>6. ASSUME NEW x, NEW y, NEW z, NEW c \in 8 .. 15,
             packet = [cin |-> c, b0 |-> x, b1 |-> y, b2 |-> z]
      PROVE  out = [kind |-> "message", bytes |-> First(Length[x], x, y, z)]
  BY <1>6 DEF out, Says, Carries
<1> QED
  BY <1>1, <1>2, <1>3, <1>4, <1>5, <1>6, FirstOf DEF Out

LEMMA SayingNext == Out'
  BY Saying, PTL

LEMMA FramingInit == Init => Framing!Init
<1> SUFFICES ASSUME Init PROVE Framing!Init
  OBVIOUS
<1>1. status = 0 /\ held = <<>>
  BY Holding DEF Init, Holds
<1>2. out = Framing!Nothing
  BY Saying DEF Init, Out
<1> QED
  BY <1>1, <1>2 DEF Init, Framing!Init, Framing!NoStatus

LEMMA FramingStep == IInv /\ [Next]_vars => [Framing!Next]_(Framing!vars)
<1> SUFFICES ASSUME IInv, [Next]_vars PROVE [Framing!Next]_(Framing!vars)
  OBVIOUS
<1>1. CASE UNCHANGED vars
  BY <1>1 DEF vars, bytes, Framing!vars, status, held, out
<1>2. ASSUME NEW b \in Byte, Process(b) PROVE Framing!Next
  <2>0. b \in 0 .. 255 /\ data' = b
    BY <1>2, ByteAssumption DEF Process
  <2>r. /\ midiCurData \in 0 .. 2 /\ midiNumData \in 0 .. 2 /\ inSysEx \in {0, 1}
        /\ midiNumData # 0 =>
             /\ midiByte0 \in 128 .. 255 /\ midiByte0 \notin {240, 247}
             /\ Length[midiByte0] = midiNumData + 1
             /\ midiCurData < midiNumData
             /\ CalcCIN(midiByte0) \in 8 .. 15
    BY LengthType, CalcCINRange
    DEF IInv, TypeOK, MessageKnown, IsStatus, SysExStart, SysExEnd
  <2>1. CASE SingleByte(b)
    <3>1. b \in 128 .. 255 /\ b \notin {240, 247} /\ Length[b] = 1
      BY <2>1, LengthType DEF SingleByte, SysExStart, SysExEnd
    <3>2. status' = status /\ held' = held
      BY <2>1 DEF SingleByte, status, held, bytes
    <3>3. packet' = [cin |-> CalcCIN(b), b0 |-> b, b1 |-> 0, b2 |-> 0] /\ CalcCIN(b) \in 8 .. 15
      BY <2>1, <3>1, CalcCINRange DEF SingleByte, Calls
    <3>4. out' = [kind |-> "message", bytes |-> <<b>>]
      BY <3>1, <3>3, SayingNext DEF Out
    <3>5. Framing!RealTime(b)
      BY <3>1, <3>2, <3>4
      DEF Framing!RealTime, Framing!Sends, Framing!IsStatus, SysExStart, SysExEnd
    <3> QED
      BY <2>0, <3>5 DEF Framing!Next
  <2>2. CASE StartSysEx(b)
    <3>1. status' = b /\ held' = <<b>>
      BY <2>2, HoldingNext DEF StartSysEx, Holds
    <3>2. out' = Framing!Nothing
      BY <2>2, SayingNext DEF StartSysEx, Out, NoPacket
    <3>3. Framing!Start(b)
      BY <2>2, <3>1, <3>2 DEF StartSysEx, Framing!Start
    <3> QED
      BY <2>0, <3>3 DEF Framing!Next
  <2>3. CASE EndSysEx(b)
    <3>1. CASE midiNumData = 0 /\ inSysEx = 1
      <4>1. status = SysExStart
        BY <3>1, Holding DEF Holds
      <4>2. status' = 0 /\ held' = <<>>
        BY <3>1, <2>3, HoldingNext DEF EndSysEx, Holds
      <4>3. out' = [kind |-> "end", bytes |-> Append(held, b)]
        <5>1. CASE midiCurData = 0
          <6>1. held = <<>>
            BY <3>1, <5>1, Holding DEF Holds
          <6>2. packet' = [cin |-> 5, b0 |-> b, b1 |-> 0, b2 |-> 0]
            BY <5>1, <2>3 DEF EndSysEx, Calls
          <6> QED
            BY <6>1, <6>2, SayingNext, Appending DEF Out
        <5>2. CASE midiCurData = 1
          <6>1. held = <<midiByte1>>
            BY <3>1, <5>2, Holding DEF Holds
          <6>2. packet' = [cin |-> 6, b0 |-> midiByte1, b1 |-> b, b2 |-> 0]
            BY <5>2, <2>3 DEF EndSysEx, Calls
          <6>3. out' = [kind |-> "end", bytes |-> <<midiByte1, b>>]
            BY <6>2, SayingNext, Zenon DEF Out
          <6> QED
            BY <6>1, <6>3, Appending
        <5>3. CASE midiCurData = 2
          <6>1. held = <<midiByte1, midiByte2>>
            BY <3>1, <5>3, Holding DEF Holds
          <6>2. packet' = [cin |-> 7, b0 |-> midiByte1, b1 |-> midiByte2, b2 |-> b]
            BY <5>3, <2>3 DEF EndSysEx, Calls
          <6>3. out' = [kind |-> "end", bytes |-> <<midiByte1, midiByte2, b>>]
            BY <6>2, SayingNext, Zenon DEF Out
          <6> QED
            BY <6>1, <6>3, Appending
        <5> QED
          BY <2>r, <5>1, <5>2, <5>3
      <4>4. Framing!EndDump(b)
        BY <2>3, <4>1, <4>2, <4>3
        DEF EndSysEx, Framing!EndDump, Framing!Sends, Framing!NoStatus
      <4> QED
        BY <2>0, <4>4 DEF Framing!Next
    <3>2. CASE ~(midiNumData = 0 /\ inSysEx = 1)
      <4>1. status # SysExStart
        BY <2>r, <3>2, Holding DEF Holds, SysExStart
      <4>2. UNCHANGED <<status, held>>
        BY <2>r, <3>2, <2>3 DEF EndSysEx, bytes, status, held
      <4>3. Framing!Stray(b)
        BY <2>3, <4>1, <4>2 DEF EndSysEx, Framing!Stray
      <4> QED
        BY <2>0, <4>3 DEF Framing!Next
    <3> QED
      BY <3>1, <3>2
  <2>4. CASE Status(b)
    <3>1. b \in 128 .. 255 /\ b \notin {240, 247} /\ Length[b] \in {2, 3}
      BY <2>4, LengthType DEF Status, SysExStart, SysExEnd
    <3>2. midiNumData' # 0 /\ midiCurData' = 0 /\ midiByte0' = b
      BY <2>4, <3>1 DEF Status
    <3>3. status' = b /\ held' = <<b>>
      BY <3>2, HoldingNext DEF Holds
    <3>4. out' = Framing!Nothing
      BY <2>4, SayingNext DEF Status, Out, NoPacket
    <3>5. Framing!Start(b)
      BY <3>1, <3>3, <3>4 DEF Framing!Start, Framing!IsStatus, SysExStart, SysExEnd
    <3> QED
      BY <2>0, <3>5 DEF Framing!Next
  <2>5. CASE FirstData(b)
    <3>0. b < 128 /\ Framing!IsData(b)
      BY <2>5 DEF FirstData, Framing!IsData
    <3>1. CASE midiNumData = 1
      <4>1. status = midiByte0 /\ status' = midiByte0 /\ held = <<midiByte0>> /\ held' = <<midiByte0>>
        BY <2>5, <2>r, <3>1, Holding, HoldingNext DEF FirstData, Holds, bytes
      <4>2. packet' = [cin |-> CalcCIN(midiByte0), b0 |-> midiByte0, b1 |-> b, b2 |-> 0]
        BY <2>5, <3>1 DEF FirstData, Calls
      <4>3. out' = [kind |-> "message", bytes |-> <<midiByte0, b>>]
        <5>1. CalcCIN(midiByte0) \in 8 .. 15 /\ Length[midiByte0] = 2
          BY <2>r, <3>1
        <5> QED
          BY <4>2, <5>1, SayingNext, Zenon DEF Out
      <4>4. Len(held) = 1 /\ Append(held, b) = <<midiByte0, b>>
        BY <4>1, Appending
      <4>5. Framing!Continue(b)
        BY <2>r, <3>0, <3>1, <4>1, <4>3, <4>4 DEF Framing!Continue, Framing!Sends, Framing!NoStatus, SysExStart
      <4> QED
        BY <2>0, <4>5 DEF Framing!Next
    <3>2. CASE midiNumData = 2
      <4>1. status = midiByte0 /\ status' = midiByte0 /\ held = <<midiByte0>> /\ held' = <<midiByte0, b>>
        BY <2>5, <2>r, <3>2, Holding, HoldingNext DEF FirstData, Holds, bytes
      <4>2. packet' = NoPacket
        BY <2>5, <3>2 DEF FirstData
      <4>3. out' = Framing!Nothing
        BY <4>2, SayingNext DEF Out, NoPacket
      <4>4. Len(held) = 1 /\ Append(held, b) = <<midiByte0, b>>
        BY <4>1, Appending
      <4>5. Framing!Continue(b)
        BY <2>r, <3>0, <3>2, <4>1, <4>3, <4>4 DEF Framing!Continue, Framing!NoStatus, SysExStart
      <4> QED
        BY <2>0, <4>5 DEF Framing!Next
    <3>3. CASE midiNumData = 0 /\ inSysEx = 1
      <4>1. status = SysExStart /\ status' = SysExStart /\ held = <<>> /\ held' = <<b>>
        BY <2>5, <2>r, <3>3, Holding, HoldingNext DEF FirstData, Holds, bytes
      <4>2. packet' = NoPacket
        BY <2>5, <3>3 DEF FirstData
      <4>3. out' = Framing!Nothing
        BY <4>2, SayingNext DEF Out, NoPacket
      <4>4. Len(held) = 0 /\ Append(held, b) = <<b>>
        BY <4>1, Appending
      <4>5. Framing!Dump(b)
        BY <3>0, <4>1, <4>3, <4>4 DEF Framing!Dump
      <4> QED
        BY <2>0, <4>5 DEF Framing!Next
    <3>4. CASE midiNumData = 0 /\ inSysEx = 0
      <4>1. status = 0 /\ status' = 0 /\ held = <<>> /\ held' = <<>>
        BY <2>5, <3>4, Holding, HoldingNext DEF FirstData, Holds, bytes
      <4>2. Framing!Stray(b)
        BY <3>0, <4>1 DEF Framing!Stray, Framing!NoStatus
      <4> QED
        BY <2>0, <4>2 DEF Framing!Next
    <3> QED
      BY <2>r, <2>5, <3>1, <3>2, <3>3, <3>4 DEF FirstData
  <2>6. CASE SecondData(b)
    <3>0. b < 128 /\ Framing!IsData(b)
      BY <2>6 DEF SecondData, Framing!IsData
    <3>1. CASE midiNumData = 2
      <4>1. status = midiByte0 /\ status' = midiByte0 /\ held = <<midiByte0, midiByte1>> /\ held' = <<midiByte0>>
        BY <2>6, <2>r, <3>1, Holding, HoldingNext DEF SecondData, Holds, bytes
      <4>2. packet' = [cin |-> CalcCIN(midiByte0), b0 |-> midiByte0, b1 |-> midiByte1, b2 |-> b]
        BY <2>6, <3>1 DEF SecondData, Calls
      <4>3. out' = [kind |-> "message", bytes |-> <<midiByte0, midiByte1, b>>]
        <5>1. CalcCIN(midiByte0) \in 8 .. 15 /\ Length[midiByte0] = 3
          BY <2>r, <3>1
        <5> QED
          BY <4>2, <5>1, SayingNext, Zenon DEF Out
      <4>4. Len(held) = 2 /\ Append(held, b) = <<midiByte0, midiByte1, b>>
        BY <4>1, Appending
      <4>5. Framing!Continue(b)
        BY <2>r, <3>0, <3>1, <4>1, <4>3, <4>4 DEF Framing!Continue, Framing!Sends, Framing!NoStatus, SysExStart
      <4> QED
        BY <2>0, <4>5 DEF Framing!Next
    <3>2. CASE midiNumData = 0 /\ inSysEx = 1
      <4>1. status = SysExStart /\ status' = SysExStart /\ held = <<midiByte1>> /\ held' = <<midiByte1, b>>
        BY <2>6, <2>r, <3>2, Holding, HoldingNext DEF SecondData, Holds, bytes
      <4>2. packet' = NoPacket
        BY <2>6, <3>2 DEF SecondData
      <4>3. out' = Framing!Nothing
        BY <4>2, SayingNext DEF Out, NoPacket
      <4>4. Len(held) = 1 /\ Append(held, b) = <<midiByte1, b>>
        BY <4>1, Appending
      <4>5. Framing!Dump(b)
        BY <3>0, <4>1, <4>3, <4>4 DEF Framing!Dump
      <4> QED
        BY <2>0, <4>5 DEF Framing!Next
    <3>3. CASE midiNumData = 0 /\ inSysEx = 0
      <4>1. status = 0 /\ status' = 0 /\ held = <<>> /\ held' = <<>>
        BY <2>6, <3>3, Holding, HoldingNext DEF SecondData, Holds, bytes
      <4>2. Framing!Stray(b)
        BY <3>0, <4>1 DEF Framing!Stray, Framing!NoStatus
      <4> QED
        BY <2>0, <4>2 DEF Framing!Next
    <3> QED
      BY <2>r, <2>6, <3>1, <3>2, <3>3 DEF SecondData
  <2>7. CASE ThirdData(b)
    <3>0. b < 128 /\ Framing!IsData(b)
      BY <2>7 DEF ThirdData, Framing!IsData
    <3>1. CASE midiNumData = 0 /\ inSysEx = 1
      <4>1. status = SysExStart /\ status' = SysExStart /\ held = <<midiByte1, midiByte2>> /\ held' = <<>>
        BY <2>7, <2>r, <3>1, Holding, HoldingNext DEF ThirdData, Holds, bytes
      <4>2. packet' = [cin |-> 4, b0 |-> midiByte1, b1 |-> midiByte2, b2 |-> b]
        BY <2>7, <3>1 DEF ThirdData, Calls
      <4>3. out' = [kind |-> "more", bytes |-> <<midiByte1, midiByte2, b>>]
        BY <4>2, SayingNext DEF Out
      <4>4. Len(held) = 2 /\ Append(held, b) = <<midiByte1, midiByte2, b>>
        BY <4>1, Appending
      <4>5. Framing!Dump(b)
        BY <3>0, <4>1, <4>3, <4>4 DEF Framing!Dump, Framing!Sends
      <4> QED
        BY <2>0, <4>5 DEF Framing!Next
    <3>2. CASE midiNumData = 0 /\ inSysEx = 0
      <4>1. status = 0 /\ status' = 0 /\ held = <<>> /\ held' = <<>>
        BY <2>7, <3>2, Holding, HoldingNext DEF ThirdData, Holds, bytes
      <4>2. Framing!Stray(b)
        BY <3>0, <4>1 DEF Framing!Stray, Framing!NoStatus
      <4> QED
        BY <2>0, <4>2 DEF Framing!Next
    <3> QED
      BY <2>r, <2>7, <3>1, <3>2 DEF ThirdData
  <2> QED
    BY <1>2, <2>1, <2>2, <2>3, <2>4, <2>5, <2>6, <2>7 DEF Process
<1> QED
  BY <1>1, <1>2 DEF Next

\* The decoder implements MidiFraming, whatever bytes arrive.
THEOREM FramingImplemented == Spec => ImplementsFraming
<1> USE DEF Framing!Spec, ImplementsFraming
<1> QED
  BY FramingInit, FramingStep, Invariance, PTL DEF Spec

===========================================================================
