-------------------------- MODULE MidiPortsProofs --------------------------
(***************************************************************************)
(* Proofs about MidiPorts: type correctness, the three safety properties   *)
(* of the MIDI outputs and what stopping a port relies on, for buffers,    *)
(* queues and batches of any size.                                         *)
(***************************************************************************)
EXTENDS MidiPorts, SequenceTheorems, TLAPS

\* A message before or after those of a sequence, and two sequences.
Before(s, t) == \A i \in DOMAIN s, j \in DOMAIN t : s[i] < t[j]
AtMost(s, n) == \A i \in DOMAIN s : s[i] <= n
Below(s, n) == \A i \in DOMAIN s : s[i] < n
After(n, s) == \A i \in DOMAIN s : n < s[i]

\* Where the caller of midi_gpio_enable is tells whether the port is active,
\* and while it initialises the buffer nobody writes from it.
CallerOrder ==
  /\ cpc \in {"load", "create", "objinit", "ports"} => ~ active
  /\ cpc \in {"sdstop", "signal", "joinw", "joinr", "log"} => active
  /\ cpc = "objinit" => writer = "wait"
  /\ hand # <<>> => writer = "blocked"

\* Whoever could set a bit of the map does so after the notify was there.
ReadyBefore ==
  /\ gmap \/ gports = 1 \/ table => notify
  /\ cpc = "ports" => notify

\* What was sent before the start is gone once the buffer is initialised.
FreshBefore ==
  active \/ cpc = "ports" =>
    After(mark, ring) /\ After(mark, hand)

\* The order of the messages, station by station.
GpioOrder ==
  /\ Increasing(queue) /\ Increasing(ring)
  /\ After(gout, queue) /\ After(gout, hand) /\ After(gout, ring)
  /\ Before(queue, hand) /\ Before(queue, ring) /\ Before(hand, ring)
  /\ AtMost(queue, sent) /\ AtMost(hand, sent) /\ AtMost(ring, sent)

UsbdOrder ==
  /\ Increasing(batch) /\ Increasing(uring)
  /\ After(uout, batch) /\ After(uout, uring) /\ Before(batch, uring)
  /\ AtMost(batch, sent) /\ AtMost(uring, sent)
  /\ usbd = "transmit" <=> batch # <<>>

Inv == TypeOK /\ CallerOrder /\ ReadyBefore /\ FreshBefore /\ GpioOrder /\ UsbdOrder

---------------------------------------------------------------------------
(* Facts about sequences.                                                  *)

\* A sequence put behind another: increasing if both are and every message
\* of the first is below every one of the second.
LEMMA IncreasingConcat ==
  ASSUME NEW s \in Seq(Nat), NEW t \in Seq(Nat),
         Increasing(s), Increasing(t), Before(s, t)
  PROVE  Increasing(s \o t)
<1> SUFFICES ASSUME NEW i \in DOMAIN (s \o t), NEW j \in DOMAIN (s \o t), i < j
             PROVE  (s \o t)[i] < (s \o t)[j]
  BY DEF Increasing
<1>1. i \in Nat /\ j \in Nat /\ 1 <= i /\ j <= Len(s) + Len(t)
  OBVIOUS
<1>2. CASE j <= Len(s)
  BY <1>1, <1>2 DEF Increasing
<1>3. CASE i > Len(s)
  <2>1. (s \o t)[i] = t[i - Len(s)] /\ (s \o t)[j] = t[j - Len(s)]
    BY <1>1, <1>3
  <2>2. i - Len(s) \in DOMAIN t /\ j - Len(s) \in DOMAIN t /\ i - Len(s) < j - Len(s)
    BY <1>1, <1>3
  <2>3. QED
    BY <2>1, <2>2 DEF Increasing
<1>4. CASE i <= Len(s) /\ j > Len(s)
  <2>1. (s \o t)[i] = s[i] /\ (s \o t)[j] = t[j - Len(s)]
    BY <1>1, <1>4
  <2>2. i \in DOMAIN s /\ j - Len(s) \in DOMAIN t
    BY <1>1, <1>4
  <2>3. QED
    BY <2>1, <2>2 DEF Before
<1>5. QED
  BY <1>1, <1>2, <1>3, <1>4

\* What two sequences come before, the one of both does, too.
LEMMA ConcatBefore ==
  ASSUME NEW s \in Seq(Nat), NEW t \in Seq(Nat), NEW u \in Seq(Nat),
         Before(s, u), Before(t, u)
  PROVE  Before(s \o t, u)
<1> SUFFICES ASSUME NEW i \in DOMAIN (s \o t), NEW j \in DOMAIN u
             PROVE  (s \o t)[i] < u[j]
  BY DEF Before
<1>1. CASE i <= Len(s)
  <2>1. (s \o t)[i] = s[i] /\ i \in DOMAIN s
    BY <1>1
  <2> QED
    BY <2>1 DEF Before
<1>2. CASE i > Len(s)
  <2>1. (s \o t)[i] = t[i - Len(s)] /\ i - Len(s) \in DOMAIN t
    BY <1>2
  <2> QED
    BY <2>1 DEF Before
<1> QED
  BY <1>1, <1>2

---------------------------------------------------------------------------
(* What Append and Tail do to the order of messages.                       *)

LEMMA MsgNumber == \A m \in Msg : m \in Nat
  BY PortsAssumption DEF Msg

LEMMA AppendOrder ==
  ASSUME NEW s \in Seq(Msg), NEW m \in Msg, NEW t \in Seq(Msg), NEW n \in Nat
  PROVE  /\ Append(s, m) \in Seq(Msg) /\ Len(Append(s, m)) = Len(s) + 1
         /\ Increasing(s) /\ Below(s, m) => Increasing(Append(s, m))
         /\ After(n, s) /\ n < m => After(n, Append(s, m))
         /\ AtMost(s, n) /\ m <= n => AtMost(Append(s, m), n)
         /\ Before(s, t) /\ After(m, t) => Before(Append(s, m), t)
         /\ Before(t, s) /\ Below(t, m) => Before(t, Append(s, m))
<1> DEFINE a == Append(s, m)
<1>1. a \in Seq(Msg) /\ Len(a) = Len(s) + 1 /\ Len(s) \in Nat
  OBVIOUS
<1>2. \A i \in DOMAIN a :
        /\ i \in Nat /\ a[i] \in Nat
        /\ \/ i \in DOMAIN s /\ i <= Len(s) /\ a[i] = s[i]
           \/ i = Len(s) + 1 /\ a[i] = m
  BY MsgNumber
<1>3. m \in Nat
  BY MsgNumber
<1> HIDE DEF a
<1>4. ASSUME Increasing(s), Below(s, m), NEW i \in DOMAIN a, NEW j \in DOMAIN a, i < j
      PROVE  a[i] < a[j]
  <2>1. i \in DOMAIN s /\ a[i] = s[i]
    <3>1. j <= Len(s) + 1
      BY <1>1, <1>2
    <3>2. QED
      BY <1>1, <1>2, <1>4, <3>1
  <2>2. CASE j \in DOMAIN s /\ a[j] = s[j]
    BY <1>4, <2>1, <2>2 DEF Increasing
  <2>3. CASE a[j] = m
    BY <1>4, <2>1, <2>3 DEF Below
  <2>4. QED
    BY <1>2, <2>2, <2>3
<1>5. Increasing(s) /\ Below(s, m) => Increasing(a)
  BY <1>4 DEF Increasing
<1>6. After(n, s) /\ n < m => After(n, a)
  BY <1>2 DEF After
<1>7. AtMost(s, n) /\ m <= n => AtMost(a, n)
  BY <1>2 DEF AtMost
<1>8. Before(s, t) /\ After(m, t) => Before(a, t)
  BY <1>2 DEF Before, After
<1>9. Before(t, s) /\ Below(t, m) => Before(t, a)
  BY <1>2 DEF Before, Below
<1>10. QED
  BY <1>1, <1>5, <1>6, <1>7, <1>8, <1>9 DEF a

LEMMA TailOrder ==
  ASSUME NEW s \in Seq(Msg), s # <<>>, NEW t \in Seq(Msg), NEW n \in Nat
  PROVE  /\ Tail(s) \in Seq(Msg) /\ Len(Tail(s)) = Len(s) - 1
         /\ Head(s) \in Msg /\ Head(s) = s[1]
         /\ Increasing(s) => After(Head(s), Tail(s)) /\ Increasing(Tail(s))
         /\ After(n, s) => n < Head(s) /\ After(n, Tail(s))
         /\ AtMost(s, n) => Head(s) <= n /\ AtMost(Tail(s), n)
         /\ Before(s, t) => After(Head(s), t) /\ Before(Tail(s), t)
         /\ Before(t, s) => Below(t, Head(s)) /\ Before(t, Tail(s))
<1> DEFINE r == Tail(s)
           h == Head(s)
<1>1. r \in Seq(Msg) /\ Len(r) = Len(s) - 1 /\ h \in Msg /\ 1 \in DOMAIN s /\ h = s[1]
  OBVIOUS
<1>2. \A i \in DOMAIN r : i \in Nat /\ 1 < i + 1 /\ i + 1 \in DOMAIN s /\ r[i] = s[i + 1]
  OBVIOUS
<1> HIDE DEF r, h
<1>3. Increasing(s) => After(h, r)
  BY <1>1, <1>2 DEF Increasing, After
<1>4. Increasing(s) => Increasing(r)
  <2> SUFFICES ASSUME Increasing(s), NEW i \in DOMAIN r, NEW j \in DOMAIN r, i < j
               PROVE  r[i] < r[j]
    BY DEF Increasing
  <2>1. i + 1 < j + 1 /\ i + 1 \in DOMAIN s /\ j + 1 \in DOMAIN s
    BY <1>2
  <2>2. s[i + 1] < s[j + 1]
    BY <2>1 DEF Increasing
  <2>3. QED
    BY <1>2, <2>2
<1>5. After(n, s) => n < h /\ After(n, r)
  BY <1>1, <1>2 DEF After
<1>6. AtMost(s, n) => h <= n /\ AtMost(r, n)
  BY <1>1, <1>2 DEF AtMost
<1>7. Before(s, t) => After(h, t) /\ Before(r, t)
  BY <1>1, <1>2 DEF Before, After
<1>8. Before(t, s) => Below(t, h) /\ Before(t, r)
  BY <1>1, <1>2 DEF Before, Below
<1>9. QED
  BY <1>1, <1>3, <1>4, <1>5, <1>6, <1>7, <1>8 DEF r, h

\* A batch is taken from the front of a buffer.
LEMMA SplitOrder ==
  ASSUME NEW s \in Seq(Msg), NEW k \in 0 .. Len(s), NEW n \in Nat
  PROVE  LET a == SubSeq(s, 1, k)
             b == SubSeq(s, k + 1, Len(s))
         IN  /\ a \in Seq(Msg) /\ Len(a) = k
             /\ b \in Seq(Msg) /\ Len(b) = Len(s) - k
             /\ Increasing(s) => Increasing(a) /\ Increasing(b) /\ Before(a, b)
             /\ After(n, s) => After(n, a) /\ After(n, b)
             /\ AtMost(s, n) => AtMost(a, n) /\ AtMost(b, n)
<1> DEFINE a == SubSeq(s, 1, k)
           b == SubSeq(s, k + 1, Len(s))
<1>1. a \in Seq(Msg) /\ Len(a) = k /\ b \in Seq(Msg) /\ Len(b) = Len(s) - k
  OBVIOUS
<1>2. \A i \in DOMAIN a : i \in Nat /\ i <= k /\ i \in DOMAIN s /\ a[i] = s[i]
  OBVIOUS
<1>3. \A i \in DOMAIN b : i \in Nat /\ i >= 1 /\ k + i \in DOMAIN s /\ b[i] = s[k + i]
  OBVIOUS
<1>4. k \in Nat
  OBVIOUS
<1> HIDE DEF a, b
<1>5. Increasing(s) => Increasing(a)
  BY <1>2 DEF Increasing
<1>6. Increasing(s) => Increasing(b)
  <2> SUFFICES ASSUME Increasing(s), NEW i \in DOMAIN b, NEW j \in DOMAIN b, i < j
               PROVE  b[i] < b[j]
    BY DEF Increasing
  <2>1. k + i < k + j /\ k + i \in DOMAIN s /\ k + j \in DOMAIN s
    BY <1>3, <1>4
  <2>2. s[k + i] < s[k + j]
    BY <2>1 DEF Increasing
  <2>3. QED
    BY <1>3, <2>2
<1>7. Increasing(s) => Before(a, b)
  <2> SUFFICES ASSUME Increasing(s), NEW i \in DOMAIN a, NEW j \in DOMAIN b
               PROVE  a[i] < b[j]
    BY DEF Before
  <2>1. i < k + j /\ i \in DOMAIN s /\ k + j \in DOMAIN s
    BY <1>2, <1>3, <1>4
  <2>2. s[i] < s[k + j]
    BY <2>1 DEF Increasing
  <2>3. QED
    BY <1>2, <1>3, <2>2
<1>8. After(n, s) => After(n, a) /\ After(n, b)
  BY <1>2, <1>3 DEF After
<1>9. AtMost(s, n) => AtMost(a, n) /\ AtMost(b, n)
  BY <1>2, <1>3 DEF AtMost
<1>10. QED
  BY <1>1, <1>5, <1>6, <1>7, <1>8, <1>9 DEF a, b

\* A sequence of at most one message.
LEMMA Single ==
  ASSUME NEW s \in Seq(Msg), s # <<>>, Len(s) <= 1
  PROVE  s = <<Head(s)>>
<1>1. Len(s) \in Nat \ {0}
  BY EmptySeq, Zenon
<1> DEFINE n == Len(s)
<1>2. n \in Nat \ {0} /\ n <= 1
  BY <1>1
<1> HIDE DEF n
<1>3. n = 1
  BY <1>2
<1>4. Head(s) \in Msg /\ Head(s) = s[1] /\ Len(s) = 1
  BY <1>3, HeadTailProperties DEF n
<1>5. QED
  BY <1>4, SeqEqual

\* What the type invariant says of the messages.
LEMMA Types ==
  ASSUME Inv
  PROVE  /\ sent \in Nat /\ mark \in Nat /\ gout \in Nat /\ uout \in Nat
         /\ ring \in Seq(Msg) /\ queue \in Seq(Msg) /\ hand \in Seq(Msg)
         /\ uring \in Seq(Msg) /\ batch \in Seq(Msg)
         /\ Len(ring) \in Nat /\ Len(queue) \in Nat /\ Len(hand) \in Nat
         /\ Len(uring) \in Nat /\ Len(batch) \in Nat
<1>1. \A s \in Seq(Msg) : Len(s) \in Nat
  OBVIOUS
<1>2. QED
  BY <1>1, PortsAssumption DEF Inv, TypeOK

---------------------------------------------------------------------------
(* One lemma for each action: it keeps every part of the invariant.        *)

USE PortsAssumption DEF CallerRuns

LEMMA SendKeeps ==
  ASSUME Inv, Send
  PROVE  Inv'
<1>1. sent < MaxMsgs /\ sent' = sent + 1
  BY DEF Send
<1>2. sent' \in Msg /\ sent' \in Nat /\ sent < sent' /\ sent' \in 0 .. MaxMsgs
  BY <1>1, Types DEF Msg
<1>3. UNCHANGED <<gmap, gports, active, cpc, notify, writer, hand, reader, serial, queue,
                  gout, mark, table, usbd, batch, uout, hports, hmap>>
  BY DEF Send, usbhVars
<1>4. ring' = ring \/ (ring' = Append(ring, sent') /\ Len(ring) < RingSize)
  BY DEF Send, Room
<1>5. uring' = uring \/ (uring' = Append(uring, sent') /\ Len(uring) < RingSize)
  BY DEF Send, Room
<1>6. fault' \in BOOLEAN /\ evt' \in SUBSET {1, 2} /\ uevt' \in BOOLEAN
  BY DEF Send, Inv, TypeOK
<1>7. \A s \in Seq(Msg) : AtMost(s, sent) => AtMost(s, sent') /\ Below(s, sent')
  <2>1. ASSUME NEW s \in Seq(Msg), AtMost(s, sent), NEW i \in DOMAIN s
        PROVE  s[i] <= sent' /\ s[i] < sent'
    <3>1. s[i] \in Nat /\ s[i] <= sent
      BY <2>1, MsgNumber DEF AtMost
    <3>2. QED
      BY <1>2, <3>1, Types
  <2>2. QED
    BY <2>1 DEF AtMost, Below
<1>8. gout < sent' /\ uout < sent' /\ mark < sent'
  BY <1>2, Types DEF Inv, TypeOK
<1>9. ring' \in Seq(Msg) /\ Len(ring') <= RingSize
  <2>1. CASE ring' = ring
    BY <2>1 DEF Inv, TypeOK
  <2>2. CASE ring' = Append(ring, sent') /\ Len(ring) < RingSize
    BY <1>2, <2>2, Types, AppendOrder
  <2>3. QED
    BY <1>4, <2>1, <2>2
<1>10. uring' \in Seq(Msg) /\ Len(uring') <= RingSize
  <2>1. CASE uring' = uring
    BY <2>1 DEF Inv, TypeOK
  <2>2. CASE uring' = Append(uring, sent') /\ Len(uring) < RingSize
    BY <1>2, <2>2, Types, AppendOrder
  <2>3. QED
    BY <1>5, <2>1, <2>2
<1>11. TypeOK'
  <2>1. mark' \in 0 .. sent' /\ gout' \in 0 .. sent' /\ uout' \in 0 .. sent'
    BY <1>2, <1>3, <1>8, Types
  <2>2. QED
    BY <1>2, <1>3, <1>6, <1>9, <1>10, <2>1 DEF Inv, TypeOK
<1>12. CallerOrder' /\ ReadyBefore'
  BY <1>3 DEF Inv, CallerOrder, ReadyBefore
<1>13. FreshBefore'
  <2>1. CASE ring' = ring
    BY <1>3, <2>1 DEF Inv, FreshBefore
  <2>2. CASE ring' = Append(ring, sent')
    BY <1>2, <1>3, <1>8, <2>2, Types, AppendOrder DEF Inv, FreshBefore
  <2>3. QED
    BY <1>4, <2>1, <2>2
<1>14. GpioOrder'
  <2>1. AtMost(queue, sent') /\ AtMost(hand, sent') /\ AtMost(ring, sent')
        /\ Below(queue, sent') /\ Below(hand, sent') /\ Below(ring, sent')
    BY <1>7, Types DEF Inv, GpioOrder
  <2>2. CASE ring' = ring
    BY <1>3, <2>1, <2>2 DEF Inv, GpioOrder
  <2>3. CASE ring' = Append(ring, sent')
    <3>1. Increasing(ring') /\ After(gout, ring') /\ AtMost(ring', sent')
      BY <1>2, <1>8, <2>1, <2>3, Types, AppendOrder DEF Inv, GpioOrder
    <3>2. Before(queue, ring') /\ Before(hand, ring')
      BY <1>2, <2>1, <2>3, Types, AppendOrder DEF Inv, GpioOrder
    <3>3. QED
      BY <1>3, <2>1, <3>1, <3>2 DEF Inv, GpioOrder
  <2>4. QED
    BY <1>4, <2>2, <2>3
<1>15. UsbdOrder'
  <2>1. AtMost(batch, sent') /\ AtMost(uring, sent')
        /\ Below(batch, sent') /\ Below(uring, sent')
    BY <1>7, Types DEF Inv, UsbdOrder
  <2>2. CASE uring' = uring
    BY <1>3, <2>1, <2>2 DEF Inv, UsbdOrder
  <2>3. CASE uring' = Append(uring, sent')
    <3>1. Increasing(uring') /\ After(uout, uring') /\ AtMost(uring', sent')
      BY <1>2, <1>8, <2>1, <2>3, Types, AppendOrder DEF Inv, UsbdOrder
    <3>2. Before(batch, uring')
      BY <1>2, <2>1, <2>3, Types, AppendOrder DEF Inv, UsbdOrder
    <3>3. QED
      BY <1>3, <2>1, <3>1, <3>2 DEF Inv, UsbdOrder
  <2>4. QED
    BY <1>5, <2>2, <2>3
<1>16. QED
  BY <1>11, <1>12, <1>13, <1>14, <1>15 DEF Inv

LEMMA EnableKeeps ==
  ASSUME Inv, Enable
  PROVE  Inv'
<1> USE DEF Enable, gpioVars, usbdVars, usbhVars, CallerAt, Free, Routing
<1>1. TypeOK'
  BY DEF Inv, TypeOK
<1>2. CallerOrder'
  BY DEF Inv, CallerOrder
<1>3. ReadyBefore'
  BY DEF Inv, TypeOK, ReadyBefore
<1>4. FreshBefore'
  BY DEF Inv, CallerOrder, FreshBefore, After
<1>5. GpioOrder'
  BY DEF Inv, GpioOrder, Increasing, After, Before, AtMost
<1>6. UsbdOrder'
  BY DEF Inv, UsbdOrder
<1>7. QED
  BY <1>1, <1>2, <1>3, <1>4, <1>5, <1>6 DEF Inv

LEMMA DisableKeeps ==
  ASSUME Inv, Disable
  PROVE  Inv'
<1> USE DEF Disable, gpioVars, usbdVars, usbhVars, CallerAt, Free, Routing
<1>1. TypeOK'
  <2>1. cpc' \in {"idle", "load", "joinw", "joinr", "log"} \cup CallerRuns /\ gmap' \in BOOLEAN
        /\ gports' \in {0, 1}
    BY DEF Inv, TypeOK
  <2> HIDE DEF CallerRuns
  <2>2. QED
    BY <2>1 DEF Inv, TypeOK
<1>2. CallerOrder'
  BY DEF Inv, CallerOrder
<1>3. ReadyBefore'
  BY DEF Inv, TypeOK, ReadyBefore
<1>4. FreshBefore'
  BY DEF Inv, CallerOrder, FreshBefore, After
<1>5. GpioOrder'
  BY DEF Inv, GpioOrder, Increasing, After, Before, AtMost
<1>6. UsbdOrder'
  BY DEF Inv, UsbdOrder
<1>7. QED
  BY <1>1, <1>2, <1>3, <1>4, <1>5, <1>6 DEF Inv

LEMMA LoadRoutingKeeps ==
  ASSUME Inv, LoadRouting
  PROVE  Inv'
<1> USE DEF LoadRouting, gpioVars, usbdVars, usbhVars, CallerAt, Free, Routing
<1>1. TypeOK'
  BY DEF Inv, TypeOK
<1>2. CallerOrder'
  BY DEF Inv, CallerOrder
<1>3. ReadyBefore'
  BY DEF Inv, TypeOK, ReadyBefore
<1>4. FreshBefore'
  BY DEF Inv, CallerOrder, FreshBefore, After
<1>5. GpioOrder'
  BY DEF Inv, GpioOrder, Increasing, After, Before, AtMost
<1>6. UsbdOrder'
  BY DEF Inv, UsbdOrder
<1>7. QED
  BY <1>1, <1>2, <1>3, <1>4, <1>5, <1>6 DEF Inv

LEMMA CreateThreadsKeeps ==
  ASSUME Inv, CreateThreads
  PROVE  Inv'
<1> USE DEF CreateThreads, gpioVars, usbdVars, usbhVars, CallerAt, Free, Routing
<1>1. TypeOK'
  BY DEF Inv, TypeOK
<1>2. CallerOrder'
  BY DEF Inv, CallerOrder
<1>3. ReadyBefore'
  BY DEF Inv, TypeOK, ReadyBefore
<1>4. FreshBefore'
  BY DEF Inv, CallerOrder, FreshBefore, After
<1>5. GpioOrder'
  BY DEF Inv, GpioOrder, Increasing, After, Before, AtMost
<1>6. UsbdOrder'
  BY DEF Inv, UsbdOrder
<1>7. QED
  BY <1>1, <1>2, <1>3, <1>4, <1>5, <1>6 DEF Inv

LEMMA ObjInitKeeps ==
  ASSUME Inv, ObjInit
  PROVE  Inv'
<1> USE DEF ObjInit, gpioVars, usbdVars, usbhVars, CallerAt, Free, Routing
<1>1. TypeOK'
  BY DEF Inv, TypeOK
<1>2. CallerOrder'
  BY DEF Inv, CallerOrder
<1>3. ReadyBefore'
  BY DEF Inv, TypeOK, ReadyBefore
<1>4. FreshBefore'
  BY DEF Inv, CallerOrder, FreshBefore, After
<1>5. GpioOrder'
  BY DEF Inv, GpioOrder, Increasing, After, Before, AtMost
<1>6. UsbdOrder'
  BY DEF Inv, UsbdOrder
<1>7. QED
  BY <1>1, <1>2, <1>3, <1>4, <1>5, <1>6 DEF Inv

LEMMA StartedKeeps ==
  ASSUME Inv, Started
  PROVE  Inv'
<1> USE DEF Started, gpioVars, usbdVars, usbhVars, CallerAt, Free, Routing
<1>1. TypeOK'
  BY DEF Inv, TypeOK
<1>2. CallerOrder'
  BY DEF Inv, CallerOrder
<1>3. ReadyBefore'
  BY DEF Inv, TypeOK, ReadyBefore
<1>4. FreshBefore'
  BY DEF Inv, CallerOrder, FreshBefore, After
<1>5. GpioOrder'
  BY DEF Inv, GpioOrder, Increasing, After, Before, AtMost
<1>6. UsbdOrder'
  BY DEF Inv, UsbdOrder
<1>7. QED
  BY <1>1, <1>2, <1>3, <1>4, <1>5, <1>6 DEF Inv

LEMMA StopSerialKeeps ==
  ASSUME Inv, StopSerial
  PROVE  Inv'
<1>1. /\ UNCHANGED <<sent, fault, gmap, gports, active, notify, ring, evt, gout, mark, table,
                     usbdVars, usbhVars>>
      /\ serial' = FALSE /\ queue' = <<>> /\ cpc = "sdstop" /\ cpc' = "signal"
      /\ reader' \in {"reset", reader}
  BY DEF StopSerial, CallerAt
<1>2. (writer' = "reset" /\ hand' = <<>>) \/ UNCHANGED <<writer, hand>>
  BY DEF StopSerial
<1>3. queue' \in Seq(Msg) /\ Len(queue') = 0 /\ hand' \in Seq(Msg) /\ Len(hand') <= 1
  <2>1. queue' \in Seq(Msg) /\ Len(queue') = 0
    BY <1>1, EmptySeq
  <2>2. CASE hand' = <<>>
    BY <2>1, <2>2, EmptySeq
  <2>3. CASE hand' = hand
    BY <2>1, <2>3 DEF Inv, TypeOK
  <2>4. QED
    BY <1>2, <2>2, <2>3
<1>4. writer' \in {"none", "wait", "get", "blocked", "reset"}
  BY <1>2 DEF Inv, TypeOK
<1>5. TypeOK'
  <2>1. Len(queue') <= QueueSize /\ reader' \in {"none", "get", "byte", "reset"}
        /\ cpc' \in {"idle", "load", "joinw", "joinr", "log"} \cup CallerRuns
    BY <1>1, <1>3, PortsAssumption DEF Inv, TypeOK
  <2>2. UNCHANGED <<sent, fault, gmap, gports, active, notify, ring, evt, gout, mark, table,
                    uring, uevt, usbd, batch, uout, hports, hmap>> /\ serial' \in BOOLEAN
    BY <1>1 DEF usbdVars, usbhVars
  <2> HIDE DEF CallerRuns
  <2>3. QED
    BY <1>3, <1>4, <2>1, <2>2 DEF Inv, TypeOK
<1>6. CallerOrder'
  BY <1>1, <1>2 DEF Inv, CallerOrder
<1>7. ReadyBefore' /\ UsbdOrder'
  BY <1>1 DEF Inv, ReadyBefore, UsbdOrder, usbdVars
<1>8. FreshBefore' /\ GpioOrder'
  <2>1. \A i \in DOMAIN queue' : FALSE
    BY <1>1
  <2>2. CASE hand' = hand
    BY <1>1, <2>1, <2>2 DEF Inv, FreshBefore, GpioOrder, Increasing, After, Before, AtMost
  <2>3. CASE hand' = <<>>
    BY <1>1, <2>1, <2>3 DEF Inv, FreshBefore, GpioOrder, Increasing, After, Before, AtMost
  <2>4. QED
    BY <1>2, <2>2, <2>3
<1>9. QED
  BY <1>5, <1>6, <1>7, <1>8 DEF Inv

LEMMA SignalStopKeeps ==
  ASSUME Inv, SignalStop
  PROVE  Inv'
<1> USE DEF SignalStop, gpioVars, usbdVars, usbhVars, CallerAt, Free, Routing
<1>1. TypeOK'
  BY DEF Inv, TypeOK
<1>2. CallerOrder'
  BY DEF Inv, CallerOrder
<1>3. ReadyBefore'
  BY DEF Inv, TypeOK, ReadyBefore
<1>4. FreshBefore'
  BY DEF Inv, CallerOrder, FreshBefore, After
<1>5. GpioOrder'
  BY DEF Inv, GpioOrder, Increasing, After, Before, AtMost
<1>6. UsbdOrder'
  BY DEF Inv, UsbdOrder
<1>7. QED
  BY <1>1, <1>2, <1>3, <1>4, <1>5, <1>6 DEF Inv

LEMMA JoinWriterKeeps ==
  ASSUME Inv, JoinWriter
  PROVE  Inv'
<1> USE DEF JoinWriter, gpioVars, usbdVars, usbhVars, CallerAt, Free, Routing
<1>1. TypeOK'
  BY DEF Inv, TypeOK
<1>2. CallerOrder'
  BY DEF Inv, CallerOrder
<1>3. ReadyBefore'
  BY DEF Inv, TypeOK, ReadyBefore
<1>4. FreshBefore'
  BY DEF Inv, CallerOrder, FreshBefore, After
<1>5. GpioOrder'
  BY DEF Inv, GpioOrder, Increasing, After, Before, AtMost
<1>6. UsbdOrder'
  BY DEF Inv, UsbdOrder
<1>7. QED
  BY <1>1, <1>2, <1>3, <1>4, <1>5, <1>6 DEF Inv

LEMMA JoinReaderKeeps ==
  ASSUME Inv, JoinReader
  PROVE  Inv'
<1> USE DEF JoinReader, gpioVars, usbdVars, usbhVars, CallerAt, Free, Routing
<1>1. TypeOK'
  <2>1. cpc' \in {"idle", "load", "joinw", "joinr", "log"} \cup CallerRuns /\ active' \in BOOLEAN
    BY DEF Inv, TypeOK
  <2> HIDE DEF CallerRuns
  <2>2. QED
    BY <2>1 DEF Inv, TypeOK
<1>2. CallerOrder'
  BY DEF Inv, CallerOrder
<1>3. ReadyBefore'
  BY DEF Inv, TypeOK, ReadyBefore
<1>4. FreshBefore'
  BY DEF Inv, CallerOrder, FreshBefore, After
<1>5. GpioOrder'
  BY DEF Inv, GpioOrder, Increasing, After, Before, AtMost
<1>6. UsbdOrder'
  BY DEF Inv, UsbdOrder
<1>7. QED
  BY <1>1, <1>2, <1>3, <1>4, <1>5, <1>6 DEF Inv

LEMMA LogStoppedKeeps ==
  ASSUME Inv, LogStopped
  PROVE  Inv'
<1> USE DEF LogStopped, gpioVars, usbdVars, usbhVars, CallerAt, Free, Routing
<1>1. TypeOK'
  <2>1. cpc' \in {"idle", "load", "joinw", "joinr", "log"} \cup CallerRuns /\ active' \in BOOLEAN
    BY DEF Inv, TypeOK
  <2> HIDE DEF CallerRuns
  <2>2. QED
    BY <2>1 DEF Inv, TypeOK
<1>2. CallerOrder'
  BY DEF Inv, CallerOrder
<1>3. ReadyBefore'
  BY DEF Inv, TypeOK, ReadyBefore
<1>4. FreshBefore'
  BY DEF Inv, CallerOrder, FreshBefore, After
<1>5. GpioOrder'
  BY DEF Inv, GpioOrder, Increasing, After, Before, AtMost
<1>6. UsbdOrder'
  BY DEF Inv, UsbdOrder
<1>7. QED
  BY <1>1, <1>2, <1>3, <1>4, <1>5, <1>6 DEF Inv

LEMMA WakeKeeps ==
  ASSUME Inv, Wake
  PROVE  Inv'
<1> USE DEF Wake, gpioVars, usbdVars, usbhVars, CallerAt, Free, Routing
<1>1. TypeOK'
  <2>1. evt' \in SUBSET {1, 2} /\ writer' \in {"none", "wait", "get", "blocked", "reset"}
    BY DEF Inv, TypeOK
  <2> HIDE DEF CallerRuns
  <2>2. QED
    BY <2>1 DEF Inv, TypeOK
<1>2. CallerOrder'
  BY DEF Inv, CallerOrder
<1>3. ReadyBefore'
  BY DEF Inv, TypeOK, ReadyBefore
<1>4. FreshBefore'
  BY DEF Inv, CallerOrder, FreshBefore, After
<1>5. GpioOrder'
  BY DEF Inv, GpioOrder, Increasing, After, Before, AtMost
<1>6. UsbdOrder'
  BY DEF Inv, UsbdOrder
<1>7. QED
  BY <1>1, <1>2, <1>3, <1>4, <1>5, <1>6 DEF Inv

LEMMA GetKeeps ==
  ASSUME Inv, Get
  PROVE  Inv'
<1>1. hand = <<>>
  BY DEF Get, Inv, CallerOrder
<1>2. UNCHANGED <<sent, fault, gmap, gports, active, cpc, notify, evt, reader, serial, gout,
                  mark, table, usbdVars, usbhVars>>
  BY DEF Get
<1>3. CASE ring = <<>>
  <2>1. writer' = "wait" /\ UNCHANGED <<ring, queue, hand>>
    BY <1>3 DEF Get
  <2>2. QED
    BY <1>1, <1>2, <2>1 DEF Inv, TypeOK, CallerOrder, ReadyBefore, FreshBefore, GpioOrder,
                            UsbdOrder, usbdVars, usbhVars
<1>4. CASE ring # <<>>
  <2> DEFINE h == Head(ring)
  <2>1. /\ ring' = Tail(ring)
        /\ \/ Len(queue) < QueueSize /\ queue' = Append(queue, h) /\ UNCHANGED <<writer, hand>>
           \/ hand' = <<h>> /\ writer' = "blocked" /\ queue' = queue
    BY <1>4 DEF Get
  <2>2. ring' \in Seq(Msg) /\ Len(ring') = Len(ring) - 1 /\ h \in Msg /\ h \in Nat
    BY <1>4, <2>1, Types, TailOrder, MsgNumber
  <2>3. /\ Increasing(ring') /\ After(h, ring')
        /\ gout < h /\ After(gout, ring') /\ h <= sent /\ AtMost(ring', sent)
    BY <1>4, <2>1, Types, TailOrder DEF Inv, GpioOrder
  <2>4. Below(queue, h) /\ Before(queue, ring')
    BY <1>4, <2>1, Types, TailOrder DEF Inv, GpioOrder
  <2>5. active \/ cpc = "ports" => mark < h /\ After(mark, ring')
    BY <1>4, <2>1, Types, TailOrder DEF Inv, FreshBefore
  <2>6. Len(ring') <= RingSize
    BY <2>2, Types, PortsAssumption DEF Inv, TypeOK
  <2> HIDE DEF h
  <2>7. CASE Len(queue) < QueueSize /\ queue' = Append(queue, h) /\ UNCHANGED <<writer, hand>>
    <3>1. queue' \in Seq(Msg) /\ Len(queue') <= QueueSize
      BY <2>2, <2>7, Types, AppendOrder, PortsAssumption
    <3>2. Increasing(queue') /\ After(gout, queue') /\ AtMost(queue', sent)
      BY <2>2, <2>3, <2>4, <2>7, Types, AppendOrder DEF Inv, GpioOrder
    <3>3. Before(queue', ring')
      BY <2>2, <2>3, <2>4, <2>7, Types, AppendOrder DEF Inv, GpioOrder
    <3>4. TypeOK'
      BY <1>2, <2>2, <2>6, <2>7, <3>1 DEF Inv, TypeOK, usbdVars, usbhVars
    <3>5. Before(queue', hand) /\ Before(hand, ring') /\ After(gout, hand) /\ AtMost(hand, sent)
      BY <1>1 DEF Before, After, AtMost
    <3>6. GpioOrder'
      BY <1>2, <2>3, <2>7, <3>2, <3>3, <3>5 DEF GpioOrder
    <3>7. CallerOrder' /\ ReadyBefore' /\ FreshBefore' /\ UsbdOrder'
      BY <1>2, <2>5, <2>7 DEF Inv, CallerOrder, ReadyBefore, FreshBefore, UsbdOrder, usbdVars
    <3>8. QED
      BY <3>4, <3>6, <3>7 DEF Inv
  <2>8. CASE hand' = <<h>> /\ writer' = "blocked" /\ queue' = queue
    <3>1. hand' \in Seq(Msg) /\ Len(hand') = 1 /\ \A i \in DOMAIN hand' : hand'[i] = h
      BY <2>2, <2>8
    <3>2. TypeOK'
      BY <1>2, <2>2, <2>6, <2>8, <3>1 DEF Inv, TypeOK, usbdVars, usbhVars
    <3>3. /\ After(gout, hand') /\ Before(queue, hand') /\ Before(hand', ring')
          /\ AtMost(hand', sent)
      BY <2>3, <2>4, <3>1 DEF After, Before, Below, AtMost
    <3>4. GpioOrder'
      BY <1>2, <2>3, <2>4, <2>8, <3>3 DEF Inv, GpioOrder
    <3>5. active \/ cpc = "ports" => After(mark, hand')
      BY <2>5, <3>1 DEF After
    <3>6. cpc # "objinit"
      BY DEF Get, Inv, CallerOrder
    <3>7. CallerOrder' /\ ReadyBefore' /\ FreshBefore' /\ UsbdOrder'
      BY <1>2, <2>5, <2>8, <3>5, <3>6
         DEF Inv, CallerOrder, ReadyBefore, FreshBefore, UsbdOrder, usbdVars
    <3>8. QED
      BY <3>2, <3>4, <3>7 DEF Inv
  <2>9. QED
    BY <2>1, <2>7, <2>8
<1>5. QED
  BY <1>3, <1>4

LEMMA ResumeKeeps ==
  ASSUME Inv, Resume
  PROVE  Inv'
<1>1. /\ UNCHANGED <<sent, fault, gmap, gports, active, cpc, notify, ring, evt, reader, serial,
                     gout, mark, table, usbdVars, usbhVars>>
      /\ writer' = "get" /\ cpc # "objinit"
  BY DEF Resume, Free, CallerRuns
<1>2. CASE UNCHANGED <<queue, hand>> /\ hand = <<>>
  BY <1>1, <1>2 DEF Inv, TypeOK, CallerOrder, ReadyBefore, FreshBefore, GpioOrder, UsbdOrder,
                    usbdVars, usbhVars
<1>3. CASE queue' = queue \o hand /\ hand' = <<>> /\ Len(queue) < QueueSize /\ hand # <<>>
  <2> DEFINE h == Head(hand)
  <2>1. queue' = Append(queue, h) /\ h \in Msg /\ h \in Nat
    <3>1. h \in Msg
      BY <1>3, Types, TailOrder
    <3>2. hand = <<h>>
      <4>1. Len(hand) <= 1
        BY DEF Inv, TypeOK
      <4>2. QED
        BY <1>3, <4>1, Types, Single
    <3>3. queue \o <<h>> = Append(queue, h)
      BY <3>1, Types
    <3>4. QED
      BY <1>3, <3>1, <3>2, <3>3, MsgNumber
  <2>2. gout < h /\ h <= sent /\ After(h, ring) /\ Below(queue, h)
    BY <1>3, Types, TailOrder DEF Inv, GpioOrder
  <2> HIDE DEF h
  <2>3. queue' \in Seq(Msg) /\ Len(queue') <= QueueSize
    BY <1>3, <2>1, Types, AppendOrder, PortsAssumption
  <2>4. Increasing(queue') /\ After(gout, queue') /\ AtMost(queue', sent)
    BY <2>1, <2>2, Types, AppendOrder DEF Inv, GpioOrder
  <2>5. Before(queue', ring)
    BY <2>1, <2>2, Types, AppendOrder DEF Inv, GpioOrder
  <2>6. /\ After(gout, hand') /\ Before(queue', hand') /\ Before(hand', ring)
        /\ AtMost(hand', sent) /\ After(mark, hand')
    BY <1>3 DEF After, Before, AtMost
  <2>7. TypeOK'
    BY <1>1, <1>3, <2>3 DEF Inv, TypeOK, usbdVars, usbhVars
  <2>8. GpioOrder'
    BY <1>1, <2>4, <2>5, <2>6 DEF Inv, GpioOrder
  <2>9. CallerOrder' /\ ReadyBefore' /\ FreshBefore' /\ UsbdOrder'
    BY <1>1, <1>3, <2>6 DEF Inv, CallerOrder, ReadyBefore, FreshBefore, UsbdOrder, usbdVars
  <2>10. QED
    BY <2>7, <2>8, <2>9 DEF Inv
<1>4. CASE writer = "reset"
  BY <1>2, <1>4 DEF Resume, Inv, CallerOrder
<1>5. CASE writer = "blocked" /\ hand = <<>>
  <2>1. queue \o hand = queue
    BY <1>5, Types
  <2>2. QED
    BY <1>2, <1>5, <2>1 DEF Resume
<1>6. QED
  BY <1>3, <1>4, <1>5 DEF Resume

LEMMA ReadKeeps ==
  ASSUME Inv, Read
  PROVE  Inv'
<1> USE DEF Read, gpioVars, usbdVars, usbhVars, CallerAt, Free, Routing
<1>1. TypeOK'
  BY DEF Inv, TypeOK
<1>2. CallerOrder'
  BY DEF Inv, CallerOrder
<1>3. ReadyBefore'
  BY DEF Inv, TypeOK, ReadyBefore
<1>4. FreshBefore'
  BY DEF Inv, CallerOrder, FreshBefore, After
<1>5. GpioOrder'
  BY DEF Inv, GpioOrder, Increasing, After, Before, AtMost
<1>6. UsbdOrder'
  BY DEF Inv, UsbdOrder
<1>7. QED
  BY <1>1, <1>2, <1>3, <1>4, <1>5, <1>6 DEF Inv

LEMMA ByteComesKeeps ==
  ASSUME Inv, ByteComes
  PROVE  Inv'
<1> USE DEF ByteComes, gpioVars, usbdVars, usbhVars, CallerAt, Free, Routing
<1>1. TypeOK'
  BY DEF Inv, TypeOK
<1>2. CallerOrder'
  BY DEF Inv, CallerOrder
<1>3. ReadyBefore'
  BY DEF Inv, TypeOK, ReadyBefore
<1>4. FreshBefore'
  BY DEF Inv, CallerOrder, FreshBefore, After
<1>5. GpioOrder'
  BY DEF Inv, GpioOrder, Increasing, After, Before, AtMost
<1>6. UsbdOrder'
  BY DEF Inv, UsbdOrder
<1>7. QED
  BY <1>1, <1>2, <1>3, <1>4, <1>5, <1>6 DEF Inv

LEMMA LineKeeps ==
  ASSUME Inv, Line
  PROVE  Inv'
<1>1. UNCHANGED <<sent, fault, gmap, gports, active, cpc, notify, ring, evt, writer, hand,
                  reader, serial, mark, table, usbdVars, usbhVars>>
  BY DEF Line
<1>2. queue # <<>> /\ gout' = Head(queue) /\ queue' = Tail(queue)
  BY DEF Line
<1>3. queue' \in Seq(Msg) /\ Len(queue') <= QueueSize /\ gout' \in Nat
  <2>1. Len(queue') = Len(queue) - 1 /\ Len(queue) <= QueueSize
    BY <1>2, Types, TailOrder DEF Inv, TypeOK
  <2>2. QED
    BY <1>2, <2>1, Types, TailOrder, MsgNumber, PortsAssumption
<1>4. gout' <= sent /\ AtMost(queue', sent) /\ After(gout', queue') /\ Increasing(queue')
  BY <1>2, Types, TailOrder DEF Inv, GpioOrder
<1>5. /\ After(gout', hand) /\ After(gout', ring)
      /\ Before(queue', hand) /\ Before(queue', ring)
  BY <1>2, Types, TailOrder DEF Inv, GpioOrder
<1>6. TypeOK'
  <2>1. gout' \in 0 .. sent
    BY <1>3, <1>4, Types
  <2>2. QED
    BY <1>1, <1>3, <2>1 DEF Inv, TypeOK, usbdVars, usbhVars
<1>7. GpioOrder'
  BY <1>1, <1>4, <1>5 DEF Inv, GpioOrder
<1>8. CallerOrder' /\ ReadyBefore' /\ FreshBefore' /\ UsbdOrder'
  BY <1>1 DEF Inv, CallerOrder, ReadyBefore, FreshBefore, UsbdOrder, usbdVars
<1>9. QED
  BY <1>6, <1>7, <1>8 DEF Inv

LEMMA ReadTableKeeps ==
  ASSUME Inv, ReadTable
  PROVE  Inv'
<1> USE DEF ReadTable, gpioVars, usbdVars, usbhVars, CallerAt, Free, Routing
<1>1. TypeOK'
  BY DEF Inv, TypeOK
<1>2. CallerOrder'
  BY DEF Inv, CallerOrder
<1>3. ReadyBefore'
  BY DEF Inv, TypeOK, ReadyBefore
<1>4. FreshBefore'
  BY DEF Inv, CallerOrder, FreshBefore, After
<1>5. GpioOrder'
  BY DEF Inv, GpioOrder, Increasing, After, Before, AtMost
<1>6. UsbdOrder'
  BY DEF Inv, UsbdOrder
<1>7. QED
  BY <1>1, <1>2, <1>3, <1>4, <1>5, <1>6 DEF Inv

LEMMA WriteTableKeeps ==
  ASSUME Inv, WriteTable
  PROVE  Inv'
<1> USE DEF WriteTable, gpioVars, usbdVars, usbhVars, CallerAt, Free, Routing
<1>1. TypeOK'
  BY DEF Inv, TypeOK
<1>2. CallerOrder'
  BY DEF Inv, CallerOrder
<1>3. ReadyBefore'
  BY DEF Inv, TypeOK, ReadyBefore
<1>4. FreshBefore'
  BY DEF Inv, CallerOrder, FreshBefore, After
<1>5. GpioOrder'
  BY DEF Inv, GpioOrder, Increasing, After, Before, AtMost
<1>6. UsbdOrder'
  BY DEF Inv, UsbdOrder
<1>7. QED
  BY <1>1, <1>2, <1>3, <1>4, <1>5, <1>6 DEF Inv

LEMMA CycleKeeps ==
  ASSUME Inv, Cycle
  PROVE  Inv'
<1> USE DEF Cycle, gpioVars, usbdVars, usbhVars, CallerAt, Free, Routing
<1>1. TypeOK'
  BY DEF Inv, TypeOK
<1>2. CallerOrder'
  BY DEF Inv, CallerOrder
<1>3. ReadyBefore'
  BY DEF Inv, TypeOK, ReadyBefore
<1>4. FreshBefore'
  BY DEF Inv, CallerOrder, FreshBefore, After
<1>5. GpioOrder'
  BY DEF Inv, GpioOrder, Increasing, After, Before, AtMost
<1>6. UsbdOrder'
  BY DEF Inv, UsbdOrder
<1>7. QED
  BY <1>1, <1>2, <1>3, <1>4, <1>5, <1>6 DEF Inv

LEMMA TakeBatchKeeps ==
  ASSUME Inv, TakeBatch
  PROVE  Inv'
<1> DEFINE k == IF Len(uring) < Batch THEN Len(uring) ELSE Batch
<1>1. /\ UNCHANGED <<sent, fault, gpioVars, uout, usbhVars>> /\ uevt' = FALSE
      /\ usbd' = IF batch' = <<>> THEN "wait" ELSE "transmit"
      /\ batch' = SubSeq(uring, 1, k) /\ uring' = SubSeq(uring, Len(batch') + 1, Len(uring))
  BY DEF TakeBatch
<1>2. k \in 0 .. Len(uring) /\ k <= Batch
  BY Types, PortsAssumption
<1> HIDE DEF k
<1>3. batch' \in Seq(Msg) /\ Len(batch') = k
  BY <1>1, <1>2, Types, SplitOrder
<1>4. uring' = SubSeq(uring, k + 1, Len(uring))
  BY <1>1, <1>3
<1>5. uring' \in Seq(Msg) /\ Len(uring') = Len(uring) - k
  BY <1>2, <1>4, Types, SplitOrder
<1>6. TypeOK'
  <2>1. Len(uring') <= RingSize /\ Len(batch') <= Batch
    BY <1>2, <1>3, <1>5, Types, PortsAssumption DEF Inv, TypeOK
  <2>2. QED
    <3>1. usbd' \in {"wait", "transmit", "sleep"} /\ uevt' \in BOOLEAN
      BY <1>1
    <3> HIDE DEF CallerRuns
    <3>2. UNCHANGED <<sent, fault, gmap, gports, active, cpc, notify, ring, evt, writer, hand, reader,
                      serial, queue, gout, mark, table, uout, hports, hmap>>
      BY <1>1 DEF gpioVars, usbhVars
    <3>3. QED
      BY <1>3, <1>5, <2>1, <3>1, <3>2 DEF Inv, TypeOK
<1>7. /\ Increasing(batch') /\ Increasing(uring') /\ Before(batch', uring')
      /\ After(uout, batch') /\ After(uout, uring')
      /\ AtMost(batch', sent) /\ AtMost(uring', sent)
  <2>1. Increasing(uring) /\ After(uout, uring) /\ AtMost(uring, sent)
    BY DEF Inv, UsbdOrder
  <2>2. uring \in Seq(Msg) /\ uout \in Nat /\ sent \in Nat
    BY Types
  <2>3. batch' = SubSeq(uring, 1, k)
    BY <1>1
  <2>4. /\ Increasing(batch') /\ Increasing(uring') /\ Before(batch', uring')
        /\ After(uout, batch') /\ After(uout, uring')
    BY <1>2, <1>4, <2>1, <2>2, <2>3, SplitOrder
  <2>5. AtMost(batch', sent) /\ AtMost(uring', sent)
    BY <1>2, <1>4, <2>1, <2>2, <2>3, SplitOrder
  <2> QED
    BY <2>4, <2>5
<1>8. UsbdOrder'
  BY <1>1, <1>7 DEF UsbdOrder
<1>9. CallerOrder' /\ ReadyBefore' /\ FreshBefore' /\ GpioOrder'
  BY <1>1 DEF Inv, CallerOrder, ReadyBefore, FreshBefore, GpioOrder, gpioVars
<1>10. QED
  BY <1>6, <1>8, <1>9 DEF Inv

LEMMA TransmitKeeps ==
  ASSUME Inv, Transmit
  PROVE  Inv'
<1>1. UNCHANGED <<sent, fault, gpioVars, uring, uevt, usbhVars>> /\ batch' = <<>>
      /\ usbd' \in {"wait", "sleep"}
  BY DEF Transmit
<1>2. batch # <<>> /\ batch \in Seq(Msg)
  BY Types DEF Transmit, Inv, UsbdOrder
<1>3. Len(batch) \in DOMAIN batch /\ Last(batch) = batch[Len(batch)] /\ Last(batch) \in Msg
  BY <1>2 DEF Last
<1>4. uout' \in {uout, batch[Len(batch)]} /\ uout' \in Nat
  BY <1>3, Types, MsgNumber DEF Transmit
<1>5. uout' <= sent /\ After(uout', uring)
  <2>1. CASE uout' = uout
    BY <2>1, Types DEF Inv, TypeOK, UsbdOrder
  <2>2. CASE uout' = batch[Len(batch)]
    BY <1>3, <2>2 DEF Inv, UsbdOrder, After, Before, AtMost
  <2>3. QED
    BY <1>4, <2>1, <2>2
<1>6. TypeOK'
  <2>1. uout' \in 0 .. sent /\ batch' \in Seq(Msg) /\ Len(batch') <= Batch
    BY <1>1, <1>4, <1>5, Types, PortsAssumption
  <2>2. QED
    BY <1>1, <2>1 DEF Inv, TypeOK, gpioVars, usbhVars
<1>7. UsbdOrder'
  BY <1>1, <1>5 DEF Inv, UsbdOrder, Increasing, After, Before, AtMost
<1>8. CallerOrder' /\ ReadyBefore' /\ FreshBefore' /\ GpioOrder'
  BY <1>1 DEF Inv, CallerOrder, ReadyBefore, FreshBefore, GpioOrder, gpioVars
<1>9. QED
  BY <1>6, <1>7, <1>8 DEF Inv

LEMMA WakeUpKeeps ==
  ASSUME Inv, WakeUp
  PROVE  Inv'
<1> USE DEF WakeUp, gpioVars, usbdVars, usbhVars, CallerAt, Free, Routing
<1>1. TypeOK'
  BY DEF Inv, TypeOK
<1>2. CallerOrder'
  BY DEF Inv, CallerOrder
<1>3. ReadyBefore'
  BY DEF Inv, TypeOK, ReadyBefore
<1>4. FreshBefore'
  BY DEF Inv, CallerOrder, FreshBefore, After
<1>5. GpioOrder'
  BY DEF Inv, GpioOrder, Increasing, After, Before, AtMost
<1>6. UsbdOrder'
  BY DEF Inv, UsbdOrder
<1>7. QED
  BY <1>1, <1>2, <1>3, <1>4, <1>5, <1>6 DEF Inv

LEMMA InterfaceInitKeeps ==
  ASSUME Inv, InterfaceInit
  PROVE  Inv'
<1> USE DEF InterfaceInit, gpioVars, usbdVars, usbhVars, CallerAt, Free, Routing
<1>1. TypeOK'
  BY DEF Inv, TypeOK
<1>2. CallerOrder'
  BY DEF Inv, CallerOrder
<1>3. ReadyBefore'
  BY DEF Inv, TypeOK, ReadyBefore
<1>4. FreshBefore'
  BY DEF Inv, CallerOrder, FreshBefore, After
<1>5. GpioOrder'
  BY DEF Inv, GpioOrder, Increasing, After, Before, AtMost
<1>6. UsbdOrder'
  BY DEF Inv, UsbdOrder
<1>7. QED
  BY <1>1, <1>2, <1>3, <1>4, <1>5, <1>6 DEF Inv

LEMMA NameKnownKeeps ==
  ASSUME Inv, NameKnown
  PROVE  Inv'
<1> USE DEF NameKnown, gpioVars, usbdVars, usbhVars, CallerAt, Free, Routing
<1>1. TypeOK'
  BY DEF Inv, TypeOK
<1>2. CallerOrder'
  BY DEF Inv, CallerOrder
<1>3. ReadyBefore'
  BY DEF Inv, TypeOK, ReadyBefore
<1>4. FreshBefore'
  BY DEF Inv, CallerOrder, FreshBefore, After
<1>5. GpioOrder'
  BY DEF Inv, GpioOrder, Increasing, After, Before, AtMost
<1>6. UsbdOrder'
  BY DEF Inv, UsbdOrder
<1>7. QED
  BY <1>1, <1>2, <1>3, <1>4, <1>5, <1>6 DEF Inv

LEMMA InterfaceDeInitKeeps ==
  ASSUME Inv, InterfaceDeInit
  PROVE  Inv'
<1> USE DEF InterfaceDeInit, gpioVars, usbdVars, usbhVars, CallerAt, Free, Routing
<1>1. TypeOK'
  BY DEF Inv, TypeOK
<1>2. CallerOrder'
  BY DEF Inv, CallerOrder
<1>3. ReadyBefore'
  BY DEF Inv, TypeOK, ReadyBefore
<1>4. FreshBefore'
  BY DEF Inv, CallerOrder, FreshBefore, After
<1>5. GpioOrder'
  BY DEF Inv, GpioOrder, Increasing, After, Before, AtMost
<1>6. UsbdOrder'
  BY DEF Inv, UsbdOrder
<1>7. QED
  BY <1>1, <1>2, <1>3, <1>4, <1>5, <1>6 DEF Inv

---------------------------------------------------------------------------
(* The theorems.                                                           *)

LEMMA InitInv == Init => Inv
<1> SUFFICES ASSUME Init PROVE Inv
  OBVIOUS
<1>1. <<>> \in Seq(Msg) /\ Len(<<>>) = 0 /\ DOMAIN <<>> = {}
  BY DEF Msg
<1>2. TypeOK
  <2>1. Len(<<>>) <= RingSize /\ Len(<<>>) <= QueueSize /\ Len(<<>>) <= Batch /\ Len(<<>>) <= 1
    BY <1>1
  <2>2. sent \in 0 .. MaxMsgs /\ mark \in 0 .. sent /\ gout \in 0 .. sent /\ uout \in 0 .. sent
    BY DEF Init
  <2>3. evt \in SUBSET {1, 2} /\ cpc \in {"idle"} /\ writer \in {"none"} /\ reader \in {"none"}
        /\ usbd \in {"wait"} /\ gports \in {0, 1} /\ hports \in {0, 1}
    BY DEF Init
  <2>4. ring = <<>> /\ uring = <<>> /\ queue = <<>> /\ hand = <<>> /\ batch = <<>>
    BY DEF Init
  <2>5. fault \in BOOLEAN /\ gmap \in BOOLEAN /\ active \in BOOLEAN /\ notify \in BOOLEAN
        /\ serial \in BOOLEAN /\ table \in BOOLEAN /\ uevt \in BOOLEAN /\ hmap \in BOOLEAN
    BY DEF Init
  <2>6. QED
    BY <1>1, <2>1, <2>2, <2>3, <2>4, <2>5 DEF TypeOK
<1>3. CallerOrder /\ ReadyBefore /\ FreshBefore
  BY <1>1 DEF Init, CallerOrder, ReadyBefore, FreshBefore, After
<1>4. GpioOrder /\ UsbdOrder
  BY <1>1 DEF Init, GpioOrder, UsbdOrder, Increasing, After, Before, AtMost
<1>5. QED
  BY <1>2, <1>3, <1>4 DEF Inv

LEMMA StutterKeeps ==
  ASSUME Inv, UNCHANGED vars
  PROVE  Inv'
BY DEF vars, gpioVars, usbdVars, usbhVars, Inv, TypeOK, CallerOrder, ReadyBefore, FreshBefore,
       GpioOrder, UsbdOrder

LEMMA NextKeeps == Inv /\ [Next]_vars => Inv'
<1> SUFFICES ASSUME Inv, [Next]_vars PROVE Inv'
  OBVIOUS
<1>1. CASE Send
  BY <1>1, SendKeeps
<1>2. CASE Gpio
  <2>1. CASE Caller
    BY <2>1, LoadRoutingKeeps, CreateThreadsKeeps, ObjInitKeeps, StartedKeeps, StopSerialKeeps,
       SignalStopKeeps, JoinWriterKeeps, JoinReaderKeeps DEF Caller
  <2>2. CASE Writer
    BY <2>2, WakeKeeps, GetKeeps, ResumeKeeps DEF Writer
  <2>3. QED
    BY <1>2, <2>1, <2>2, EnableKeeps, DisableKeeps, LogStoppedKeeps, ReadKeeps, ByteComesKeeps,
       LineKeeps
       DEF Gpio
<1>3. CASE Usb
  BY <1>3, CycleKeeps, TakeBatchKeeps, TransmitKeeps, WakeUpKeeps DEF Usb
<1>4. CASE Editor
  BY <1>4, ReadTableKeeps, WriteTableKeeps DEF Editor
<1>5. CASE UsbHost
  BY <1>5, InterfaceInitKeeps, NameKnownKeeps, InterfaceDeInitKeeps DEF UsbHost
<1>6. CASE UNCHANGED vars
  BY <1>6, StutterKeeps
<1>7. QED
  BY <1>1, <1>2, <1>3, <1>4, <1>5, <1>6 DEF Next

\* Inv holds in every reachable state of the MIDI outputs.
THEOREM InvHolds == Spec => []Inv
<1>1. Inv /\ [][Next]_vars => []Inv
  BY NextKeeps, PTL
<1>2. QED
  BY InitInv, <1>1, PTL DEF Spec

\* Every variable stays in its range: no buffer, queue or batch of the ports
\* overflows.
THEOREM TypeCorrect == Spec => []TypeOK
<1>1. Inv => TypeOK
  BY DEF Inv
<1>2. QED
  BY InvHolds, <1>1, PTL

\* midiSend (midi.c) never puts into the GPIO port's buffer before that has a
\* notify, in whatever order the port is started and stopped, its routing
\* loaded and the editor writes routes (midi_gpio.c).
THEOREM GpioBufferReadyHolds == Spec => []GpioBufferReady
<1>1. Inv => GpioBufferReady
  BY DEF Inv, ReadyBefore, GpioBufferReady
<1>2. QED
  BY InvHolds, <1>1, PTL

\* A GPIO port that was stopped and started again takes nothing from its
\* buffer that was sent before the start (midi_gpio.c).
THEOREM FreshRingHolds == Spec => []FreshRing
<1>1. Inv => FreshRing
  <2> SUFFICES ASSUME Inv, active, NEW i \in DOMAIN (hand \o ring)
               PROVE  (hand \o ring)[i] > mark
    BY DEF FreshRing
  <2>1. hand \in Seq(Msg) /\ ring \in Seq(Msg) /\ mark \in Nat
    BY Types
  <2>2. After(mark, ring) /\ After(mark, hand)
    BY DEF Inv, FreshBefore
  <2>3. CASE i <= Len(hand)
    <3>1. (hand \o ring)[i] = hand[i] /\ i \in DOMAIN hand
      BY <2>1, <2>3
    <3>2. QED
      BY <2>1, <2>2, <3>1, MsgNumber DEF After
  <2>4. CASE i > Len(hand)
    <3>1. (hand \o ring)[i] = ring[i - Len(hand)] /\ i - Len(hand) \in DOMAIN ring
      BY <2>1, <2>4
    <3>2. QED
      BY <2>1, <2>2, <3>1, MsgNumber DEF After
  <2>5. QED
    BY <2>1, <2>3, <2>4
<1>2. QED
  BY InvHolds, <1>1, PTL

\* Each output port sends its messages in the order of the calls of midiSend,
\* and none twice (midi.c, midi_gpio.c, midi_usb.c).
THEOREM InOrderHolds == Spec => []InOrder
<1>1. ASSUME NEW n \in Nat, NEW s \in Seq(Nat), Increasing(s), After(n, s)
      PROVE  <<n>> \o s \in Seq(Nat) /\ Increasing(<<n>> \o s)
  <2>1. <<n>> \in Seq(Nat) /\ Increasing(<<n>>) /\ Before(<<n>>, s)
    BY <1>1 DEF Increasing, Before, After
  <2>2. Increasing(<<n>> \o s)
    BY <1>1, <2>1, IncreasingConcat
  <2> QED
    BY <2>1, <2>2, ConcatProperties
<1>2. Inv => InOrder
  <2> SUFFICES ASSUME Inv PROVE InOrder
    OBVIOUS
  <2>1. \A s \in Seq(Msg) : s \in Seq(Nat)
    BY MsgNumber
  <2>2. /\ queue \in Seq(Nat) /\ hand \in Seq(Nat) /\ ring \in Seq(Nat)
        /\ batch \in Seq(Nat) /\ uring \in Seq(Nat) /\ gout \in Nat /\ uout \in Nat
    BY <2>1, Types
  <2>3. Increasing(hand)
    BY DEF Inv, TypeOK, Increasing
  <2>4. /\ Increasing(queue) /\ Increasing(ring) /\ Increasing(batch) /\ Increasing(uring)
        /\ After(gout, queue) /\ After(gout, hand) /\ After(gout, ring)
        /\ Before(queue, hand) /\ Before(queue, ring) /\ Before(hand, ring)
        /\ After(uout, batch) /\ After(uout, uring) /\ Before(batch, uring)
    BY DEF Inv, GpioOrder, UsbdOrder
  <2>5. ASSUME NEW n \in Nat, NEW s \in Seq(Nat), After(n, s)
        PROVE  <<n>> \in Seq(Nat) /\ Before(<<n>>, s)
    BY <2>5 DEF After, Before
  <2>6. /\ <<gout>> \o queue \in Seq(Nat) /\ Increasing(<<gout>> \o queue)
        /\ Before(<<gout>> \o queue, hand) /\ Before(<<gout>> \o queue, ring)
    <3>1. <<gout>> \o queue \in Seq(Nat) /\ Increasing(<<gout>> \o queue)
      BY <1>1, <2>2, <2>4
    <3>2. <<gout>> \in Seq(Nat) /\ Before(<<gout>>, hand) /\ Before(<<gout>>, ring)
      BY <2>2, <2>4, <2>5
    <3> QED
      BY <2>2, <2>4, <3>1, <3>2, ConcatBefore
  <2> DEFINE a == <<gout>> \o queue
             b == a \o hand
  <2>7. a \in Seq(Nat) /\ Increasing(a) /\ Before(a, hand) /\ Before(a, ring)
    BY <2>6
  <2> HIDE DEF a
  <2>8. b \in Seq(Nat) /\ Increasing(b) /\ Before(b, ring)
    <3>1. b \in Seq(Nat)
      BY <2>2, <2>7
    <3>2. Increasing(b)
      BY <2>2, <2>3, <2>7, IncreasingConcat
    <3>3. Before(b, ring)
      BY <2>2, <2>4, <2>7, ConcatBefore
    <3> QED
      BY <3>1, <3>2, <3>3
  <2> HIDE DEF b
  <2>9. Increasing(b \o ring)
    BY <2>2, <2>4, <2>8, IncreasingConcat
  <2>10. /\ <<uout>> \o batch \in Seq(Nat) /\ Increasing(<<uout>> \o batch)
         /\ Before(<<uout>> \o batch, uring)
    <3>1. <<uout>> \o batch \in Seq(Nat) /\ Increasing(<<uout>> \o batch)
      BY <1>1, <2>2, <2>4
    <3>2. <<uout>> \in Seq(Nat) /\ Before(<<uout>>, uring)
      BY <2>2, <2>4, <2>5
    <3> QED
      BY <2>2, <2>4, <3>1, <3>2, ConcatBefore
  <2>11. Increasing((<<uout>> \o batch) \o uring)
    BY <2>2, <2>4, <2>10, IncreasingConcat
  <2> QED
    BY <2>9, <2>11 DEF InOrder, a, b
<1>3. QED
  BY InvHolds, <1>2, PTL

---------------------------------------------------------------------------
(* Stopping and restarting the GPIO port.                                  *)

\* The threads are created in static working areas, which their predecessors
\* have left.
WorkAreasFree == cpc = "create" => writer = "none" /\ reader = "none"

\* The caller that waits for the writer, and then for the reader, waits for a
\* thread that has ended or will: one that runs or can go on, or that has its
\* stop event, or MSG_RESET, still to see.  Then only the host that does not
\* read the log can keep it.
StopGoesOn ==
  /\ cpc = "joinw" =>
       \/ writer \in {"none", "get", "reset"}
       \/ writer = "wait" /\ 2 \in evt
       \/ writer = "blocked" /\ Len(queue) < QueueSize
       \/ StopStuck
  /\ cpc = "joinr" =>
       writer = "none" /\ (reader \in {"none", "byte", "reset"} \/ StopStuck)
  /\ cpc = "log" => writer = "none" /\ reader = "none"

\* The threads live from their creation to the joins, and the stop event
\* reaches the writer that the caller waits for.
StopInv ==
  /\ cpc \in {"load", "create"} \/ (cpc = "idle" /\ ~ active) =>
       writer = "none" /\ reader = "none"
  /\ cpc = "log" => writer = "none" /\ reader = "none"
  /\ cpc \in {"signal", "joinw", "joinr"} => ~ serial
  /\ cpc = "joinw" /\ writer # "none" => 2 \in evt
  /\ cpc = "joinr" => writer = "none"

LEMMA StepKeepsStopInv ==
  ASSUME Inv, StopInv, [Next]_vars
  PROVE  StopInv'
<1>1. CASE UNCHANGED <<active, cpc, evt, writer, reader, serial>>
  BY <1>1 DEF StopInv
<1>2. CASE Send
  <2>1. UNCHANGED <<active, cpc, writer, reader, serial>> /\ evt \subseteq evt'
    BY <1>2 DEF Send
  <2>2. QED
    BY <2>1 DEF StopInv
<1>3. CASE Enable \/ Disable
  BY <1>3 DEF Enable, Disable, CallerAt, StopInv
<1>4. CASE LoadRouting \/ CreateThreads \/ ObjInit
  BY <1>4 DEF LoadRouting, CreateThreads, ObjInit, CallerAt, StopInv
<1>5. CASE Started \/ StopSerial
  BY <1>5 DEF Started, StopSerial, CallerAt, StopInv
<1>6. CASE SignalStop \/ JoinWriter
  BY <1>6 DEF SignalStop, JoinWriter, CallerAt, StopInv
<1>7. CASE JoinReader \/ LogStopped
  BY <1>7 DEF JoinReader, LogStopped, CallerAt, StopInv
<1>8. CASE Wake
  BY <1>8 DEF Wake, StopInv
<1>9. CASE Get \/ Resume
  <2>1. UNCHANGED <<active, cpc, evt, reader, serial>> /\ writer # "none"
    BY <1>9 DEF Get, Resume
  <2>2. QED
    BY <2>1 DEF StopInv
<1>10. CASE Read \/ ByteComes
  <2>1. UNCHANGED <<active, cpc, evt, writer, serial>> /\ reader # "none"
    BY <1>10 DEF Read, ByteComes
  <2>2. QED
    BY <2>1 DEF StopInv
<1>11. CASE Line \/ Usb \/ Editor \/ UsbHost \/ UNCHANGED vars
  <2>1. UNCHANGED <<active, cpc, evt, writer, reader, serial>>
    BY <1>11
       DEF Line, Usb, Cycle, TakeBatch, Transmit, WakeUp, Editor, ReadTable, WriteTable,
           UsbHost, InterfaceInit, NameKnown, InterfaceDeInit, vars, gpioVars
  <2>2. QED
    BY <1>1, <2>1
<1>12. QED
  BY <1>2, <1>3, <1>4, <1>5, <1>6, <1>7, <1>8, <1>9, <1>10, <1>11
     DEF Next, Gpio, Caller, Writer

LEMMA StopInvHolds == Spec => []StopInv
<1>1. Init => StopInv
  BY DEF Init, StopInv
<1>2. Inv /\ StopInv /\ [Next]_vars => StopInv'
  BY StepKeepsStopInv
<1>3. QED
  BY InvHolds, <1>1, <1>2, PTL DEF Spec

\* midi_gpio_enable never creates a thread in a working area that the thread
\* before it still uses (midi_gpio.c), whenever patches stop and start the
\* port.
THEOREM WorkAreasFreeHolds == Spec => []WorkAreasFree
<1>1. StopInv => WorkAreasFree
  BY DEF StopInv, WorkAreasFree
<1>2. QED
  BY StopInvHolds, <1>1, PTL

\* What midi_gpio_enable(0) waits for goes on, but for the two cases of
\* StopStuck: neither event is lost, whatever the DSP thread sends meanwhile
\* and whatever the writer had still to write; and when it waits for room in
\* the log pipe, both threads have ended (midi_gpio.c).
THEOREM StopGoesOnHolds == Spec => []StopGoesOn
<1>1. Inv /\ StopInv => StopGoesOn
  <2> SUFFICES ASSUME Inv, StopInv PROVE StopGoesOn
    OBVIOUS
  <2>1. /\ writer \in {"none", "wait", "get", "blocked", "reset"}
        /\ reader \in {"none", "get", "byte", "reset"}
        /\ Len(queue) \in Nat /\ Len(queue) <= QueueSize /\ QueueSize \in Nat
    BY PortsAssumption DEF Inv, TypeOK
  <2>2. QED
    BY <2>1 DEF StopInv, StopGoesOn, StopStuck
<1>2. QED
  BY InvHolds, StopInvHolds, <1>1, PTL

===========================================================================
