------------------------- MODULE MidiBufferProofs -------------------------
(***************************************************************************)
(* Whoever preempts whom, the indices of a MIDI buffer never leave the     *)
(* ring and no wake-up of its consumer is lost.  With producers that do    *)
(* not preempt each other, a buffer of any size implements a queue,        *)
(* wherever producers and consumer preempt each other.                     *)
(*                                                                         *)
(* The one free place of the ring is what makes it work: the consumer      *)
(* moves the read index before it reads the message there, and a producer  *)
(* never stores at the read index (PutInv), so neither the messages        *)
(* pending nor the one being fetched changes under the consumer.           *)
(***************************************************************************)
EXTENDS MidiBuffer, SequenceTheorems, TLAPS

\* The threads that put into the input buffer, all of one priority, or the
\* DSP thread alone.
ProducersApart == \A p, q \in Producers : p # q => <<p, q>> \notin Preempts

\* Whatever preempts, each process is in its own call, and the consumer that
\* counts stops in time.
StepInv ==
  /\ \A p \in Producers : pc[p] \in {"idle"} \cup PutSteps
  /\ pc[Consumer] \in {"idle"} \cup GetSteps
  /\ kind.batch # 0 /\ pc[Consumer] # "idle" => taken < kind.batch

WInv == TypeOK /\ StepInv

PutInv ==
  \A p \in Producers :
    /\ pc[p] # "idle" => \A q \in Producers : q # p => pc[q] = "idle"
    /\ pc[p] \in {"room", "store", "publish"} => next[p] = Following(write)
    /\ pc[p] \in {"store", "publish"} => next[p] # read
    /\ pc[p] = "publish" => buf[next[p]] = arg[p]

GetInv == pc[Consumer] = "advance" => read # write

IInv == TypeOK /\ StepInv /\ PutInv /\ GetInv

---------------------------------------------------------------------------
(* Arithmetic of the ring.                                                 *)

LEMMA FollowingIs ==
  ASSUME NEW i \in Index
  PROVE  /\ Following(i) \in Index
         /\ Following(i) = IF i = Size - 1 THEN 0 ELSE i + 1
<1>1. Size \in Nat /\ Size > 1 /\ i \in Nat /\ i < Size
  BY BufferAssumption DEF Index
<1>2. CASE i = Size - 1
  <2>1. Size % Size = 0
    BY <1>1
  <2>2. QED
    BY <1>1, <1>2, <2>1 DEF Following, Index
<1>3. CASE i # Size - 1
  <2>1. (i + 1) % Size = i + 1
    BY <1>1, <1>3
  <2>2. QED
    BY <1>1, <1>3, <2>1 DEF Following, Index
<1>4. QED
  BY <1>2, <1>3

---------------------------------------------------------------------------
(* The invariant.                                                          *)

LEMMA KindIs ==
  ASSUME TypeOK
  PROVE  kind \in Kind /\ kind.notifies \in BOOLEAN /\ kind.batch \in Nat
<1>1. kind \in Kind
  BY BufferAssumption DEF TypeOK
<1>2. QED
  BY <1>1 DEF Kind

LEMMA Processes ==
  /\ Consumer \in Process
  /\ \A p \in Producers : p \in Process /\ p # Consumer
BY BufferAssumption DEF Process

LEMMA InitIInv == Init => IInv
<1> SUFFICES ASSUME Init PROVE IInv
  OBVIOUS
<1>1. kind \in Kind
  BY BufferAssumption DEF Init
<1>2. 0 \in Index /\ 0 \in 0 .. kind.batch
  BY <1>1, BufferAssumption DEF Index, Kind
<1>3. TypeOK
  BY <1>2 DEF Init, TypeOK
<1>4. StepInv /\ PutInv /\ GetInv
  <2>1. \A p \in Process : pc[p] = "idle"
    BY DEF Init
  <2>2. QED
    BY <2>1 DEF StepInv, PutInv, GetInv, Process
<1>5. QED
  BY <1>3, <1>4 DEF IInv

LEMMA PutKeepsWInv ==
  ASSUME WInv, NEW p \in Producers, Proceed(p) \/ \E m \in Message : Put(p, m)
  PROVE  WInv'
<1> USE DEF ring, putVars, getVars, GoTo, Returns
<1>1. write \in Index /\ Following(write) \in Index
  BY FollowingIs DEF WInv, TypeOK
<1>2. ASSUME NEW to \in {"idle"} \cup PutSteps,
             pc' = [pc EXCEPT ![p] = to], UNCHANGED <<kind, taken>>, TypeOK'
      PROVE  WInv'
  <2>1. pc'[p] = to /\ \A q \in Process : q # p => pc'[q] = pc[q]
    BY <1>2, Processes DEF WInv, TypeOK
  <2>2. QED
    BY <1>2, <2>1, Processes DEF WInv, StepInv
<1>3. ASSUME NEW m \in Message, Put(p, m)
      PROVE  WInv'
  <2>1. TypeOK'
    BY <1>3, Processes DEF Put, WInv, TypeOK, PutSteps
  <2>2. QED
    BY <1>2, <1>3, <2>1 DEF Put, PutSteps
<1>4. CASE PutIndex(p)
  <2>1. TypeOK'
    BY <1>1, <1>4, Processes DEF PutIndex, WInv, TypeOK, PutSteps
  <2>2. QED
    BY <1>2, <1>4, <2>1 DEF PutIndex, PutSteps
<1>5. CASE Room(p)
  <2>1. TypeOK'
    BY <1>5, Processes DEF Room, WInv, TypeOK, PutSteps
  <2>2. QED
    BY <1>2, <1>5, <2>1 DEF Room, PutSteps
<1>6. CASE Store(p)
  <2>1. TypeOK'
    BY <1>6, Processes DEF Store, WInv, TypeOK, PutSteps
  <2>2. QED
    BY <1>2, <1>6, <2>1 DEF Store, PutSteps
<1>7. CASE Publish(p)
  <2>1. pc' = [pc EXCEPT ![p] = "notify"] \/ pc' = [pc EXCEPT ![p] = "idle"]
    BY <1>7 DEF Publish
  <2>2. TypeOK'
    BY <1>7, <2>1, Processes DEF Publish, WInv, TypeOK, PutSteps
  <2>3. QED
    BY <1>2, <1>7, <2>1, <2>2 DEF Publish, PutSteps
<1>8. CASE Notify(p)
  <2>1. TypeOK'
    BY <1>8, Processes DEF Notify, WInv, TypeOK
  <2>2. QED
    BY <1>2, <1>8, <2>1 DEF Notify
<1>9. QED
  BY <1>3, <1>4, <1>5, <1>6, <1>7, <1>8 DEF Proceed

LEMMA GetKeepsWInv ==
  ASSUME WInv, Consume
  PROVE  WInv'
<1> USE DEF ring, putVars, getVars, GoTo, Returns
<1>1. kind.batch \in Nat
  BY KindIs DEF WInv
<1>2. ASSUME NEW to \in {"idle"} \cup GetSteps,
             pc' = [pc EXCEPT ![Consumer] = to], UNCHANGED kind, TypeOK',
             kind.batch # 0 /\ to # "idle" => taken' < kind.batch
      PROVE  WInv'
  <2>1. pc'[Consumer] = to /\ \A q \in Producers : pc'[q] = pc[q]
    BY <1>2, Processes DEF WInv, TypeOK
  <2>2. QED
    BY <1>2, <2>1 DEF WInv, StepInv
<1>3. CASE Wake
  <2>1. taken' = 0 /\ kind' = kind /\ pc' = [pc EXCEPT ![Consumer] = "look"]
        /\ UNCHANGED <<read, write, buf, arg, next, got, answer>> /\ signal' = FALSE
    BY <1>3 DEF Wake
  <2>2. taken' \in 0 .. kind'.batch /\ (kind.batch # 0 => taken' < kind.batch)
    BY <1>1, <2>1
  <2>3. pc' \in [Process -> {"idle"} \cup PutSteps \cup GetSteps]
    BY <2>1 DEF WInv, TypeOK, GetSteps
  <2>4. TypeOK'
    BY <2>1, <2>2, <2>3 DEF WInv, TypeOK
  <2>5. QED
    BY <1>2, <2>1, <2>2, <2>4 DEF GetSteps
<1>4. CASE Look
  <2>1. TypeOK'
    BY <1>4, Processes DEF Look, WInv, TypeOK, GetSteps
  <2>2. pc[Consumer] = "look" /\ (kind.batch # 0 => taken < kind.batch)
    BY <1>4 DEF Look, WInv, StepInv
  <2>3. QED
    BY <1>2, <1>4, <2>1, <2>2 DEF Look, GetSteps
<1>5. CASE Advance
  <2>1. read' = Following(read) /\ pc' = [pc EXCEPT ![Consumer] = "fetch"]
        /\ UNCHANGED <<kind, write, buf, signal, arg, next, taken, got, answer>>
        /\ pc[Consumer] = "advance"
    BY <1>5 DEF Advance
  <2>2. read' \in Index
    BY <2>1, FollowingIs DEF WInv, TypeOK
  <2>3. pc' \in [Process -> {"idle"} \cup PutSteps \cup GetSteps]
    BY <2>1 DEF WInv, TypeOK, GetSteps
  <2>4. TypeOK'
    BY <2>1, <2>2, <2>3 DEF WInv, TypeOK
  <2>5. kind.batch # 0 => taken < kind.batch
    BY <2>1 DEF WInv, StepInv
  <2>6. QED
    BY <1>2, <2>1, <2>4, <2>5 DEF GetSteps
<1>6. CASE Fetch
  <2>1. /\ pc' = [pc EXCEPT ![Consumer] = IF Enough THEN "idle" ELSE "look"]
        /\ taken' = (IF kind.batch = 0 THEN 0 ELSE taken + 1)
        /\ got' = buf[read] /\ answer' = [answer EXCEPT ![Consumer] = "ok"]
        /\ UNCHANGED <<kind, read, write, buf, signal, arg, next>>
        /\ pc[Consumer] = "fetch"
    BY <1>6 DEF Fetch
  <2>2. taken \in 0 .. kind.batch /\ (kind.batch # 0 => taken < kind.batch)
    BY <2>1 DEF WInv, TypeOK, StepInv
  <2>3. taken' \in 0 .. kind.batch /\ (kind.batch # 0 /\ ~ Enough => taken' < kind.batch)
    BY <1>1, <2>1, <2>2 DEF Enough
  <2>4. \/ pc' = [pc EXCEPT ![Consumer] = "idle"]
        \/ pc' = [pc EXCEPT ![Consumer] = "look"] /\ ~ Enough
    <3>1. CASE Enough
      BY <2>1, <3>1
    <3>2. CASE ~ Enough
      BY <2>1, <3>2
    <3>3. QED
      BY <3>1, <3>2
  <2>5. pc' \in [Process -> {"idle"} \cup PutSteps \cup GetSteps]
    BY <2>4 DEF WInv, TypeOK, GetSteps
  <2>6. got' \in Message \cup {NoMessage} /\ answer' \in [Process -> {"none", "ok", "timeout"}]
    BY <2>1 DEF WInv, TypeOK
  <2>7. TypeOK'
    BY <2>1, <2>3, <2>5, <2>6 DEF WInv, TypeOK
  <2>8. QED
    BY <1>2, <2>1, <2>3, <2>4, <2>7 DEF GetSteps
<1>7. QED
  BY <1>3, <1>4, <1>5, <1>6 DEF Consume

LEMMA NextWInv == WInv /\ [Next]_vars => WInv'
<1> SUFFICES ASSUME WInv, [Next]_vars PROVE WInv'
  OBVIOUS
<1>1. CASE Cycle
  BY <1>1 DEF Cycle, ring, putVars, getVars, WInv, TypeOK, StepInv
<1>2. CASE UNCHANGED vars
  BY <1>2 DEF vars, ring, putVars, getVars, WInv, TypeOK, StepInv
<1>3. QED
  BY <1>1, <1>2, PutKeepsWInv, GetKeepsWInv DEF Next

LEMMA WInvariance == Spec => []WInv
<1>1. Init => WInv
  BY InitIInv DEF IInv, WInv
<1>2. QED
  BY <1>1, NextWInv, PTL DEF Spec

\* Types: put and get keep the indices inside the ring and the consumer its
\* batch, whatever preempts what.
THEOREM Types == Spec => []TypeOK
<1>1. WInv => TypeOK
  BY DEF WInv
<1>2. QED
  BY <1>1, WInvariance, PTL

\* A consumer that only put signals, the DIN or the GPIO writer, does not
\* sleep on a message that was accepted: its signal is pending, or the put
\* that sends it is still to end.
NoWakeUpLost ==
  kind.notifies /\ kind.batch = 0 /\ read # write /\ pc[Consumer] = "idle" =>
    signal \/ \E p \in Producers : pc[p] = "notify"

\* NoLostWakeUps: between its last get, which finds the buffer empty, and its
\* wait no put goes unnoticed, whatever preempts what.
THEOREM NoLostWakeUps == Spec => []NoWakeUpLost
<1>1. Init => NoWakeUpLost
  BY DEF Init, NoWakeUpLost
<1>2. WInv /\ NoWakeUpLost /\ [Next]_vars => NoWakeUpLost'
  <2> SUFFICES ASSUME WInv, NoWakeUpLost, [Next]_vars PROVE NoWakeUpLost'
    OBVIOUS
  <2> USE DEF GoTo, ring, putVars, getVars
  <2>1. \A q \in Process : \A to :
          pc' = [pc EXCEPT ![q] = to] =>
            pc'[q] = to /\ \A r \in Process : r # q => pc'[r] = pc[r]
    BY DEF WInv, TypeOK
  <2>2. CASE UNCHANGED <<kind, read, write, signal>> /\ UNCHANGED pc
    BY <2>2 DEF NoWakeUpLost
  <2>3. CASE signal' = TRUE
    BY <2>3 DEF NoWakeUpLost
  <2>4. ASSUME NEW p \in Producers, Publish(p)
        PROVE  NoWakeUpLost'
    <3>1. CASE kind.notifies
      BY <2>1, <2>4, <3>1, Processes DEF Publish, NoWakeUpLost
    <3>2. CASE ~ kind.notifies
      BY <2>4, <3>2 DEF Publish, NoWakeUpLost
    <3>3. QED
      BY <3>1, <3>2
  <2>5. ASSUME NEW p \in Producers,
               PutIndex(p) \/ Room(p) \/ Store(p) \/ \E m \in Message : Put(p, m)
        PROVE  NoWakeUpLost'
    <3>1. /\ UNCHANGED <<kind, read, write, signal>> /\ pc[p] # "notify"
          /\ \E to : pc' = [pc EXCEPT ![p] = to]
      BY <2>5 DEF PutIndex, Room, Store, Put
    <3>2. \A r \in Process : r # p => pc'[r] = pc[r]
      BY <2>1, <3>1, Processes
    <3>3. QED
      BY <3>1, <3>2, Processes DEF NoWakeUpLost
  <2>6. CASE Wake \/ Advance \/ (Look /\ read # write)
    <3>1. \E to \in GetSteps : pc' = [pc EXCEPT ![Consumer] = to]
      BY <2>6 DEF Wake, Advance, Look, GetSteps
    <3>2. pc'[Consumer] # "idle"
      BY <2>1, <3>1, Processes DEF GetSteps
    <3>3. QED
      BY <3>2 DEF NoWakeUpLost
  <2>7. CASE Look /\ read = write
    BY <2>7 DEF Look, NoWakeUpLost
  <2>8. CASE Fetch
    <3>1. kind' = kind
      BY <2>8 DEF Fetch
    <3>2. CASE kind.batch = 0
      BY <2>1, <2>8, <3>2, Processes DEF Fetch, Enough, NoWakeUpLost
    <3>3. CASE kind.batch # 0
      BY <3>1, <3>3 DEF NoWakeUpLost
    <3>4. QED
      BY <3>2, <3>3
  <2>9. QED
    BY <2>2, <2>3, <2>4, <2>5, <2>6, <2>7, <2>8
       DEF Next, Proceed, Consume, Notify, Cycle, vars
<1>3. QED
  BY <1>1, <1>2, WInvariance, PTL DEF Spec

---------------------------------------------------------------------------
(* Producers that do not preempt each other.                               *)

\* A producer in its put keeps the other producers out of theirs.
LEMMA Alone ==
  ASSUME ProducersApart, NEW p \in Producers,
         Proceed(p) \/ \E m \in Message : Put(p, m)
  PROVE  \A q \in Producers : q # p => pc[q] = "idle"
<1>1. MayRun(p)
  BY DEF Proceed, Put, PutIndex, Room, Store, Publish, Notify, GoTo
<1>2. QED
  BY <1>1 DEF MayRun, ProducersApart, Process

LEMMA PutKeepsIInv ==
  ASSUME IInv, ProducersApart, NEW p \in Producers,
         Proceed(p) \/ \E m \in Message : Put(p, m)
  PROVE  IInv'
<1> USE DEF ring, putVars, getVars, GoTo, Returns
<1>1. TypeOK' /\ StepInv'
  BY PutKeepsWInv DEF IInv, WInv
<1>2. \A q \in Producers : q # p => pc[q] = "idle"
  BY Alone
<1>3. ASSUME NEW to, pc' = [pc EXCEPT ![p] = to], UNCHANGED read,
             read # write => read # write',
             to \in {"room", "store", "publish"} => next'[p] = Following(write'),
             to \in {"store", "publish"} => next'[p] # read,
             to = "publish" => buf'[next'[p]] = arg'[p]
      PROVE  IInv'
  <2>1. pc'[p] = to /\ \A q \in Process : q # p => pc'[q] = pc[q]
    BY <1>3, Processes DEF IInv, TypeOK
  <2>2. \A q \in Producers : q # p => pc'[q] = "idle"
    BY <1>2, <2>1, Processes
  <2>3. PutInv'
    BY <1>3, <2>1, <2>2 DEF PutInv
  <2>4. GetInv'
    BY <1>3, <2>1, Processes DEF GetInv, IInv
  <2>5. QED
    BY <1>1, <2>3, <2>4 DEF IInv
<1>4. ASSUME NEW m \in Message, Put(p, m)
      PROVE  IInv'
  BY <1>3, <1>4 DEF Put
<1>5. CASE PutIndex(p)
  <2>1. next'[p] = Following(write)
    BY <1>5 DEF PutIndex, IInv, TypeOK
  <2>2. QED
    BY <1>3, <1>5, <2>1 DEF PutIndex
<1>6. CASE Room(p)
  <2>1. pc[p] = "room" /\ next[p] = Following(write)
    BY <1>6 DEF Room, IInv, PutInv
  <2>2. QED
    BY <1>3, <1>6, <2>1 DEF Room
<1>7. CASE Store(p)
  <2>1. next[p] = Following(write) /\ next[p] # read
    BY <1>7 DEF Store, IInv, PutInv
  <2>2. buf'[next'[p]] = arg'[p]
    BY <1>7 DEF Store, IInv, TypeOK
  <2>3. QED
    BY <1>3, <1>7, <2>1, <2>2 DEF Store
<1>8. CASE Publish(p)
  <2>1. pc' = [pc EXCEPT ![p] = "notify"] \/ pc' = [pc EXCEPT ![p] = "idle"]
    BY <1>8 DEF Publish
  <2>2. write' # read
    BY <1>8 DEF Publish, IInv, PutInv
  <2>3. QED
    BY <1>3, <1>8, <2>1, <2>2 DEF Publish
<1>9. CASE Notify(p)
  BY <1>3, <1>9 DEF Notify
<1>10. QED
  BY <1>4, <1>5, <1>6, <1>7, <1>8, <1>9 DEF Proceed

LEMMA GetKeepsIInv ==
  ASSUME IInv, Consume
  PROVE  IInv'
<1> USE DEF ring, putVars, getVars, GoTo, Returns
<1>1. TypeOK' /\ StepInv'
  BY GetKeepsWInv DEF IInv, WInv
<1>2. ASSUME NEW to, pc' = [pc EXCEPT ![Consumer] = to], UNCHANGED <<write, buf, arg, next>>,
             \A q \in Producers : next[q] = Following(write) /\ next[q] # read
                                  => next[q] # read',
             to = "advance" => read' # write
      PROVE  IInv'
  <2>1. pc'[Consumer] = to /\ \A q \in Producers : pc'[q] = pc[q]
    BY <1>2, Processes DEF IInv, TypeOK
  <2>2. PutInv'
    BY <1>2, <2>1 DEF IInv, PutInv, Following
  <2>3. GetInv'
    BY <1>2, <2>1 DEF GetInv
  <2>4. QED
    BY <1>1, <2>2, <2>3 DEF IInv
<1>3. CASE Wake
  BY <1>2, <1>3 DEF Wake
<1>4. CASE Look
  BY <1>2, <1>4 DEF Look
<1>5. CASE Advance
  <2>1. read' = Following(read) /\ read \in Index /\ write \in Index /\ read # write
    BY <1>5 DEF Advance, IInv, TypeOK, GetInv
  <2>2. Following(write) # Following(read)
    BY <2>1, FollowingIs, BufferAssumption DEF Index
  <2>3. QED
    BY <1>2, <1>5, <2>1, <2>2 DEF Advance
<1>6. CASE Fetch
  <2>1. pc' = [pc EXCEPT ![Consumer] = "idle"] \/ pc' = [pc EXCEPT ![Consumer] = "look"]
    BY <1>6 DEF Fetch
  <2>2. QED
    BY <1>2, <1>6, <2>1 DEF Fetch
<1>7. QED
  BY <1>3, <1>4, <1>5, <1>6 DEF Consume

LEMMA NextIInv == ProducersApart /\ IInv /\ [Next]_vars => IInv'
<1> SUFFICES ASSUME ProducersApart, IInv, [Next]_vars PROVE IInv'
  OBVIOUS
<1>1. CASE Cycle \/ UNCHANGED vars
  <2>1. TypeOK' /\ StepInv'
    BY NextWInv DEF IInv, WInv
  <2>2. PutInv' /\ GetInv'
    BY <1>1 DEF Cycle, vars, ring, putVars, getVars, IInv, PutInv, GetInv, Following
  <2>3. QED
    BY <2>1, <2>2 DEF IInv
<1>2. QED
  BY <1>1, PutKeepsIInv, GetKeepsIInv DEF Next

---------------------------------------------------------------------------
(* The queue between the indices.                                          *)

LEMMA PendingIs ==
  ASSUME TypeOK
  PROVE  /\ Pending \in 0 .. Size - 1
         /\ Pending = 0 <=> read = write
         /\ Pending = Size - 1 <=> Following(write) = read
         /\ \A k \in 1 .. Pending : At(k) \in Index /\ At(k) # Following(write)
                                    /\ At(k) # read
<1>1. /\ Size \in Nat /\ Size > 1 /\ read \in 0 .. Size - 1 /\ write \in 0 .. Size - 1
      /\ Following(write) = IF write = Size - 1 THEN 0 ELSE write + 1
  BY FollowingIs, BufferAssumption DEF TypeOK, Index
<1>2. QED
  BY <1>1 DEF Pending, At, Index

QueueShape ==
  /\ queue \in Seq(Message)
  /\ Len(queue) = Pending
  /\ \A k \in 1 .. Pending : queue[k] = buf[At(k)]

LEMMA QueueIs == TypeOK => QueueShape
<1> SUFFICES ASSUME TypeOK PROVE QueueShape
  OBVIOUS
<1>1. Pending \in Nat /\ \A k \in 1 .. Pending : buf[At(k)] \in Message
  BY PendingIs, BufferAssumption DEF TypeOK
<1>2. QED
  BY <1>1 DEF queue, QueueShape

LEMMA QueueNext == TypeOK' => QueueShape'
BY QueueIs, PTL

LEMMA Stutter ==
  ASSUME TypeOK, UNCHANGED <<read, write>>,
         \A k \in 1 .. Pending : buf'[At(k)] = buf[At(k)]
  PROVE  UNCHANGED queue
BY DEF queue, Pending, At

\* Publishing the index after the last one adds the message there.
LEMMA Added ==
  ASSUME TypeOK, TypeOK', UNCHANGED <<read, buf>>, write' = Following(write),
         Following(write) # read
  PROVE  /\ Pending' = Pending + 1
         /\ queue' = Append(queue, buf[write'])
<1>1. /\ Size \in Nat /\ Size > 1 /\ read \in 0 .. Size - 1 /\ write \in 0 .. Size - 1
      /\ write' = IF write = Size - 1 THEN 0 ELSE write + 1
  BY FollowingIs, BufferAssumption DEF TypeOK, Index
<1>2. Pending' = Pending + 1 /\ Pending \in Nat
  BY <1>1 DEF Pending
<1>3. At(Pending + 1) = write'
  BY <1>1 DEF Pending, At
<1>4. \A k \in 1 .. Pending' : queue'[k] = Append(queue, buf[write'])[k]
  <2>1. \A k \in 1 .. Pending' : queue'[k] = buf[At(k)]
    BY QueueNext DEF QueueShape, At
  <2>2. \A k \in 1 .. Pending : queue[k] = buf[At(k)]
    BY QueueIs DEF QueueShape
  <2>3. queue \in Seq(Message) /\ Len(queue) = Pending
    BY QueueIs DEF QueueShape
  <2>4. QED
    BY <1>2, <1>3, <2>1, <2>2, <2>3
<1>5. buf[write'] \in Message
  BY DEF TypeOK
<1>6. Append(queue, buf[write']) \in Seq(Message) /\ Len(Append(queue, buf[write'])) = Pending'
  BY <1>2, <1>5, QueueIs DEF QueueShape
<1>7. queue' \in Seq(Message) /\ Len(queue') = Pending'
  BY QueueNext DEF QueueShape
<1>8. queue' = Append(queue, buf[write'])
  BY <1>4, <1>6, <1>7, SeqEqual
<1>9. QED
  BY <1>2, <1>8

\* Moving the read index on takes the first message.
LEMMA Removed ==
  ASSUME TypeOK, TypeOK', UNCHANGED <<write, buf>>, read' = Following(read),
         read # write
  PROVE  /\ queue # <<>>
         /\ buf[read'] = Head(queue)
         /\ queue' = Tail(queue)
<1>1. /\ Size \in Nat /\ Size > 1 /\ read \in 0 .. Size - 1 /\ write \in 0 .. Size - 1
      /\ read' = IF read = Size - 1 THEN 0 ELSE read + 1
  BY FollowingIs, BufferAssumption DEF TypeOK, Index
<1>2. Pending' = Pending - 1 /\ Pending' \in Nat
  BY <1>1 DEF Pending
<1>3. At(1) = read' /\ \A k \in 1 .. Pending' : At(k)' = At(k + 1)
  BY <1>1 DEF Pending, At
<1>4. queue \in Seq(Message) /\ Len(queue) = Pending
  BY QueueIs DEF QueueShape
<1>5. queue # <<>>
  BY <1>2, <1>4
<1>6. Head(queue) = buf[read']
  <2>1. queue[1] = buf[At(1)]
    BY <1>2, QueueIs DEF QueueShape
  <2>2. QED
    BY <1>3, <1>4, <1>5, <2>1
<1>7. /\ Tail(queue) \in Seq(Message)
      /\ Len(Tail(queue)) = Pending'
      /\ \A k \in 1 .. Pending' : Tail(queue)[k] = queue[k + 1]
  BY <1>2, <1>4, <1>5, HeadTailProperties
<1>8. \A k \in 1 .. Pending' : queue'[k] = Tail(queue)[k]
  BY <1>2, <1>3, <1>7, QueueIs, QueueNext DEF QueueShape
<1>9. queue' \in Seq(Message) /\ Len(queue') = Pending'
  BY QueueNext DEF QueueShape
<1>10. queue' = Tail(queue)
  BY <1>7, <1>8, <1>9, SeqEqual
<1>11. QED
  BY <1>5, <1>6, <1>10

---------------------------------------------------------------------------
(* The refinement.                                                         *)

LEMMA InitMaps == Init => Queue!Init
<1> SUFFICES ASSUME Init PROVE Queue!Init
  OBVIOUS
<1>1. Pending = 0 /\ queue = <<>>
  BY DEF Init, Pending, queue
<1>2. hand = NoMessage
  BY DEF Init, hand, Process
<1>3. QED
  BY <1>1, <1>2 DEF Init, Queue!Init, Process

LEMMA PutMaps ==
  ASSUME ProducersApart, IInv, IInv', NEW p \in Producers,
         Proceed(p) \/ \E m \in Message : Put(p, m)
  PROVE  [Queue!Next]_(Queue!vars)
<1> USE DEF ring, putVars, getVars, GoTo, Returns
<1>1. p \in Process /\ p # Consumer
  BY BufferAssumption DEF Process
<1>2. UNCHANGED <<read, got>> /\ pc'[Consumer] = pc[Consumer]
  <2>1. \A q, to : pc' = [pc EXCEPT ![p] = to] => pc'[Consumer] = pc[Consumer]
    BY <1>1 DEF IInv, TypeOK, Process
  <2>2. QED
    BY <2>1 DEF Proceed, Put, PutIndex, Room, Store, Publish, Notify
<1>3. CASE \/ PutIndex(p) \/ Notify(p) \/ \E m \in Message : Put(p, m)
           \/ Room(p) /\ UNCHANGED answer
  <2>1. UNCHANGED <<read, write, buf, got, answer>>
    BY <1>3 DEF PutIndex, Notify, Put, Room
  <2>2. UNCHANGED <<queue, hand>>
    BY <1>2, <2>1, Stutter DEF IInv, hand
  <2>3. QED
    BY <2>1, <2>2 DEF Queue!vars
<1>4. CASE Room(p) /\ next[p] = read /\ Returns(p, "timeout")
  <2>1. Len(queue) = Size - 1
    BY <1>4, PendingIs, QueueIs DEF QueueShape, Room, IInv, PutInv
  <2>2. UNCHANGED <<read, write, buf, got>>
    BY <1>4 DEF Room
  <2>3. UNCHANGED <<queue, hand>>
    BY <1>2, <2>2, Stutter DEF IInv, hand
  <2>4. Queue!Discard(p)
    BY <1>4, <2>1, <2>2, <2>3 DEF Queue!Discard, Queue!Returns
  <2>5. QED
    BY <2>4 DEF Queue!Next
<1>5. CASE Store(p)
  <2>1. next[p] = Following(write) /\ next[p] # read
    BY <1>5 DEF Store, IInv, PutInv
  <2>2. \A i \in Index : i # next[p] => buf'[i] = buf[i]
    BY <1>5 DEF Store, IInv, TypeOK
  <2>3. \A k \in 1 .. Pending : buf'[At(k)] = buf[At(k)]
    BY <2>1, <2>2, PendingIs DEF IInv
  <2>4. UNCHANGED queue
    BY <1>5, <2>3, Stutter DEF Store, IInv
  <2>5. UNCHANGED hand
    BY <1>2, <2>1, <2>2 DEF hand, IInv, TypeOK
  <2>6. QED
    BY <1>2, <1>5, <2>4, <2>5 DEF Store, Queue!vars
<1>6. CASE Publish(p)
  <2>1. next[p] = Following(write) /\ next[p] # read /\ buf[next[p]] = arg[p]
        /\ arg[p] \in Message
    BY <1>6 DEF Publish, IInv, TypeOK, PutInv
  <2>2. queue' = Append(queue, arg[p]) /\ Len(queue) < Size - 1
    <3>1. Pending' = Pending + 1 /\ queue' = Append(queue, buf[write'])
      BY <1>6, <2>1, Added DEF Publish, IInv
    <3>2. Pending \in 0 .. Size - 1 /\ Pending # Size - 1
      BY <2>1, PendingIs DEF IInv
    <3>3. QED
      BY <1>6, <2>1, <3>1, <3>2, QueueIs, BufferAssumption DEF Publish, QueueShape, IInv
  <2>3. UNCHANGED hand
    BY <1>2, <1>6 DEF Publish, hand
  <2>4. Queue!Accept(p, arg[p])
    BY <1>2, <1>6, <2>2, <2>3 DEF Publish, Queue!Accept, Queue!Returns
  <2>5. QED
    BY <2>1, <2>4 DEF Queue!Next
<1>7. QED
  BY <1>3, <1>4, <1>5, <1>6 DEF Proceed, Room

LEMMA GetMaps ==
  ASSUME IInv, IInv', Consume
  PROVE  [Queue!Next]_(Queue!vars)
<1> USE DEF ring, putVars, getVars, GoTo, Returns
<1>1. Consumer \in Process /\ \A to : pc' = [pc EXCEPT ![Consumer] = to] => pc'[Consumer] = to
  BY DEF IInv, TypeOK, Process
<1>2. CASE Wake \/ (Look /\ UNCHANGED answer)
  <2>1. UNCHANGED <<read, write, buf, got, answer>>
    BY <1>2 DEF Wake, Look
  <2>2. pc[Consumer] # "fetch" /\ pc'[Consumer] # "fetch"
    BY <1>1, <1>2 DEF Wake, Look
  <2>3. UNCHANGED <<queue, hand>>
    BY <2>1, <2>2, Stutter DEF IInv, hand
  <2>4. QED
    BY <2>1, <2>3 DEF Queue!vars
<1>3. CASE Look /\ read = write /\ Returns(Consumer, "timeout")
  <2>1. UNCHANGED <<read, write, buf, got>>
    BY <1>3 DEF Look
  <2>2. pc[Consumer] # "fetch" /\ pc'[Consumer] # "fetch"
    BY <1>1, <1>3 DEF Look
  <2>3. UNCHANGED <<queue, hand>> /\ hand = NoMessage
    BY <2>1, <2>2, Stutter DEF IInv, hand
  <2>4. queue = <<>>
    BY <1>3, PendingIs, QueueIs, EmptySeq DEF IInv, QueueShape
  <2>5. Queue!FindEmpty
    BY <1>3, <2>1, <2>3, <2>4 DEF Queue!FindEmpty, Queue!Returns
  <2>6. QED
    BY <2>5 DEF Queue!Next
<1>4. CASE Advance
  <2>1. pc[Consumer] = "advance" /\ pc'[Consumer] = "fetch" /\ read # write
    BY <1>1, <1>4 DEF Advance, IInv, GetInv
  <2>2. queue # <<>> /\ buf[read'] = Head(queue) /\ queue' = Tail(queue)
    BY <1>4, <2>1, Removed DEF Advance, IInv
  <2>3. hand = NoMessage /\ hand' = Head(queue)
    BY <1>4, <2>1, <2>2 DEF Advance, hand
  <2>4. Queue!Take
    BY <1>4, <2>2, <2>3 DEF Advance, Queue!Take
  <2>5. QED
    BY <2>4 DEF Queue!Next
<1>5. CASE Fetch
  <2>1. UNCHANGED <<read, write, buf>> /\ got' = buf[read]
        /\ Returns(Consumer, "ok")
    BY <1>5 DEF Fetch
  <2>2. pc[Consumer] = "fetch" /\ pc'[Consumer] # "fetch"
    <3>1. pc' = [pc EXCEPT ![Consumer] = "idle"] \/ pc' = [pc EXCEPT ![Consumer] = "look"]
      BY <1>5 DEF Fetch
    <3>2. QED
      BY <1>1, <1>5, <3>1 DEF Fetch
  <2>3. UNCHANGED queue
    BY <2>1, Stutter DEF IInv
  <2>4. hand = buf[read] /\ hand # NoMessage /\ hand' = NoMessage
    <3>1. buf[read] \in Message
      BY DEF IInv, TypeOK
    <3>2. QED
      BY <2>2, <3>1, BufferAssumption DEF hand
  <2>5. Queue!Deliver
    BY <2>1, <2>3, <2>4 DEF Queue!Deliver, Queue!Returns
  <2>6. QED
    BY <2>5 DEF Queue!Next
<1>6. QED
  BY <1>2, <1>3, <1>4, <1>5 DEF Consume, Look

LEMMA StepMaps ==
  ProducersApart /\ IInv /\ IInv' /\ [Next]_vars => [Queue!Next]_(Queue!vars)
<1> SUFFICES ASSUME ProducersApart, IInv, IInv', [Next]_vars
             PROVE  [Queue!Next]_(Queue!vars)
  OBVIOUS
<1>1. CASE Cycle \/ UNCHANGED vars
  <2>1. UNCHANGED <<read, write, buf, pc, got, answer>>
    BY <1>1 DEF Cycle, vars, ring, putVars, getVars
  <2>2. UNCHANGED <<queue, hand>>
    BY <2>1, Stutter DEF IInv, hand
  <2>3. QED
    BY <2>1, <2>2 DEF Queue!vars
<1>2. QED
  BY <1>1, PutMaps, GetMaps DEF Next

\* QueueImplemented: with producers that do not preempt each other the ring
\* implements the queue its header promises, whatever its size and wherever
\* put and get preempt each other.
THEOREM QueueImplemented ==
  ASSUME ProducersApart
  PROVE  Spec => ImplementsQueue
<1>1. IInv /\ [Next]_vars => IInv'
  BY NextIInv
<1>2. IInv /\ IInv' /\ [Next]_vars => [Queue!Next]_(Queue!vars)
  BY StepMaps
<1>3. QED
  BY <1>1, <1>2, InitIInv, InitMaps, PTL DEF Spec, ImplementsQueue, Queue!Spec

\* AcceptedOnce: with producers that do not preempt each other, each put that
\* is accepted adds one message.
THEOREM AcceptedOnce ==
  ASSUME ProducersApart
  PROVE  Spec => AcceptedIsQueued
<1> DEFINE AddsOne == \A p \in Producers :
              pc[p] = "publish" /\ pc'[p] # "publish" => Pending' = Pending + 1
<1>1. IInv /\ [Next]_vars => IInv'
  BY NextIInv
<1>2. IInv /\ IInv' /\ [Next]_vars => [AddsOne]_vars
  <2> SUFFICES ASSUME IInv, IInv', Next, NEW p \in Producers,
                      pc[p] = "publish", pc'[p] # "publish"
               PROVE  Pending' = Pending + 1
    OBVIOUS
  <2>1. p \in Process /\ p # Consumer /\ Consumer \in Process
    BY BufferAssumption DEF Process
  <2>2. ASSUME NEW q \in Process, NEW to, pc' = [pc EXCEPT ![q] = to]
        PROVE  q = p
    BY <2>1, <2>2 DEF IInv, TypeOK
  <2>3. ~ Consume /\ ~ Cycle
    BY <2>1, <2>2 DEF Consume, Wake, Look, Advance, Fetch, Cycle, GoTo
  <2>4. PICK q \in Producers : Proceed(q) \/ \E m \in Message : Put(q, m)
    BY <2>3 DEF Next
  <2>5. q = p
    <3>1. \E to : pc' = [pc EXCEPT ![q] = to]
      BY <2>4 DEF Proceed, Put, PutIndex, Room, Store, Publish, Notify, GoTo
    <3> QED
      BY <2>2, <3>1 DEF Process
  <2>6. Publish(p)
    BY <2>4, <2>5 DEF Proceed, Put, PutIndex, Room, Store, Notify, GoTo
  <2>7. next[p] = Following(write) /\ next[p] # read
    BY DEF IInv, PutInv
  <2> QED
    BY <2>6, <2>7, Added DEF Publish, IInv, ring
<1>3. QED
  BY <1>1, <1>2, InitIInv, PTL DEF Spec, AcceptedIsQueued

===========================================================================
