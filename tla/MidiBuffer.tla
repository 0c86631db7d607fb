---------------------------- MODULE MidiBuffer ----------------------------
(***************************************************************************)
(* The ring buffers of firmware/midi_buffer.c, between the threads that    *)
(* put MIDI messages and the one that gets them.  put and get take no      *)
(* lock: each of their accesses to the indices and to the ring is a step,  *)
(* in the order of the source.                                             *)
(*                                                                         *)
(* The processor has one core and threads of one priority do not preempt   *)
(* each other (CH_CFG_TIME_QUANTUM is 0), so a process may only run in the *)
(* middle of another's put or get if it preempts it.                       *)
(*                                                                         *)
(* The consumer sleeps until it is signalled, then gets messages until     *)
(* there is none left or it has a batch: ThreadDSP for the input buffer,   *)
(* which each compute cycle signals; the DIN and GPIO writers, which put   *)
(* signals through notify; and the USB device writer, which both signal    *)
(* and which stops after 16 messages.                                      *)
(***************************************************************************)
EXTENDS Integers, Sequences

CONSTANTS
  Size,               \* MIDI_RING_BUFFER_SIZE
  Producers,          \* the threads and interrupts that put
  Consumer,           \* the thread that gets
  Preempts,           \* the pairs <<p, q>> where p may preempt q
  Message, NoMessage,
  Kinds               \* the kinds of buffer

Process == Producers \cup {Consumer}
Index == 0 .. Size - 1

\* notifies: put signals the consumer; cyclic: the DSP cycle does; batch: how
\* many messages the consumer takes when it wakes, 0 for all there are.
Kind == [notifies : BOOLEAN, cyclic : BOOLEAN, batch : Nat]

ASSUME BufferAssumption ==
  /\ Size \in Nat /\ Size > 1
  /\ Consumer \notin Producers
  /\ Preempts \subseteq Process \X Process
  /\ NoMessage \notin Message
  /\ Kinds \subseteq Kind

VARIABLES
  kind,               \* which buffer this is
  read, write, buf,   \* obj->read_index, obj->write_index, obj->buf
  signal,             \* is the consumer's event pending?
  taken,              \* messages the consumer took since it woke, if it counts
  pc,                 \* where each process is in its put or get
  arg, next,          \* the message a put is called with, its local `next'
  got, answer         \* what the last get returned; the results of the calls

ring   == <<read, write, buf>>
putVars == <<arg, next>>
getVars == <<taken, got>>
vars   == <<kind, ring, signal, pc, putVars, getVars, answer>>

PutSteps == {"index", "room", "store", "publish", "notify"}
GetSteps == {"look", "advance", "fetch"}

TypeOK ==
  /\ kind \in Kinds
  /\ read \in Index
  /\ write \in Index
  /\ buf \in [Index -> Message]
  /\ signal \in BOOLEAN
  /\ taken \in 0 .. kind.batch
  /\ pc \in [Process -> {"idle"} \cup PutSteps \cup GetSteps]
  /\ arg \in [Producers -> Message]
  /\ next \in [Producers -> Index]
  /\ got \in Message \cup {NoMessage}
  /\ answer \in [Process -> {"none", "ok", "timeout"}]

\* The ring and the locals start with whatever they hold; objinit sets the
\* indices.
Init ==
  /\ kind \in Kinds
  /\ read = 0
  /\ write = 0
  /\ \E m \in Message : buf = [i \in Index |-> m] /\ arg = [p \in Producers |-> m]
  /\ next = [p \in Producers |-> 0]
  /\ signal = FALSE
  /\ taken = 0
  /\ pc = [p \in Process |-> "idle"]
  /\ got = NoMessage
  /\ answer = [p \in Process |-> "none"]

Following(i) == (i + 1) % Size

MayRun(p) == \A q \in Process \ {p} : pc[q] # "idle" => <<p, q>> \in Preempts

GoTo(p, from, to) ==
  /\ MayRun(p)
  /\ pc[p] = from
  /\ pc' = [pc EXCEPT ![p] = to]

Returns(p, r) == answer' = [answer EXCEPT ![p] = r]

---------------------------------------------------------------------------
(* put                                                                     *)

Put(p, m) ==
  /\ GoTo(p, "idle", "index")
  /\ arg' = [arg EXCEPT ![p] = m]
  /\ UNCHANGED <<kind, ring, signal, next, getVars, answer>>

PutIndex(p) ==
  /\ GoTo(p, "index", "room")
  /\ next' = [next EXCEPT ![p] = Following(write)]
  /\ UNCHANGED <<kind, ring, signal, arg, getVars, answer>>

\* Faulty: uses the last free place too.
RoomForOneMore(p) ==
  /\ GoTo(p, "room", "store")
  /\ UNCHANGED <<kind, ring, signal, putVars, getVars, answer>>

Room(p) ==
  /\ \/ next[p] # read /\ GoTo(p, "room", "store") /\ UNCHANGED answer
     \/ next[p] = read /\ GoTo(p, "room", "idle") /\ Returns(p, "timeout")
  /\ UNCHANGED <<kind, ring, signal, putVars, getVars>>

\* Faulty: stores at the index last published.
StoreAtWrite(p) ==
  /\ GoTo(p, "store", "publish")
  /\ buf' = [buf EXCEPT ![write] = arg[p]]
  /\ UNCHANGED <<kind, read, write, signal, putVars, getVars, answer>>

Store(p) ==
  /\ GoTo(p, "store", "publish")
  /\ buf' = [buf EXCEPT ![next[p]] = arg[p]]
  /\ UNCHANGED <<kind, read, write, signal, putVars, getVars, answer>>

\* Faulty: increments the index without wrapping it.
PublishUnwrapped(p) ==
  /\ GoTo(p, "publish", IF kind.notifies THEN "notify" ELSE "idle")
  /\ write' = write + 1
  /\ Returns(p, "ok")
  /\ UNCHANGED <<kind, read, buf, signal, putVars, getVars>>

\* An output buffer's put ends with obj->notify.
Publish(p) ==
  /\ GoTo(p, "publish", IF kind.notifies THEN "notify" ELSE "idle")
  /\ write' = next[p]
  /\ Returns(p, "ok")
  /\ UNCHANGED <<kind, read, buf, signal, putVars, getVars>>

\* Faulty: does not signal the writer.
NotifyNobody(p) ==
  /\ GoTo(p, "notify", "idle")
  /\ UNCHANGED <<kind, ring, signal, putVars, getVars, answer>>

Notify(p) ==
  /\ GoTo(p, "notify", "idle")
  /\ signal' = TRUE
  /\ UNCHANGED <<kind, ring, putVars, getVars, answer>>

---------------------------------------------------------------------------
(* get, and the consumer's loop around it                                  *)

\* A DSP compute cycle: chEvtSignalI to ThreadDSP, or its call of
\* midi_output_buffer_notify for the USB device writer.
Cycle ==
  /\ kind.cyclic
  /\ signal' = TRUE
  /\ UNCHANGED <<kind, ring, pc, putVars, getVars, answer>>

\* chEvtWaitOne
Wake ==
  /\ signal
  /\ GoTo(Consumer, "idle", "look")
  /\ signal' = FALSE
  /\ taken' = 0
  /\ UNCHANGED <<kind, ring, putVars, got, answer>>

Look ==
  /\ \/ read # write /\ GoTo(Consumer, "look", "advance") /\ UNCHANGED answer
     \/ /\ read = write
        /\ GoTo(Consumer, "look", "idle")
        /\ Returns(Consumer, "timeout")
  /\ UNCHANGED <<kind, ring, signal, putVars, getVars>>

Advance ==
  /\ GoTo(Consumer, "advance", "fetch")
  /\ read' = Following(read)
  /\ UNCHANGED <<kind, write, buf, signal, putVars, getVars, answer>>

Enough == kind.batch # 0 /\ taken + 1 = kind.batch

Fetch ==
  /\ GoTo(Consumer, "fetch", IF Enough THEN "idle" ELSE "look")
  /\ got' = buf[read]
  /\ taken' = IF kind.batch = 0 THEN 0 ELSE taken + 1
  /\ Returns(Consumer, "ok")
  /\ UNCHANGED <<kind, ring, signal, putVars>>

Proceed(p) == PutIndex(p) \/ Room(p) \/ Store(p) \/ Publish(p) \/ Notify(p)

Consume == Wake \/ Look \/ Advance \/ Fetch

Next ==
  \/ \E p \in Producers : Proceed(p) \/ \E m \in Message : Put(p, m)
  \/ Consume
  \/ Cycle

Spec == Init /\ [][Next]_vars

\* Compute cycles keep coming, and a process that can run does; nobody is
\* obliged to put.
Fairness ==
  /\ WF_vars(Cycle)
  /\ WF_vars(Consume)
  /\ \A p \in Producers : WF_vars(Proceed(p))

FairSpec == Spec /\ Fairness

---------------------------------------------------------------------------
(* Properties.                                                             *)

\* midi_output_buffer_getpending: the messages between the two indices.
Pending == IF write >= read THEN write - read ELSE write + Size - read

\* A put that accepts its message adds one to the messages pending: it does
\* not overwrite one that was accepted before it, nor revive old ones.
AcceptedIsQueued ==
  [][\A p \in Producers :
       pc[p] = "publish" /\ pc'[p] # "publish" => Pending' = Pending + 1]_vars

\* Every message accepted is taken: the consumer gets to each index that was
\* published.  No wake-up is lost between its last get and its wait.
Delivered == \A i \in Index : write = i ~> read = i

---------------------------------------------------------------------------
(* The queue a buffer implements.                                          *)

At(k) == IF read + k < Size THEN read + k ELSE read + k - Size

queue == [k \in 1 .. Pending |-> buf[At(k)]]

hand == IF pc[Consumer] = "fetch" THEN buf[read] ELSE NoMessage

Queue == INSTANCE MidiQueue WITH Capacity <- Size - 1

\* One producer and one consumer, which preempt each other anywhere, share the
\* buffer without a lock as if put and get were atomic: a put is refused only
\* when Size - 1 messages are pending, a get answers "empty" only when none
\* is, and messages come out once, whole and in order.
ImplementsQueue == Queue!Spec

===========================================================================
