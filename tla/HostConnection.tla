-------------------------- MODULE HostConnection --------------------------
(***************************************************************************)
(* The USB connection to the host of firmware/pconnection.c: the reader    *)
(* thread that executes the host's commands, the log pipe and the thread   *)
(* that drains it, and mtxTransmit, under which every thread that answers, *)
(* logs or reports the list of patches sends to one endpoint.              *)
(*                                                                         *)
(* A command is the sequence of operations its handler makes that can wait *)
(* for somebody else or that send: replies of some transfers, log writes,  *)
(* jobs for the patch worker, reception of more data.  What the replies    *)
(* say, the files and the memory the commands work on are left out.        *)
(*                                                                         *)
(* usbTransmit and usbReceive end when the host takes or sends a transfer, *)
(* end with MSG_RESET at a bus reset, and answer MSG_RESET at once while   *)
(* the host has not configured the device.                                 *)
(***************************************************************************)
EXTENDS Integers, Sequences

CONSTANTS
  Reader,      \* BulkReader
  Consumer,    \* LogConsumer
  Worker,      \* the patch worker
  Dsp,         \* ThreadDSP, whose patches may log
  Others,      \* other threads that load and stop patches
  NoThread,
  PipeSize     \* how many log messages the pipe holds

Thread == {Reader, Consumer, Worker, Dsp} \cup Others

ASSUME ConnectionAssumption ==
  /\ NoThread \notin Thread
  /\ Reader \notin {Consumer, Worker, Dsp} \cup Others
  /\ Consumer \notin {Worker, Dsp} \cup Others
  /\ Worker \notin {Dsp} \cup Others
  /\ PipeSize \in Nat \ {0}

---------------------------------------------------------------------------
(* Operations, and the handlers made of them.                              *)

\* n is the number of transfers of a reply, which may stop at the first one
\* that fails.
Op == [kind : {"reply"}, n : 1 .. 3, stops : BOOLEAN]
        \cup [kind : {"log", "job", "letgo", "data", "resume"}, n : {0}, stops : {FALSE}]

Reply(n) == [kind |-> "reply", n |-> n, stops |-> TRUE]
Burst(n) == [kind |-> "reply", n |-> n, stops |-> FALSE]
Plain(k) == [kind |-> k, n |-> 0, stops |-> FALSE]

Log == Plain("log")         \* LogTextMessage
Job == Plain("job")         \* patch_load or patch_stop
LetGo == Plain("letgo")     \* the wait for the DSP thread to let go of a slot
Data == Plain("data")       \* usbReceive of more data, or of the rest of a long name
Resume == Plain("resume")   \* log_resume

\* The acknowledgement, an exception report, a patch's parameters that changed.
Ping == {<<Reply(1)>>, <<Reply(1), Log, Reply(2)>>}

\* To a host that knows only older firmware, some advice.
GetFwid == {<<Reply(1), Resume>>, <<Reply(1), Resume, Log>>}

GetDisp == {<<Reply(1)>>, <<Reply(2)>>}

MemRead == {<<Reply(2)>>}

\* Also the data of a preset.
MemWrite == {<<Data>>}

MemWriteFlash == {<<Log, Reply(1)>>}

PatchStop == {<<Job>>, <<Job, Job>>}

PatchStart == {<<Job, Reply(1)>>, <<Data, Job, Reply(1)>>}

PresetApply == {<<Reply(2)>>}

\* Open, close, seek, delete and their like, names, lists and allocations.
ShortAnswer == {<<Reply(1)>>, <<Data, Reply(1)>>}

\* Both of its transfers are made, whatever becomes of the first.
FRead == {<<Burst(2)>>}

FWrite == {<<Reply(1)>>, <<Data, Reply(1)>>}

\* The header, the entries and the end, whatever becomes of any of them.
FDirlist == {<<Burst(2)>>, <<Burst(3)>>, <<Data, Burst(3)>>}

Unidentified == {<<Log>>}

Commands ==
  UNION {Ping, GetFwid, GetDisp, MemRead, MemWrite, MemWriteFlash, PatchStop,
         PatchStart, PresetApply, ShortAnswer, FRead, FWrite, FDirlist,
         Unidentified}

\* A load, which may log and may fail, or a stop; both send the patch list.
Jobs == {<<>>, <<Log>>, <<Reply(1)>>, <<Log, Reply(1)>>, <<LetGo, Reply(1)>>}

---------------------------------------------------------------------------

VARIABLES
  usb,         \* is the device configured by the host?
  todo,        \* the operations each thread has still to finish
  pc,          \* where it is in the first of them
  mtxTransmit, \* owner
  made,        \* transfers the owner has made for its reply
  fresh,       \* did its reply begin after the device was last configured?
  mtxWorker,   \* owner
  ep,          \* the transfer in progress on the endpoint
  wire,        \* the transfer the host took last of a reply it has not all of yet
  pipe,        \* messages in the log pipe
  suspended    \* is the log pipe reset?

NoTransfer == [by |-> NoThread, n |-> 0, last |-> TRUE]

threadVars == <<todo, pc>>
replyVars  == <<made, fresh, mtxTransmit>>
logVars    == <<pipe, suspended>>
vars == <<usb, threadVars, replyVars, mtxWorker, ep, wire, logVars>>

Transfer == [by : Thread \cup {NoThread}, n : 0 .. 3, last : BOOLEAN]

TypeOK ==
  /\ usb \in BOOLEAN
  /\ todo \in [Thread -> Seq(Op)]
  /\ pc \in [Thread -> {"ready", "reset", "rx", "send", "wait", "sent", "failed", "join"}]
  /\ made \in 0 .. 3
  /\ fresh \in BOOLEAN
  /\ mtxTransmit \in Thread \cup {NoThread}
  /\ mtxWorker \in Thread \cup {NoThread}
  /\ ep \in Transfer
  /\ wire \in Transfer
  /\ pipe \in 0 .. PipeSize
  /\ suspended \in BOOLEAN

Init ==
  /\ usb = FALSE
  /\ todo = [t \in Thread |-> <<>>]
  /\ pc = [t \in Thread |-> "ready"]
  /\ made = 0
  /\ fresh = FALSE
  /\ mtxTransmit = NoThread
  /\ mtxWorker = NoThread
  /\ ep = NoTransfer
  /\ wire = NoTransfer
  /\ pipe = 0
  /\ suspended = TRUE

\* In its own loop: the reader in usbReceive, the consumer in chPipeRead; the
\* worker does not exist.
Idle(t) == todo[t] = <<>>

At(t, place, kind) ==
  /\ pc[t] = place
  /\ ~ Idle(t)
  /\ Head(todo[t]).kind = kind

Begins(t, ops) == todo' = [todo EXCEPT ![t] = ops]

Finishes(t) ==
  /\ todo' = [todo EXCEPT ![t] = Tail(@)]
  /\ pc' = [pc EXCEPT ![t] = "ready"]

GoesTo(t, place) == pc' = [pc EXCEPT ![t] = place] /\ UNCHANGED todo

---------------------------------------------------------------------------
(* A reply: one or more transfers under mtxTransmit.                       *)

LockTransmit(t) ==
  /\ At(t, "ready", "reply")
  /\ mtxTransmit = NoThread
  /\ mtxTransmit' = t
  /\ made' = 0
  /\ fresh' = usb
  /\ GoesTo(t, "send")
  /\ UNCHANGED <<usb, mtxWorker, ep, wire, logVars>>

\* BulkUsbTransmit
Transmit(t) ==
  /\ At(t, "send", "reply")
  /\ made' = made + 1
  /\ \/ /\ usb
        /\ ep' = [by |-> t, n |-> made + 1, last |-> made + 1 = Head(todo[t]).n]
        /\ GoesTo(t, "wait")
     \/ ~ usb /\ GoesTo(t, "failed") /\ UNCHANGED ep
  /\ UNCHANGED <<usb, fresh, mtxTransmit, mtxWorker, wire, logVars>>

Complete(t) ==
  made = Head(todo[t]).n \/ (pc[t] = "failed" /\ Head(todo[t]).stops)

More(t) ==
  /\ At(t, "sent", "reply") \/ At(t, "failed", "reply")
  /\ ~ Complete(t)
  /\ GoesTo(t, "send")
  /\ UNCHANGED <<usb, replyVars, mtxWorker, ep, wire, logVars>>

\* Faulty: a reply that fails returns without unlocking.
UnlockIfSent(t) ==
  /\ At(t, "sent", "reply") \/ At(t, "failed", "reply")
  /\ Complete(t)
  /\ mtxTransmit' = IF pc[t] = "sent" THEN NoThread ELSE t
  /\ Finishes(t)
  /\ UNCHANGED <<usb, made, fresh, mtxWorker, ep, wire, logVars>>

\* Faulty: each transfer of a reply is locked on its own.
UnlockEach(t) ==
  /\ At(t, "sent", "reply") \/ At(t, "failed", "reply")
  /\ mtxTransmit' = NoThread
  /\ IF Complete(t) THEN Finishes(t) ELSE GoesTo(t, "ready")
  /\ UNCHANGED <<usb, made, fresh, mtxWorker, ep, wire, logVars>>

UnlockTransmit(t) ==
  /\ At(t, "sent", "reply") \/ At(t, "failed", "reply")
  /\ Complete(t)
  /\ mtxTransmit' = NoThread
  /\ made' = 0
  /\ fresh' = FALSE
  /\ Finishes(t)
  /\ UNCHANGED <<usb, mtxWorker, ep, wire, logVars>>

---------------------------------------------------------------------------
(* The log.                                                                *)

\* Faulty: writes into a full pipe.
WriteOver(t) ==
  /\ At(t, "ready", "log")
  /\ pipe' = IF suspended THEN pipe ELSE pipe + 1
  /\ Finishes(t)
  /\ UNCHANGED <<usb, replyVars, mtxWorker, ep, wire, suspended>>

\* chPipeWriteTimeout waits for room; a suspended pipe takes nothing.
WriteLog(t) ==
  /\ At(t, "ready", "log")
  /\ suspended \/ pipe < PipeSize
  /\ pipe' = IF suspended THEN pipe ELSE pipe + 1
  /\ Finishes(t)
  /\ UNCHANGED <<usb, replyVars, mtxWorker, ep, wire, suspended>>

\* One packet carries what the consumer found in the pipe.
ReadLog ==
  /\ Idle(Consumer)
  /\ \E k \in 1 .. pipe : pipe' = pipe - k
  /\ Begins(Consumer, <<Reply(1)>>)
  /\ UNCHANGED <<usb, pc, replyVars, mtxWorker, ep, wire, suspended>>

ResumeLog(t) ==
  /\ At(t, "ready", "resume")
  /\ suspended' = FALSE
  /\ Finishes(t)
  /\ UNCHANGED <<usb, replyVars, mtxWorker, ep, wire, pipe>>

---------------------------------------------------------------------------
(* Loads and stops of patches.                                             *)

StartJob(t) ==
  /\ At(t, "ready", "job")
  /\ mtxWorker = NoThread
  /\ mtxWorker' = t
  /\ \E j \in Jobs : todo' = [todo EXCEPT ![Worker] = j]
  /\ pc' = [pc EXCEPT ![t] = "join"]
  /\ UNCHANGED <<usb, replyVars, ep, wire, logVars>>

EndJob(t) ==
  /\ At(t, "join", "job")
  /\ Idle(Worker)
  /\ mtxWorker' = NoThread
  /\ Finishes(t)
  /\ UNCHANGED <<usb, replyVars, ep, wire, logVars>>

\* The DSP thread gets to the slot unless it waits inside a patch.
DspLetsGo(t) ==
  /\ At(t, "ready", "letgo")
  /\ Idle(Dsp)
  /\ Finishes(t)
  /\ UNCHANGED <<usb, replyVars, mtxWorker, ep, wire, logVars>>

\* The system monitor or another thread loads or stops a patch.
OtherJob(t) ==
  /\ t \in Others /\ Idle(t)
  /\ Begins(t, <<Job>>)
  /\ UNCHANGED <<usb, pc, replyVars, mtxWorker, ep, wire, logVars>>

\* A patch logs in its audio code.
DspLogs ==
  /\ Idle(Dsp)
  /\ Begins(Dsp, <<Log>>)
  /\ UNCHANGED <<usb, pc, replyVars, mtxWorker, ep, wire, logVars>>

---------------------------------------------------------------------------
(* The reader's reception, and the host.                                   *)

\* The host's next command ends the reader's usbReceive.
Command ==
  /\ usb
  /\ Idle(Reader) /\ pc[Reader] = "ready"
  /\ \E c \in Commands : Begins(Reader, c)
  /\ UNCHANGED <<usb, pc, replyVars, mtxWorker, ep, wire, logVars>>

\* usbReceive answered MSG_RESET: log_suspend.
ReaderReset ==
  /\ Idle(Reader)
  /\ pc[Reader] = "reset" \/ ~ usb
  /\ pc' = [pc EXCEPT ![Reader] = "ready"]
  /\ suspended' = TRUE
  /\ pipe' = 0
  /\ UNCHANGED <<usb, todo, replyVars, mtxWorker, ep, wire>>

\* More data of a command: the receive loops end at an error.
ReceiveData(t) ==
  /\ At(t, "ready", "data")
  /\ GoesTo(t, IF usb THEN "rx" ELSE "failed")
  /\ UNCHANGED <<usb, replyVars, mtxWorker, ep, wire, logVars>>

DataDone(t) ==
  /\ At(t, "sent", "data") \/ At(t, "failed", "data")
  /\ Finishes(t)
  /\ UNCHANGED <<usb, replyVars, mtxWorker, ep, wire, logVars>>

HostSends ==
  /\ pc[Reader] = "rx"
  /\ GoesTo(Reader, "sent")
  /\ UNCHANGED <<usb, replyVars, mtxWorker, ep, wire, logVars>>

HostTakes ==
  /\ ep # NoTransfer
  /\ wire' = IF ep.last THEN NoTransfer ELSE ep
  /\ ep' = NoTransfer
  /\ GoesTo(ep.by, "sent")
  /\ UNCHANGED <<usb, replyVars, mtxWorker, logVars>>

\* A bus reset or a disconnection ends what the endpoints were doing.
Reset ==
  /\ usb
  /\ usb' = FALSE
  /\ ep' = NoTransfer
  /\ wire' = NoTransfer
  /\ fresh' = FALSE
  /\ pc' = [t \in Thread |->
              IF pc[t] \in {"wait", "rx"} THEN "failed"
              ELSE IF t = Reader /\ Idle(t) THEN "reset"
              ELSE pc[t]]
  /\ UNCHANGED <<todo, made, mtxTransmit, mtxWorker, logVars>>

Configure ==
  /\ ~ usb
  /\ usb' = TRUE
  /\ UNCHANGED <<threadVars, replyVars, mtxWorker, ep, wire, logVars>>

---------------------------------------------------------------------------

Proceed(t) ==
  \/ Transmit(t) \/ More(t) \/ UnlockTransmit(t) \/ ResumeLog(t) \/ EndJob(t)
  \/ ReceiveData(t) \/ DataDone(t)

Waits(t) == LockTransmit(t) \/ WriteLog(t) \/ StartJob(t) \/ DspLetsGo(t)

Host == Command \/ HostSends \/ HostTakes \/ Reset \/ Configure

Next ==
  \/ \E t \in Thread : Proceed(t) \/ Waits(t) \/ OtherJob(t)
  \/ ReadLog \/ DspLogs \/ ReaderReset
  \/ Host

Spec == Init /\ [][Next]_vars

\* Threads run; mutexes and pipe serve who waits in turn, and the DSP thread
\* gets to the slots between two waits of its patches.  The host owes nothing.
Fairness ==
  /\ WF_vars(ReadLog)
  /\ WF_vars(ReaderReset)
  /\ \A t \in Thread : WF_vars(Proceed(t)) /\ SF_vars(Waits(t))

FairSpec == Spec /\ Fairness

---------------------------------------------------------------------------
(* Properties.                                                             *)

Follows(x, w) ==
  IF x.n = 1 THEN w = NoTransfer ELSE w = [by |-> x.by, n |-> x.n - 1, last |-> FALSE]

\* The transfers of a reply reach the host together, in order and from the
\* first, whichever threads send: only the rest of a reply that a reset cut,
\* or that began before the host was there, may come out of context.
RepliesWhole ==
  [][HostTakes /\ fresh => Follows(ep, wire)]_vars

\* A host that takes what it is sent and sends what it announced, or resets
\* the bus: no transfer and no reception stays pending for ever.
HostAnswers == []<>(ep = NoTransfer) /\ []<>(pc[Reader] # "rx")

\* Then no thread waits for ever: two mutexes, the pipe, the worker and the
\* DSP thread never wait for each other in a circle, resets or not.
NobodyStuck == HostAnswers => \A t \in Thread : ~ Idle(t) ~> Idle(t)

===========================================================================
