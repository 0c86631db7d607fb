--------------------------- MODULE FileTransfer ---------------------------
(***************************************************************************)
(* The editor's file operations on the card of the board: the requests of  *)
(* USBBulkConnection_v2.java, the consumers of rcvpacket/ that wait for    *)
(* the answers, and the handlers of firmware/pconnection.c, which keep one *)
(* file open.                                                              *)
(*                                                                         *)
(* Two threads of the editor make requests: the worker of JobProcessor,    *)
(* which uploads and downloads, and the one of the user interface, which   *)
(* looks, lists, deletes and makes directories.  A request holds the       *)
(* connection's monitor until it is answered or given up; a job is many    *)
(* requests.  Nothing in an answer says which request it belongs to: here  *)
(* a packet carries that, as history.                                      *)
(*                                                                         *)
(* A file is a sequence of blocks, each named after the job that wrote it. *)
(* One block stands for 1024 bytes and for the shorter last one.  The card *)
(* is used through FatFs, of which its calls in src/ tell this: a file     *)
(* created is empty until it is closed, and a write on a full card         *)
(* succeeds and writes less.                                               *)
(***************************************************************************)
EXTENDS Integers, Sequences, FiniteSets, SequencesExt

CONSTANTS
  Worker, Ui,    \* the threads of the editor
  Names,         \* names of files
  Dir,           \* a directory
  Nested,        \* the files that are in it
  None,
  Sizes,         \* bound: of uploads, in blocks
  WorkerJobs,    \* bound: jobs of the worker
  UiRequests,    \* bound: requests of the user interface
  MaxTrouble     \* bound: kinds of trouble in a behaviour

Thread == {Worker, Ui}

Path == Names \cup {Dir}

Bound(t) == IF t = Worker THEN WorkerJobs ELSE UiRequests

ASSUME TransferAssumption ==
  /\ Worker # Ui /\ None \notin {Worker, Ui}
  /\ IsFiniteSet(Names)
  /\ Dir \notin Names
  /\ Nested \subseteq Names
  /\ Sizes \subseteq Nat /\ {WorkerJobs, UiRequests, MaxTrouble} \subseteq Nat

---------------------------------------------------------------------------
(* What the threads and the device say to each other.                      *)

fileRef == 61715        \* 0xf113, the only reference there is

\* Answered by the packet of tx_fresult.
ResultOp == {"open", "open_write", "close", "write", "setinfo", "delete", "mkdir"}

Op == ResultOp \cup {"getinfo", "read", "dirlist"}

Request == [by : Thread, job : Nat, op : Op, n : Nat, name : Path, ref : {0, fileRef}]

Block == [job : Nat, n : Nat]

Old == [job |-> 0, n |-> 1]               \* was on the card before

Torn(k) == [job |-> k, n |-> 0]           \* what the buffer happened to hold

\* val: the reference, the size (-1: no file that can be seen), or the number of
\* blocks read.
Packet(type, r, err, val) ==
  [type |-> type, for |-> r, err |-> err, val |-> val, block |-> None]

Data(r, val, b) == [type |-> "data", for |-> r, err |-> "ok", val |-> val, block |-> b]

---------------------------------------------------------------------------

VARIABLES
  job,      \* per thread: its job
  at,       \* the request of the job it has come to
  phase,    \* ready to make it, transmitting it, waiting; or done, failed
  result,   \* what its future was completed with
  ref,      \* the FileReference it has
  got,      \* the blocks it has read
  lock,     \* owner of the connection's monitor
  consumer, \* rcvPacketConsumer
  link,     \* of the editor: up, down, or deaf when its Receiver has died
  inbox,    \* the packet the Receiver is about to process
  dev,      \* the reader thread of the board, and the packets it has to send
  file,     \* the open file
  card,     \* the files, as their directory entries tell
  closed,   \* history: the file closed last, since the worker's job began
  trouble   \* history: what has gone wrong

threadVars == <<job, at, ref, got>>
hostVars == <<lock, consumer, link, inbox>>
boardVars == <<dev, file, card, closed>>
vars == <<threadVars, phase, result, hostVars, boardVars, trouble>>

Step(o, i) == [op |-> o, n |-> i]

Nothing == [job |-> 0, data |-> <<>>]

Idle == [phase |-> "idle", req |-> None, out |-> <<>>]

Init ==
  /\ job = [t \in Thread |-> [k |-> 0, kind |-> "none", name |-> Dir, size |-> 0]]
  /\ at = [t \in Thread |-> Step("end", 0)]
  /\ phase = [t \in Thread |-> "done"]
  /\ result = [t \in Thread |-> None]
  /\ ref = [t \in Thread |-> 0]
  /\ got = [t \in Thread |-> <<>>]
  /\ lock = None /\ consumer = None /\ link = "up" /\ inbox = None
  /\ dev = Idle /\ file = None
  /\ \E x \in Names :                                            \* a file on the card
       card = [y \in Path |-> IF y = x THEN <<Old>>
                              ELSE IF y = Dir /\ x \in Nested THEN <<>> ELSE None]
  /\ closed = Nothing
  /\ trouble = {}

Trouble(k) ==
  /\ k \notin trouble
  /\ Cardinality(trouble) < MaxTrouble
  /\ trouble' = trouble \cup {k}

---------------------------------------------------------------------------
(* The editor's jobs, a request at a time.                                 *)

FirstStep(j) ==
  Step(IF j.kind = "upload" THEN IF j.name \in Nested THEN "getinfo" ELSE "open_write"
       ELSE IF j.kind = "download" THEN "getinfo" ELSE j.kind, 0)

\* The thread begins a job.
Start(t) ==
  /\ phase[t] \in {"done", "failed"}
  /\ job[t].k < Bound(t)
  /\ \E kind \in IF t = Worker THEN {"upload", "download"}
                               ELSE {"getinfo", "delete", "mkdir", "dirlist"},
        x \in Path, size \in Sizes \cup {0} :
       /\ kind \in {"mkdir", "dirlist"} <=> x = Dir
       /\ IF kind = "upload" THEN size \in Sizes ELSE size = 0
       /\ LET j == [k |-> job[t].k + 1, kind |-> kind, name |-> x, size |-> size]
          IN  /\ job' = [job EXCEPT ![t] = j]
              /\ at' = [at EXCEPT ![t] = FirstStep(j)]
  /\ phase' = [phase EXCEPT ![t] = "ready"]
  /\ got' = [got EXCEPT ![t] = <<>>]
  /\ closed' = IF t = Worker THEN Nothing ELSE closed
  /\ UNCHANGED <<result, ref, hostVars, dev, file, card, trouble>>

\* An upload asks for and makes the directory of its file.
Target(t) ==
  IF job[t].kind = "upload" /\ at[t].op \in {"getinfo", "mkdir"} THEN Dir ELSE job[t].name

Req(t) ==
  [by |-> t, job |-> job[t].k, op |-> at[t].op, n |-> at[t].n, name |-> Target(t), ref |-> ref[t]]

\* Faulty: keeps the monitor.
GiveUpLocked(t) ==
  /\ phase' = [phase EXCEPT ![t] = "failed"]
  /\ at' = [at EXCEPT ![t] = Step("end", 0)]
  /\ ref' = [ref EXCEPT ![t] = 0]
  /\ got' = [got EXCEPT ![t] = <<>>]
  /\ result' = [result EXCEPT ![t] = None]
  /\ UNCHANGED lock

\* An exception ends the job, whatever it has open.
GiveUp(t) ==
  /\ phase' = [phase EXCEPT ![t] = "failed"]
  /\ at' = [at EXCEPT ![t] = Step("end", 0)]
  /\ ref' = [ref EXCEPT ![t] = 0]
  /\ got' = [got EXCEPT ![t] = <<>>]
  /\ result' = [result EXCEPT ![t] = None]
  /\ lock' = None

\* Faulty: does not wait for the monitor.
PrepareAtOnce(t) ==
  /\ phase[t] = "ready"
  /\ consumer' = [req |-> Req(t), st |-> 0, len |-> 0, from |-> {}]
  /\ IF link = "down"
     THEN GiveUp(t)
     ELSE /\ phase' = [phase EXCEPT ![t] = "transmit"]
          /\ lock' = t
          /\ UNCHANGED <<at, ref, got, result>>
  /\ UNCHANGED <<job, link, inbox, boardVars, trouble>>

\* It takes the monitor, sets the consumer of the answer and begins to
\* transmit, which a connection that is down refuses.
Prepare(t) ==
  /\ phase[t] = "ready"
  /\ lock = None
  /\ consumer' = [req |-> Req(t), st |-> 0, len |-> 0, from |-> {}]
  /\ IF link = "down"
     THEN GiveUp(t)
     ELSE /\ phase' = [phase EXCEPT ![t] = "transmit"]
          /\ lock' = t
          /\ UNCHANGED <<at, ref, got, result>>
  /\ UNCHANGED <<job, link, inbox, boardVars, trouble>>

\* The next block, while there is one.
OneMore(op, n, size) == IF n < size THEN Step(op, n + 1) ELSE Step("close", 0)

AfterUpload(op, n, size, absent) ==
  IF op = "getinfo" /\ absent THEN Step("mkdir", 0)
  ELSE IF op \in {"getinfo", "mkdir"} THEN Step("open_write", 0)
  ELSE IF op \in {"open_write", "write"} THEN OneMore("write", n, size)
  ELSE IF op = "close" THEN Step("setinfo", 0) ELSE Step("end", 0)

AfterDownload(op, n, size) ==
  IF op = "getinfo" THEN Step("open", 0)
  ELSE IF op \in {"open", "read"} THEN OneMore("read", n, size) ELSE Step("end", 0)

\* The request after the one that was answered with r, or the job's end.
Following(t, r) ==
  LET op == at[t].op
      n == at[t].n
  IN  IF job[t].kind = "upload" THEN AfterUpload(op, n, job[t].size, r.val = -1)
      ELSE IF job[t].kind = "download" THEN AfterDownload(op, n, job[t].size)
      ELSE Step("end", 0)

\* Faulty: looks at errors only when a file is opened.
GoodUnlessOpen(t, r) ==
  /\ at[t].op \in {"open", "open_write"} => r.err = "ok"
  /\ job[t].kind = "download" /\ at[t].op = "getinfo" => r.val # -1

\* The answers on which the method returns.  A directory that exists already
\* is no error; a download of a file that does not exist is a null pointer.
Good(t, r) ==
  /\ at[t].op \in ResultOp => r.err = "ok" \/ (at[t].op = "mkdir" /\ r.err = "exist")
  /\ job[t].kind = "download" /\ at[t].op = "getinfo" => r.val # -1

\* The future is completed: the method returns or throws, and frees the
\* monitor.
Return(t) ==
  /\ phase[t] = "wait"
  /\ result[t] # None
  /\ LET r == result[t]
         op == at[t].op
         next == Following(t, r)
     IN  /\ consumer' = IF /\ op \notin {"mkdir", "dirlist"}
                           /\ op \in ResultOp => r.err = "ok"
                        THEN None ELSE consumer
         /\ \/ ~Good(t, r) /\ GiveUp(t) /\ UNCHANGED job
            \/ /\ Good(t, r)
               /\ phase' = [phase EXCEPT ![t] = IF next.op = "end" THEN "done" ELSE "ready"]
               /\ at' = [at EXCEPT ![t] = next]
               /\ ref' = [ref EXCEPT ![t] = IF op \in {"open", "open_write"} THEN r.val
                                            ELSE IF next.op = "end" THEN 0 ELSE @]
               /\ got' = [got EXCEPT ![t] = IF op = "read" /\ r.val = 1
                                            THEN Append(@, r.block) ELSE @]
               /\ job' = [job EXCEPT ![t] = IF @.kind = "download" /\ op = "getinfo"
                                            THEN [@ EXCEPT !.size = r.val] ELSE @]
               /\ result' = [result EXCEPT ![t] = None]
               /\ lock' = None
  /\ UNCHANGED <<link, inbox, boardVars, trouble>>

\* disconnect1: who is transmitting gets an error, and waits in vain.
Disconnect ==
  /\ link' = "down" /\ consumer' = None /\ inbox' = None

AbortTransmit == phase' = [t \in Thread |-> IF phase[t] = "transmit" THEN "wait" ELSE phase[t]]

\* The board, or the Receiver, is too slow, and may be so again.
Slow == IF "late" \in trouble THEN UNCHANGED trouble ELSE Trouble("late")

\* No answer to the request can arrive any more.
Hopeless(t) ==
  \/ consumer = None
  \/ link # "up"
  \/ \A p \in {inbox} \cup Range(dev.out) : p # None => p.for # Req(t)

\* The wait for the answer times out: none will come, or it is only late.
Timeout(t) ==
  /\ phase[t] = "wait" /\ result[t] = None
  /\ IF Hopeless(t) THEN UNCHANGED trouble ELSE Slow
  /\ GiveUp(t)
  /\ UNCHANGED <<job, consumer, link, inbox, boardVars>>

\* The board does not take the request: it is busy, or it waits for ever for
\* somebody to take its answer.
TransmitTimeout(t) ==
  /\ phase[t] = "transmit"
  /\ dev.phase = "reply"
  /\ IF link = "deaf" THEN UNCHANGED trouble ELSE Slow
  /\ Disconnect
  /\ GiveUp(t)
  /\ UNCHANGED <<job, boardVars>>

---------------------------------------------------------------------------
(* The board: its reader thread, which takes a request when it has sent    *)
(* the answer to the one before.                                           *)

Answer(r, packets) == dev' = [phase |-> "reply", req |-> r, out |-> packets]

FResult(r, err, val) == Answer(r, <<Packet("result", r, err, val)>>)

\* A call of FatFs, which may find the disk faulty.
Calls(e) == IF e = "ok" THEN UNCHANGED trouble ELSE Trouble("fault")

FsErr == {"ok", "disk"}

IsOpen(r) == file # None /\ r.ref = fileRef

Size(x) == IF card[x] = None THEN -1 ELSE Len(card[x])

\* Faulty: does not empty the file (FA_OPEN_ALWAYS).
OpenedAsItIs(r, write, data) ==
  [name |-> r.name, job |-> r.job, write |-> write,
   data |-> IF card[r.name] = None THEN <<>> ELSE card[r.name], pos |-> 0]

Opened(r, write, data) ==
  [name |-> r.name, job |-> r.job, write |-> write, data |-> data, pos |-> 0]

RcvFOpen(r) ==
  /\ r.op = "open"
  /\ \/ /\ file # None
        /\ FResult(r, "busy", 0)
        /\ UNCHANGED <<file, trouble>>
     \/ /\ file = None
        /\ \E e \in FsErr :
             LET err == IF card[r.name] = None THEN "missing" ELSE e
             IN  /\ Calls(e)
                 /\ file' = IF err = "ok" THEN Opened(r, FALSE, card[r.name]) ELSE None
                 /\ FResult(r, err, fileRef)
  /\ UNCHANGED <<card, closed>>

RcvFOpenWrite(r) ==
  /\ r.op = "open_write"
  /\ \/ /\ file # None
        /\ FResult(r, "busy", 0)
        /\ UNCHANGED <<file, card, trouble>>
     \/ /\ file = None
        /\ \E e \in FsErr :
             LET err == IF r.name \in Nested /\ card[Dir] = None THEN "missing" ELSE e
             IN  /\ Calls(e)
                 /\ file' = IF err = "ok" THEN Opened(r, TRUE, <<>>) ELSE None
                 /\ card' = IF err = "ok" THEN [card EXCEPT ![r.name] = <<>>] ELSE card
                 /\ FResult(r, err, fileRef)
  /\ UNCHANGED closed

\* Faulty: file_is_open stays set.
ReleaseNot ==
  /\ closed' = [job |-> file.job, data |-> file.data]
  /\ UNCHANGED file

Release ==
  /\ closed' = [job |-> file.job, data |-> file.data]
  /\ file' = None

\* The directory entry gets its size here; the file is closed in any case.
RcvFClose(r) ==
  /\ r.op = "close"
  /\ \/ /\ ~IsOpen(r)
        /\ FResult(r, "param", 0)
        /\ UNCHANGED <<file, card, closed, trouble>>
     \/ /\ IsOpen(r)
        /\ \E e \in FsErr :
             /\ Calls(e)
             /\ card' = IF e = "ok" /\ file.write /\ card[file.name] # None
                        THEN [card EXCEPT ![file.name] = file.data] ELSE card
             /\ FResult(r, e, 0)
        /\ Release

\* The header tells of an error, but the consumer ignores it.
\* Faulty: by one.
ReadableButLast(r) == IsOpen(r) /\ ~file.write /\ file.pos + 1 < Len(file.data)

Readable(r) == IsOpen(r) /\ ~file.write /\ file.pos < Len(file.data)

RcvFRead(r) ==
  /\ r.op = "read"
  /\ \/ /\ Readable(r)
        /\ Answer(r, <<Packet("read", r, "ok", 1), Data(r, 1, file.data[file.pos + 1])>>)
        /\ file' = [file EXCEPT !.pos = @ + 1]
        /\ UNCHANGED trouble
     \/ /\ Readable(r)
        /\ Trouble("badread")
        /\ Answer(r, <<Packet("read", r, "disk", 0), Data(r, 0, None)>>)
        /\ UNCHANGED file
     \/ /\ ~Readable(r)
        /\ Answer(r, <<Packet("read", r, "param", 0), Data(r, 0, None)>>)
        /\ UNCHANGED <<file, trouble>>
  /\ UNCHANGED <<card, closed>>

\* A refused write leaves its data in the pipe, where they are taken for
\* requests with an unidentified header, which do nothing.  Otherwise the
\* handler receives the block first.
RcvFWrite(r) ==
  /\ r.op = "write"
  /\ IF IsOpen(r)
     THEN dev' = [phase |-> "receive", req |-> r, out |-> <<>>]
     ELSE FResult(r, "param", 0)
  /\ UNCHANGED <<file, card, closed, trouble>>

RcvFGetInfo(r) ==
  /\ r.op = "getinfo"
  /\ \E e \in FsErr :
       /\ Calls(e)
       /\ Answer(r, <<Packet("info", r, e, IF e = "ok" THEN Size(r.name) ELSE -1)>>)
  /\ UNCHANGED <<file, card, closed>>

\* A disk that fails cuts the list short.
RcvFDirlist(r) ==
  /\ r.op = "dirlist"
  /\ \E e \in FsErr, listed \in SUBSET {x \in Names : card[x] # None} :
       \E entry \in [1 .. Cardinality(listed) -> listed] :
         /\ Calls(e)
         /\ e = "ok" => \A x \in Names : card[x] # None => x \in listed
         /\ Range(entry) = listed
         /\ Answer(r, [i \in 1 .. Cardinality(listed) + 2 |->
                         IF i = 1 THEN Packet("dir", r, "ok", 0)
                         ELSE IF i = Cardinality(listed) + 2 THEN Packet("end", r, e, 0)
                         ELSE Packet("info", r, "ok", Size(entry[i - 1]))])
  /\ UNCHANGED <<file, card, closed>>

RcvFSetInfo(r) ==
  /\ r.op = "setinfo"
  /\ \E e \in FsErr :
       /\ Calls(e)
       /\ FResult(r, IF card[r.name] = None THEN "missing" ELSE e, 0)
  /\ UNCHANGED <<file, card, closed>>

\* Also of the open file, whose directory entry is then gone.
RcvFDelete(r) ==
  /\ r.op = "delete"
  /\ \E e \in FsErr :
       /\ Calls(e)
       /\ card' = IF e = "ok" THEN [card EXCEPT ![r.name] = None] ELSE card
       /\ FResult(r, IF card[r.name] = None THEN "missing" ELSE e, 0)
  /\ UNCHANGED <<file, closed>>

RcvFMkdir(r) ==
  /\ r.op = "mkdir"
  /\ \E e \in FsErr :
       LET err == IF card[Dir] # None THEN "exist" ELSE e
       IN  /\ Calls(e)
           /\ card' = IF err = "ok" THEN [card EXCEPT ![Dir] = <<>>] ELSE card
           /\ FResult(r, err, 0)
  /\ UNCHANGED <<file, closed>>

Dispatch(r) ==
  \/ RcvFOpen(r) \/ RcvFOpenWrite(r) \/ RcvFClose(r) \/ RcvFRead(r) \/ RcvFWrite(r)
  \/ RcvFGetInfo(r) \/ RcvFDirlist(r) \/ RcvFSetInfo(r) \/ RcvFDelete(r) \/ RcvFMkdir(r)

\* The reader takes the request.  The editor's transfer ends with it, but that
\* of a block ends with the block.
Take(t) ==
  /\ phase[t] = "transmit"
  /\ link # "down"
  /\ dev.phase = "idle"
  /\ Dispatch(Req(t))
  /\ phase' = IF dev'.phase = "receive" THEN phase ELSE [phase EXCEPT ![t] = "wait"]
  /\ UNCHANGED <<threadVars, result, hostVars>>

\* f_write, which says nothing of bytes that a full card did not take.
Written(b) == file' = [file EXCEPT !.data = Append(@, b)]

ReceiveRest ==
  /\ dev.phase = "receive"
  /\ link # "down"
  /\ \/ ~file.write /\ FResult(dev.req, "denied", 0) /\ UNCHANGED <<file, trouble>>
     \/ /\ file.write
        /\ \/ Written([job |-> dev.req.job, n |-> dev.req.n])
              /\ FResult(dev.req, "ok", 0) /\ UNCHANGED trouble
           \/ Trouble("full") /\ FResult(dev.req, "ok", 0) /\ UNCHANGED file
           \/ Trouble("fault") /\ FResult(dev.req, "disk", 0) /\ UNCHANGED file
  /\ phase' = [t \in Thread |-> IF phase[t] = "transmit" /\ Req(t) = dev.req THEN "wait" ELSE phase[t]]
  /\ UNCHANGED <<threadVars, result, hostVars, card, closed>>

---------------------------------------------------------------------------
(* The way back: the editor's Receiver takes one packet at a time.         *)

Transfer ==
  /\ dev.phase = "reply"
  /\ link = "up"
  /\ inbox = None
  /\ inbox' = Head(dev.out)
  /\ dev' = IF Len(dev.out) = 1 THEN Idle ELSE [dev EXCEPT !.out = Tail(@)]
  /\ UNCHANGED <<threadVars, phase, result, lock, consumer, link, file, card, closed, trouble>>

\* Faulty: takes an info for a result.
CompletesByAny(c, p) ==
  \/ c.req.op \in ResultOp \cup {"getinfo"} /\ p.type \in {"result", "info"}
  \/ c.req.op = "read" /\ c.st = 1 /\ p.type = "data" /\ p.val = c.len
  \/ c.req.op = "dirlist" /\ c.st = 1 /\ p.type = "end"

\* The packet is the last one the consumer waits for.
Completes(c, p) ==
  \/ c.req.op \in ResultOp /\ p.type = "result"
  \/ c.req.op = "getinfo" /\ p.type = "info"
  \/ c.req.op = "read" /\ c.st = 1 /\ p.type = "data" /\ p.val = c.len
  \/ c.req.op = "dirlist" /\ c.st = 1 /\ p.type = "end"

\* It is one of several.
Continues(c, p) ==
  \/ c.req.op = "read" /\ c.st = 0 /\ p.type = "read"
  \/ c.req.op = "dirlist" /\ c.st = 0 /\ p.type = "dir"
  \/ c.req.op = "dirlist" /\ c.st = 1 /\ p.type = "info"

\* A consumer that wants a header reads it from an empty packet.
Underflow(c, p) ==
  /\ p.type = "data" /\ p.val = 0
  /\ ~(c.req.op = "read" /\ c.st # 0)
  /\ ~(c.req.op = "dirlist" /\ c.st = 2)

\* The Receiver gives the packet to the consumer, and drops what it does not
\* take.  The exception of an empty packet ends the Receiver.
ProcessPacket ==
  /\ inbox # None
  /\ link = "up"
  /\ inbox' = None
  /\ \/ /\ consumer # None
        /\ Continues(consumer, inbox)
        /\ consumer' = [consumer EXCEPT !.st = 1, !.from = @ \cup {inbox.for},
                                        !.len = IF inbox.type = "read" THEN inbox.val ELSE @]
        /\ UNCHANGED <<result, link>>
     \/ /\ consumer # None
        /\ Completes(consumer, inbox)
        /\ consumer' = [consumer EXCEPT !.st = 2, !.from = @ \cup {inbox.for}]
        /\ result' = [t \in Thread |->
                        IF phase[t] \in {"transmit", "wait"} /\ result[t] = None /\ Req(t) = consumer.req
                        THEN [err |-> inbox.err, val |-> inbox.val, block |-> inbox.block,
                              from |-> consumer.from \cup {inbox.for}]
                        ELSE result[t]]
        /\ UNCHANGED link
     \/ /\ consumer # None
        /\ Underflow(consumer, inbox)
        /\ link' = "deaf"
        /\ UNCHANGED <<result, consumer>>
     \/ /\ consumer # None =>
             ~(Continues(consumer, inbox) \/ Completes(consumer, inbox) \/ Underflow(consumer, inbox))
        /\ UNCHANGED <<result, consumer, link>>
  /\ UNCHANGED <<threadVars, phase, lock, boardVars, trouble>>

---------------------------------------------------------------------------
(* Connections that break.                                                 *)

\* The cable: the board gives up what it was receiving or sending.  A block
\* cut short is written all the same.
BusReset ==
  /\ Trouble("reset")
  /\ IF dev.phase = "receive" /\ file.write THEN Written(Torn(dev.req.job)) ELSE UNCHANGED file
  /\ dev' = Idle
  /\ Disconnect
  /\ AbortTransmit
  /\ UNCHANGED <<threadVars, result, lock, card, closed>>

\* The board restarts.
Restart ==
  /\ Trouble("restart")
  /\ dev' = Idle /\ file' = None
  /\ Disconnect
  /\ AbortTransmit
  /\ UNCHANGED <<threadVars, result, lock, card, closed>>

\* The user disconnects; the board does not notice, and keeps its answer.
Hangup ==
  /\ Trouble("hangup")
  /\ link = "up" /\ dev.phase # "receive"
  /\ Disconnect
  /\ AbortTransmit
  /\ UNCHANGED <<threadVars, result, lock, boardVars>>

Connect ==
  /\ link = "down"
  /\ link' = "up" /\ consumer' = None
  /\ UNCHANGED <<threadVars, phase, result, lock, inbox, boardVars, trouble>>

---------------------------------------------------------------------------

Next ==
  \/ \E t \in Thread :
       Start(t) \/ Prepare(t) \/ Take(t) \/ Return(t) \/ Timeout(t) \/ TransmitTimeout(t)
  \/ ReceiveRest \/ Transfer \/ ProcessPacket
  \/ BusReset \/ Restart \/ Hangup \/ Connect

Spec == Init /\ [][Next]_vars

\* Threads are scheduled, the board works, a wait that is hopeless times out.
\* Nobody need begin a job, connect again or be late.
Fairness ==
  /\ \A t \in Thread :
       /\ WF_vars(Prepare(t)) /\ WF_vars(Take(t)) /\ WF_vars(Return(t))
       /\ WF_vars(Hopeless(t) /\ Timeout(t))
       /\ WF_vars(link = "deaf" /\ TransmitTimeout(t))
  /\ WF_vars(ReceiveRest) /\ WF_vars(Transfer) /\ WF_vars(ProcessPacket)

FairSpec == Spec /\ Fairness

---------------------------------------------------------------------------
(* Properties.                                                             *)

Err == {"ok", "busy", "missing", "disk", "param", "denied", "exist"}

PacketOf(types, vals, blocks) ==
  [type : types, for : Request, err : Err, val : vals, block : blocks]

Packets ==
  PacketOf({"result"}, {0, fileRef}, {None}) \cup PacketOf({"info"}, Int, {None})
    \cup PacketOf({"read"}, {0, 1}, {None}) \cup PacketOf({"dir", "end"}, {0}, {None})
    \cup PacketOf({"data"}, {0}, {None}) \cup PacketOf({"data"}, {1}, Block)

Jobs ==
  [k : Nat, name : Path, size : Int,
   kind : {"none", "upload", "download", "getinfo", "delete", "mkdir", "dirlist"}]

Results == [err : Err, val : Int, block : Block \cup {None}, from : SUBSET Request]

Consumers == [req : Request, st : 0 .. 2, len : {0, 1}, from : SUBSET Request]

Files == [name : Path, job : Nat, write : BOOLEAN, data : Seq(Block), pos : Nat]

ASSUME NoneAssumption == None \notin Packets \cup Consumers \cup Files

EditorTypes ==
  /\ job \in [Thread -> Jobs]
  /\ at \in [Thread -> [op : Op \cup {"end"}, n : Nat]]
  /\ phase \in [Thread -> {"ready", "transmit", "wait", "done", "failed"}]
  /\ result \in [Thread -> Results \cup {None}]
  /\ ref \in [Thread -> {0, fileRef}]
  /\ got \in [Thread -> Seq(Block)]
  /\ lock \in Thread \cup {None}
  /\ consumer \in Consumers \cup {None}
  /\ link \in {"up", "down", "deaf"}
  /\ inbox \in Packets \cup {None}

BoardTypes ==
  /\ dev \in [phase : {"idle", "receive", "reply"}, req : Request \cup {None}, out : Seq(Packets)]
  /\ file \in Files \cup {None}
  /\ card \in [Path -> Seq(Block) \cup {None}]
  /\ closed \in [job : Nat, data : Seq(Block)]
  /\ dev.phase = "reply" <=> dev.out # <<>>
  /\ dev.phase = "receive" => dev.req \in Request /\ file # None

TypeOK == EditorTypes /\ BoardTypes

\* A request is answered with the packets sent for it, as long as no answer
\* came late and none was kept from before a disconnection: then nothing
\* tells the editor one answer from another.
OwnReply ==
  trouble \cap {"late", "hangup"} = {} =>
    \A t \in Thread : phase[t] = "wait" /\ result[t] # None => result[t].from = {Req(t)}

\* An upload that succeeds has written and closed its file whole, unless the card
\* was full, which nobody looks at, or an answer was not the upload's own.
WholeFile ==
  /\ job[Worker].kind = "upload" /\ phase[Worker] = "done"
  /\ trouble \cap {"late", "hangup", "full"} = {}
  => closed = [job |-> job[Worker].k,
               data |-> [i \in 1 .. job[Worker].size |-> [job |-> job[Worker].k, n |-> i]]]

\* A download that succeeds has read the file it had open, unless a read
\* failed, which nobody looks at, or an answer was not the download's own.
WholeCopy ==
  /\ job[Worker].kind = "download" /\ phase[Worker] = "done"
  /\ trouble \cap {"late", "hangup", "badread"} = {}
  => closed = [job |-> job[Worker].k, data |-> got[Worker]]

\* The blocks of an open file are its job's own.
OnlyOpener ==
  file # None /\ file.write /\ trouble \cap {"late", "hangup"} = {} =>
    \A i \in DOMAIN file.data : file.data[i].job = file.job

\* A job that succeeds does not leave its file open: the board refuses to
\* open another one only because a job is at work or has failed.
LeftOpenByFailure ==
  /\ file # None
  /\ file.job = job[Worker].k
  /\ trouble \cap {"late", "hangup"} = {}
  => phase[Worker] # "done"

\* Every job comes to an end, whatever breaks, so that the next one can begin.
JobsEnd == \A t \in Thread : phase[t] = "ready" ~> phase[t] \in {"done", "failed"}

\* The comment on getFileInfo: it returns null if the file does not exist.
NullIfAbsent ==
  \A t \in Thread :
    phase[t] = "wait" /\ at[t].op = "getinfo" /\ result[t] # None =>
      (card[Target(t)] = None => result[t].val = -1)

===========================================================================
