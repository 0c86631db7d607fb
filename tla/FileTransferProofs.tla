------------------------ MODULE FileTransferProofs ------------------------
(* FileTransfer is well typed; while no answer is late every request is    *)
(* answered by the packets that were sent for it, and the worker's jobs    *)
(* that succeed have carried their files over whole.                       *)
EXTENDS FileTransfer, FiniteSetTheorems, SequenceTheorems, TLAPS

\* A request in the making is one of the protocol, and the future
\* is completed with what its kind of answer says.
Requests ==
  \A t \in Thread :
    /\ phase[t] \in {"ready", "transmit", "wait"} => at[t].op \in Op
    /\ result[t] # None =>
         /\ at[t].op \in ResultOp => result[t].val \in {0, fileRef}
         /\ at[t].op = "read" /\ result[t].val = 1 => result[t].block \in Block

\* The monitor is held from the transmission to the answer.
Monitor ==
  /\ \A t \in Thread : phase[t] \in {"transmit", "wait"} <=> lock = t
  /\ \A t \in Thread : lock # t => result[t] = None
  /\ \A t \in Thread : lock = t /\ consumer # None => consumer.req = Req(t)

Base == TypeOK /\ Requests /\ Monitor

Quiet == trouble \cap {"late", "hangup"} = {}

\* Somebody awaits the answer to r, and can get it.
Awaited(r, ph) ==
  /\ lock \in Thread
  /\ phase[lock] = ph
  /\ result[lock] = None
  /\ Req(lock) = r
  /\ consumer # None
  /\ link = "up"

\* The packet ends its answer.
Final(p) ==
  \/ p.type \in {"result", "data", "end"}
  \/ p.type = "info" /\ p.for.op = "getinfo"

\* The consumer's state fits the first packet of those on the way.
Fits(p) ==
  /\ p.type = "read" => consumer.st = 0 /\ p.for.op = "read"
  /\ p.type = "data" => consumer.st = 1 /\ p.for.op = "read"

\* The packets on the way belong to the request that is awaited and come in
\* the order of its answer.
Way ==
  /\ inbox # None =>
       /\ Awaited(inbox.for, "wait")
       /\ Fits(inbox)
       /\ Final(inbox) => dev.out = <<>>
  /\ \A i \in 1 .. Len(dev.out) :
       /\ Awaited(dev.out[i].for, "wait")
       /\ Final(dev.out[i]) => i = Len(dev.out)
       /\ dev.out[i].type = "read" => i = 1 /\ inbox = None /\ Fits(dev.out[i])
       /\ dev.out[i].type = "data" =>
            /\ dev.out[i].for.op = "read"
            /\ IF i = 1
               THEN IF inbox = None THEN Fits(dev.out[1]) ELSE inbox.type = "read"
               ELSE i = 2 /\ dev.out[1].type = "read"
  /\ dev.phase = "receive" => Awaited(dev.req, "transmit")

Answers ==
  /\ link # "deaf"
  /\ Way
  /\ \A t \in Thread :
       /\ phase[t] = "transmit" =>
            consumer # None /\ consumer.st = 0 /\ link = "up" /\ result[t] = None
       /\ lock = t /\ consumer # None => consumer.from \subseteq {Req(t)}
       /\ phase[t] = "wait" /\ result[t] # None =>
            result[t].from = {Req(t)} /\ inbox = None /\ dev.out = <<>>

Inv == Base /\ (Quiet => Answers)

---------------------------------------------------------------------------
(* What the helpers return.                                                *)

LEMMA ReqType ==
  ASSUME TypeOK, NEW t \in Thread, at[t].op \in Op
  PROVE  Req(t) \in Request
<1>1. /\ job[t] \in Jobs /\ at[t].n \in Nat /\ ref[t] \in {0, fileRef}
  BY DEF TypeOK, EditorTypes
<1>2. Target(t) \in Path
  BY <1>1 DEF Target, Jobs, Path
<1> QED
  BY <1>1, <1>2 DEF Req, Request, Jobs

LEMMA FirstStepType ==
  ASSUME NEW j, j.kind \in {"upload", "download", "getinfo", "delete", "mkdir", "dirlist"}
  PROVE  FirstStep(j) \in [op : Op, n : Nat]
  BY DEF FirstStep, Step, Op, ResultOp

LEMMA FollowingType ==
  ASSUME TypeOK, NEW t \in Thread, NEW r
  PROVE  Following(t, r) \in [op : Op \cup {"end"}, n : Nat]
<1>1. at[t].n \in Nat
  BY DEF TypeOK, EditorTypes
<1>2. \A o \in Op : \A size : OneMore(o, at[t].n, size) \in [op : Op \cup {"end"}, n : Nat]
  BY <1>1 DEF OneMore, Step, Op, ResultOp
<1>3. \A o, size, absent :
        /\ AfterUpload(o, at[t].n, size, absent) \in [op : Op \cup {"end"}, n : Nat]
        /\ AfterDownload(o, at[t].n, size) \in [op : Op \cup {"end"}, n : Nat]
  BY <1>2 DEF AfterUpload, AfterDownload, Step, Op, ResultOp
<1> QED
  BY <1>3 DEF Following, Step

\* The requests stay what they are while no thread moves on.
LEMMA SameRequests ==
  ASSUME UNCHANGED <<job, at, ref>>
  PROVE  \A t \in Thread : Req(t)' = Req(t)
  BY DEF Req, Target

LEMMA PacketTypes ==
  ASSUME NEW r \in Request, NEW e \in Err
  PROVE  /\ \A v \in {0, fileRef} : Packet("result", r, e, v) \in Packets
         /\ \A v \in Int : Packet("info", r, e, v) \in Packets
         /\ \A v \in {0, 1} : Packet("read", r, e, v) \in Packets
         /\ Packet("dir", r, e, 0) \in Packets /\ Packet("end", r, e, 0) \in Packets
         /\ Data(r, 0, None) \in Packets
         /\ \A b \in Block : Data(r, 1, b) \in Packets
  BY DEF Packet, Data, Packets, PacketOf, Err

LEMMA PacketParts ==
  ASSUME NEW p \in Packets
  PROVE  /\ p # None
         /\ p.type \in {"result", "info", "read", "dir", "end", "data"}
         /\ p.for \in Request /\ p.err \in Err /\ p.val \in Int /\ p.block \in Block \cup {None}
         /\ p.type = "result" => p.val \in {0, fileRef}
         /\ p.type = "read" => p.val \in {0, 1}
         /\ p.type = "data" /\ p.val = 1 => p.block \in Block
<1>1. p # None
  BY NoneAssumption
<1>2. QED
  BY <1>1 DEF Packets, PacketOf, fileRef

LEMMA InitTypes ==
  ASSUME Init
  PROVE  TypeOK
<1> USE DEF Init
<1>1. EditorTypes
  <2>1. [k |-> 0, kind |-> "none", name |-> Dir, size |-> 0] \in Jobs
    BY DEF Jobs, Path
  <2>2. Step("end", 0) \in [op : Op \cup {"end"}, n : Nat]
    BY DEF Step
  <2> QED
    BY <2>1, <2>2 DEF EditorTypes
<1>2. BoardTypes
  <2>1. dev \in [phase : {"idle", "receive", "reply"}, req : Request \cup {None}, out : Seq(Packets)]
    BY DEF Idle
  <2>2. card \in [Path -> Seq(Block) \cup {None}]
    <3>1. <<Old>> \in Seq(Block) /\ <<>> \in Seq(Block)
      BY DEF Old, Block
    <3> QED
      BY <3>1
  <2>3. closed \in [job : Nat, data : Seq(Block)]
    BY DEF Nothing
  <2> QED
    BY <2>1, <2>2, <2>3 DEF BoardTypes, Idle
<1> QED
  BY <1>1, <1>2 DEF TypeOK

---------------------------------------------------------------------------
(* The types, action by action.                                            *)

LEMMA StartTypes ==
  ASSUME TypeOK, NEW t \in Thread, Start(t)
  PROVE  /\ TypeOK'
         /\ at'[t].op \in Op
         /\ \A u \in Thread : u # t => at'[u] = at[u] /\ job'[u] = job[u]
<1>1. PICK j : /\ j \in Jobs
               /\ j.kind \in {"upload", "download", "getinfo", "delete", "mkdir", "dirlist"}
               /\ job' = [job EXCEPT ![t] = j]
               /\ at' = [at EXCEPT ![t] = FirstStep(j)]
  <2>1. PICK kind \in IF t = Worker THEN {"upload", "download"}
                                  ELSE {"getinfo", "delete", "mkdir", "dirlist"},
             x \in Path, size \in Sizes \cup {0} :
             /\ kind \in {"mkdir", "dirlist"} <=> x = Dir
             /\ IF kind = "upload" THEN size \in Sizes ELSE size = 0
             /\ LET j == [k |-> job[t].k + 1, kind |-> kind, name |-> x, size |-> size]
                IN  /\ job' = [job EXCEPT ![t] = j]
                    /\ at' = [at EXCEPT ![t] = FirstStep(j)]
    BY Zenon DEF Start
  <2>2. kind \in {"upload", "download", "getinfo", "delete", "mkdir", "dirlist"}
    OBVIOUS
  <2>3. job[t].k + 1 \in Nat
    BY DEF TypeOK, EditorTypes, Jobs
  <2>4. size \in Int
    BY TransferAssumption
  <2>5. [k |-> job[t].k + 1, kind |-> kind, name |-> x, size |-> size] \in Jobs
    BY <2>2, <2>3, <2>4 DEF Jobs
  <2> QED
    BY <2>1, <2>2, <2>5
<1>2. FirstStep(j) \in [op : Op, n : Nat]
  BY <1>1, FirstStepType
<1>3. EditorTypes'
  BY <1>1, <1>2 DEF TypeOK, EditorTypes, Start, hostVars
<1>4. BoardTypes'
  BY DEF TypeOK, BoardTypes, Start, Nothing
<1>5. at'[t] = FirstStep(j) /\ \A u \in Thread : u # t => at'[u] = at[u] /\ job'[u] = job[u]
  BY <1>1 DEF TypeOK, EditorTypes
<1> QED
  BY <1>2, <1>3, <1>4, <1>5 DEF TypeOK

\* Giving up leaves the thread without a request.
LEMMA GiveUpTypes ==
  ASSUME TypeOK, NEW t \in Thread, GiveUp(t)
  PROVE  /\ phase' \in [Thread -> {"ready", "transmit", "wait", "done", "failed"}]
         /\ at' \in [Thread -> [op : Op \cup {"end"}, n : Nat]]
         /\ ref' \in [Thread -> {0, fileRef}]
         /\ got' \in [Thread -> Seq(Block)]
         /\ result' \in [Thread -> Results \cup {None}]
         /\ lock' \in Thread \cup {None}
  BY DEF TypeOK, EditorTypes, GiveUp, Step

LEMMA PrepareTypes ==
  ASSUME TypeOK, Requests, NEW t \in Thread, Prepare(t)
  PROVE  TypeOK'
<1>1. consumer' \in Consumers
  <2>1. Req(t) \in Request
    BY ReqType DEF Prepare, Requests
  <2> QED
    BY <2>1 DEF Prepare, Consumers
<1>2. EditorTypes'
  <2>1. CASE link = "down"
    BY <1>1, <2>1, GiveUpTypes DEF TypeOK, EditorTypes, Prepare
  <2>2. CASE link # "down"
    BY <1>1, <2>2 DEF TypeOK, EditorTypes, Prepare
  <2> QED
    BY <2>1, <2>2
<1>3. BoardTypes'
  BY DEF TypeOK, BoardTypes, Prepare, boardVars
<1> QED
  BY <1>2, <1>3 DEF TypeOK

LEMMA ReturnTypes ==
  ASSUME TypeOK, Requests, NEW t \in Thread, Return(t)
  PROVE  /\ TypeOK'
         /\ phase'[t] = "ready" => at'[t].op \in Op
         /\ \A u \in Thread : u # t => at'[u] = at[u] /\ phase'[u] = phase[u]
         /\ result' = [result EXCEPT ![t] = None]
         /\ phase'[t] \in {"ready", "done", "failed"}
<1> DEFINE r == result[t]
           next == Following(t, r)
<1>1. r \in Results /\ at[t].op \in Op /\ next \in [op : Op \cup {"end"}, n : Nat]
  <2>1. r \in Results
    BY DEF Return, TypeOK, EditorTypes
  <2>2. at[t].op \in Op
    BY DEF Return, Requests
  <2> QED
    BY <2>1, <2>2, FollowingType
<1>2. consumer' \in Consumers \cup {None}
  BY DEF Return, TypeOK, EditorTypes
<1>3. BoardTypes'
  BY DEF TypeOK, BoardTypes, Return, boardVars
<1>4. CASE ~Good(t, r) /\ GiveUp(t) /\ UNCHANGED job
  <2>1. EditorTypes'
    BY <1>2, <1>4, GiveUpTypes DEF TypeOK, EditorTypes, Return
  <2> QED
    BY <1>3, <1>4, <2>1 DEF TypeOK, EditorTypes, GiveUp
<1>5. CASE /\ Good(t, r)
           /\ phase' = [phase EXCEPT ![t] = IF next.op = "end" THEN "done" ELSE "ready"]
           /\ at' = [at EXCEPT ![t] = next]
           /\ ref' = [ref EXCEPT ![t] = IF at[t].op \in {"open", "open_write"} THEN r.val
                                        ELSE IF next.op = "end" THEN 0 ELSE @]
           /\ got' = [got EXCEPT ![t] = IF at[t].op = "read" /\ r.val = 1
                                        THEN Append(@, r.block) ELSE @]
           /\ job' = [job EXCEPT ![t] = IF @.kind = "download" /\ at[t].op = "getinfo"
                                        THEN [@ EXCEPT !.size = r.val] ELSE @]
           /\ result' = [result EXCEPT ![t] = None]
           /\ lock' = None
  <2>1. at' \in [Thread -> [op : Op \cup {"end"}, n : Nat]]
    BY <1>1, <1>5 DEF TypeOK, EditorTypes
  <2>2. phase' \in [Thread -> {"ready", "transmit", "wait", "done", "failed"}]
    BY <1>5 DEF TypeOK, EditorTypes
  <2>3. ref' \in [Thread -> {0, fileRef}]
    <3>1. at[t].op \in {"open", "open_write"} => r.val \in {0, fileRef}
      BY DEF Requests, Return, ResultOp
    <3> QED
      BY <1>5, <3>1 DEF TypeOK, EditorTypes
  <2>4. got' \in [Thread -> Seq(Block)]
    <3>1. at[t].op = "read" /\ r.val = 1 => r.block \in Block
      BY DEF Requests, Return
    <3>2. at[t].op = "read" /\ r.val = 1 => Append(got[t], r.block) \in Seq(Block)
      BY <3>1, AppendProperties DEF TypeOK, EditorTypes
    <3> QED
      BY <1>5, <3>2 DEF TypeOK, EditorTypes
  <2>5. job' \in [Thread -> Jobs]
    <3>1. job \in [Thread -> Jobs]
      BY DEF TypeOK, EditorTypes
    <3>2. r.val \in Int
      BY <1>1 DEF Results
    <3>3. [job[t] EXCEPT !.size = r.val] \in Jobs
      BY <3>1, <3>2 DEF Jobs
    <3> QED
      BY <1>5, <3>1, <3>3
  <2>6. result' \in [Thread -> Results \cup {None}] /\ lock' \in Thread \cup {None}
    BY <1>5 DEF TypeOK, EditorTypes
  <2>7. EditorTypes'
    BY <1>2, <2>1, <2>2, <2>3, <2>4, <2>5, <2>6 DEF TypeOK, EditorTypes, Return
  <2>8. phase'[t] = "ready" => at'[t].op \in Op
    BY <1>1, <1>5 DEF TypeOK, EditorTypes
  <2> QED
    BY <1>3, <1>5, <2>7, <2>8 DEF TypeOK, EditorTypes
<1> QED
  BY <1>4, <1>5 DEF Return

LEMMA TimeoutTypes ==
  ASSUME TypeOK, NEW t \in Thread, Timeout(t) \/ TransmitTimeout(t)
  PROVE  TypeOK'
<1>1. EditorTypes'
  BY GiveUpTypes DEF TypeOK, EditorTypes, Timeout, TransmitTimeout, Disconnect
<1>2. BoardTypes'
  BY DEF TypeOK, BoardTypes, Timeout, TransmitTimeout, boardVars
<1> QED
  BY <1>1, <1>2 DEF TypeOK

Devices == [phase : {"idle", "receive", "reply"}, req : Request \cup {None}, out : Seq(Packets)]

LEMMA RestOf ==
  ASSUME NEW S, NEW s \in Seq(S), s # <<>>, Len(s) # 1
  PROVE  /\ Tail(s) \in Seq(S) /\ Tail(s) # <<>> /\ Len(Tail(s)) = Len(s) - 1
         /\ \A i \in 1 .. Len(Tail(s)) : Tail(s)[i] = s[i + 1]
<1>1. /\ Tail(s) \in Seq(S) /\ Len(Tail(s)) = Len(s) - 1
      /\ \A i \in 1 .. Len(Tail(s)) : Tail(s)[i] = s[i + 1]
  BY HeadTailProperties, Zenon
<1>2. Tail(s) # <<>>
  <2>1. \A r \in Seq(S) : Len(r) # 0 => r # <<>>
    BY EmptySeq
  <2>2. \A n \in Nat \ {0} : n # 1 => n - 1 # 0
    OBVIOUS
  <2>3. Len(s) \in Nat \ {0}
    BY EmptySeq, Zenon
  <2> QED
    BY <1>1, <2>1, <2>2, <2>3, Zenon
<1> QED
  BY <1>1, <1>2, Zenon

\* The board has an answer to send, and what is left of it afterwards.
LEMMA TransferDevice ==
  ASSUME TypeOK, Transfer
  PROVE  /\ dev.out \in Seq(Packets) /\ Len(dev.out) \in Nat \ {0}
         /\ inbox' = dev.out[1] /\ inbox' \in Packets
         /\ dev' \in Devices
         /\ dev'.out \in Seq(Packets)
         /\ dev'.phase # "receive"
         /\ dev'.phase = "reply" <=> dev'.out # <<>>
         /\ Len(dev'.out) = Len(dev.out) - 1
         /\ \A i \in 1 .. Len(dev'.out) : dev'.out[i] = dev.out[i + 1]
<1>1. dev \in Devices /\ dev.phase = "reply" /\ dev.out # <<>>
  BY DEF TypeOK, BoardTypes, Transfer, Devices
<1>2. dev.out \in Seq(Packets) /\ Len(dev.out) \in Nat \ {0}
  BY <1>1 DEF Devices
<1>3. inbox' = dev.out[1] /\ inbox' \in Packets
  BY <1>2 DEF Transfer
<1>4. CASE Len(dev.out) = 1
  <2>1. dev' = [phase |-> "idle", req |-> None, out |-> <<>>]
    BY <1>4 DEF Transfer, Idle
  <2> QED
    BY <1>2, <1>3, <1>4, <2>1 DEF Devices
<1>5. CASE Len(dev.out) # 1
  <2> DEFINE rest == Tail(dev.out)
  <2>1. /\ rest \in Seq(Packets) /\ rest # <<>>
        /\ Len(rest) = Len(dev.out) - 1
        /\ \A i \in 1 .. Len(rest) : rest[i] = dev.out[i + 1]
    BY <1>1, <1>2, <1>5, RestOf, Zenon
  <2>2. dev' = [dev EXCEPT !.out = rest]
    BY <1>5 DEF Transfer
  <2> HIDE DEF rest
  <2>3. dev' = [phase |-> "reply", req |-> dev.req, out |-> rest]
    BY <1>1, <2>1, <2>2 DEF Devices
  <2> QED
    BY <1>1, <1>2, <1>3, <2>1, <2>3 DEF Devices
<1> QED
  BY <1>4, <1>5

LEMMA TransferTypes ==
  ASSUME TypeOK, Transfer
  PROVE  TypeOK'
<1>1. EditorTypes'
  BY TransferDevice DEF TypeOK, EditorTypes, Transfer, threadVars
<1>2. BoardTypes'
  BY TransferDevice DEF TypeOK, BoardTypes, Transfer, Devices
<1> QED
  BY <1>1, <1>2 DEF TypeOK

LEMMA BreakTypes ==
  ASSUME TypeOK, BusReset \/ Restart \/ Hangup \/ Connect
  PROVE  TypeOK'
<1>1. EditorTypes'
  BY DEF TypeOK, EditorTypes, BusReset, Restart, Hangup, Connect, Disconnect,
         AbortTransmit, threadVars
<1>2. BoardTypes'
  <2>1. CASE BusReset
    <3>1. CASE dev.phase = "receive" /\ file.write
      <4>1. /\ dev.req \in Request /\ file \in Files
        BY <3>1 DEF TypeOK, BoardTypes
      <4>2. Torn(dev.req.job) \in Block
        BY <4>1 DEF Torn, Request, Block
      <4>3. Append(file.data, Torn(dev.req.job)) \in Seq(Block)
        BY <4>1, <4>2, AppendProperties DEF Files
      <4>4. file' \in Files
        BY <2>1, <3>1, <4>1, <4>3 DEF BusReset, Written, Files
      <4> QED
        BY <2>1, <4>4 DEF TypeOK, BoardTypes, BusReset, Idle
    <3>2. CASE ~(dev.phase = "receive" /\ file.write)
      BY <2>1, <3>2 DEF TypeOK, BoardTypes, BusReset, Idle
    <3> QED
      BY <3>1, <3>2
  <2>2. CASE Restart
    BY <2>2 DEF TypeOK, BoardTypes, Restart, Idle
  <2>3. CASE Hangup \/ Connect
    BY <2>3 DEF TypeOK, BoardTypes, Hangup, Connect, boardVars
  <2> QED
    BY <2>1, <2>2, <2>3
<1> QED
  BY <1>1, <1>2 DEF TypeOK

---------------------------------------------------------------------------
(* The answers of the board.                                               *)

\* The packets of the answer to r: one for most requests, a header and the
\* data for a read, a list between a first and a last packet.
Shape(r, out) ==
  /\ out \in Seq(Packets) /\ out # <<>>
  /\ \A i \in 1 .. Len(out) :
       /\ out[i].for = r
       /\ Final(out[i]) => i = Len(out)
       /\ out[i].type = "read" => i = 1 /\ r.op = "read"
       /\ out[i].type = "data" => i = 2 /\ r.op = "read" /\ out[1].type = "read"

\* What the handler of r does to dev.
Handled(r) ==
  /\ dev' \in Devices
  /\ \/ dev'.phase = "reply" /\ Shape(r, dev'.out)
     \/ dev'.phase = "receive" /\ dev'.req = r /\ dev'.out = <<>> /\ file' # None

LEMMA AnswerHandles ==
  ASSUME NEW r \in Request, NEW out, Shape(r, out), Answer(r, out)
  PROVE  Handled(r)
<1>1. dev' = [phase |-> "reply", req |-> r, out |-> out]
  BY DEF Answer
<1>2. out \in Seq(Packets)
  BY DEF Shape
<1>3. dev' \in Devices /\ dev'.phase = "reply" /\ dev'.out = out
  BY <1>1, <1>2 DEF Devices
<1> QED
  BY <1>3, Zenon DEF Handled

LEMMA OnePacket ==
  ASSUME NEW r \in Request, NEW p \in Packets, p.for = r, p.type \in {"result", "info"},
         Answer(r, <<p>>)
  PROVE  Handled(r)
<1>1. <<p>> \in Seq(Packets) /\ <<p>> # <<>> /\ Len(<<p>>) = 1 /\ <<p>>[1] = p
  OBVIOUS
<1>2. Shape(r, <<p>>)
  <2>1. 1 .. Len(<<p>>) = {1}
    BY <1>1
  <2> QED
    BY <1>1, <2>1 DEF Shape
<1> QED
  BY <1>2, AnswerHandles

LEMMA ResultHandles ==
  ASSUME NEW r \in Request, NEW e \in Err, NEW v \in {0, fileRef}, FResult(r, e, v)
  PROVE  Handled(r)
<1>1. Packet("result", r, e, v) \in Packets
  BY PacketTypes
<1>2. Packet("result", r, e, v).for = r /\ Packet("result", r, e, v).type = "result"
  BY DEF Packet
<1> QED
  BY <1>1, <1>2, OnePacket DEF FResult

LEMMA ReadHandles ==
  ASSUME NEW r \in Request, r.op = "read", NEW p \in Packets, NEW d \in Packets,
         p.for = r, p.type = "read", d.for = r, d.type = "data",
         Answer(r, <<p, d>>)
  PROVE  Handled(r)
<1>1. /\ <<p, d>> \in Seq(Packets) /\ <<p, d>> # <<>>
      /\ Len(<<p, d>>) = 2 /\ <<p, d>>[1] = p /\ <<p, d>>[2] = d
  OBVIOUS
<1>2. Shape(r, <<p, d>>)
  <2>1. 1 .. Len(<<p, d>>) = {1, 2}
    BY <1>1
  <2>2. ~Final(p)
    BY DEF Final
  <2> QED
    BY <1>1, <2>1, <2>2 DEF Shape
<1> QED
  BY <1>2, AnswerHandles

LEMMA SizeType ==
  ASSUME TypeOK, NEW x \in Path
  PROVE  Size(x) \in Int
<1>1. card[x] \in Seq(Block) \cup {None}
  BY DEF TypeOK, BoardTypes
<1>2. card[x] \in Seq(Block) => Len(card[x]) \in Int
  BY LenProperties
<1> QED
  BY <1>1, <1>2 DEF Size

LEMMA HandledTypes ==
  ASSUME TypeOK, NEW r \in Request, Handled(r),
         file' \in Files \cup {None},
         card' \in [Path -> Seq(Block) \cup {None}],
         closed' \in [job : Nat, data : Seq(Block)]
  PROVE  BoardTypes'
<1>1. dev'.phase = "reply" <=> dev'.out # <<>>
  BY DEF Handled, Shape
<1>2. dev'.phase = "receive" => dev'.req \in Request /\ file' # None
  BY DEF Handled
<1> QED
  BY <1>1, <1>2 DEF Handled, BoardTypes, Devices

LEMMA OpenedType ==
  ASSUME NEW r \in Request, NEW w \in BOOLEAN, NEW d \in Seq(Block)
  PROVE  Opened(r, w, d) \in Files
  BY DEF Opened, Files, Request

LEMMA OpenHandles ==
  ASSUME TypeOK, NEW r \in Request, RcvFOpen(r)
  PROVE  Handled(r) /\ BoardTypes'
<1>1. Handled(r) /\ file' \in Files \cup {None}
  <2>1. CASE file # None /\ FResult(r, "busy", 0) /\ UNCHANGED file
    <3>1. "busy" \in Err /\ 0 \in {0, fileRef}
      BY DEF Err
    <3> QED
      BY <2>1, <3>1, ResultHandles DEF TypeOK, BoardTypes
  <2>2. ASSUME NEW e \in FsErr,
               LET err == IF card[r.name] = None THEN "missing" ELSE e
               IN  /\ file' = IF err = "ok" THEN Opened(r, FALSE, card[r.name]) ELSE None
                   /\ FResult(r, err, fileRef)
        PROVE  Handled(r) /\ file' \in Files \cup {None}
    <3> DEFINE err == IF card[r.name] = None THEN "missing" ELSE e
    <3>1. err \in Err /\ fileRef \in {0, fileRef}
      BY DEF Err, FsErr
    <3>2. Handled(r)
      BY <2>2, <3>1, ResultHandles
    <3>3. err = "ok" => card[r.name] \in Seq(Block)
      BY DEF TypeOK, BoardTypes, Request
    <3>4. err = "ok" => Opened(r, FALSE, card[r.name]) \in Files
      BY <3>3, OpenedType
    <3> QED
      BY <2>2, <3>2, <3>4
  <2> QED
    BY <2>1, <2>2 DEF RcvFOpen
<1> QED
  BY <1>1, HandledTypes DEF RcvFOpen, TypeOK, BoardTypes

LEMMA OpenWriteHandles ==
  ASSUME TypeOK, NEW r \in Request, RcvFOpenWrite(r)
  PROVE  Handled(r) /\ BoardTypes'
<1>1. Handled(r) /\ file' \in Files \cup {None} /\ card' \in [Path -> Seq(Block) \cup {None}]
  <2>1. CASE file # None /\ FResult(r, "busy", 0) /\ UNCHANGED <<file, card>>
    <3>1. "busy" \in Err /\ 0 \in {0, fileRef}
      BY DEF Err
    <3> QED
      BY <2>1, <3>1, ResultHandles DEF TypeOK, BoardTypes
  <2>2. ASSUME NEW e \in FsErr,
               LET err == IF r.name \in Nested /\ card[Dir] = None THEN "missing" ELSE e
               IN  /\ file' = IF err = "ok" THEN Opened(r, TRUE, <<>>) ELSE None
                   /\ card' = IF err = "ok" THEN [card EXCEPT ![r.name] = <<>>] ELSE card
                   /\ FResult(r, err, fileRef)
        PROVE  /\ Handled(r) /\ file' \in Files \cup {None}
               /\ card' \in [Path -> Seq(Block) \cup {None}]
    <3> DEFINE err == IF r.name \in Nested /\ card[Dir] = None THEN "missing" ELSE e
    <3>1. err \in Err /\ fileRef \in {0, fileRef}
      BY DEF Err, FsErr
    <3>2. Handled(r)
      BY <2>2, <3>1, ResultHandles
    <3>3. Opened(r, TRUE, <<>>) \in Files
      <4>1. <<>> \in Seq(Block) /\ TRUE \in BOOLEAN
        OBVIOUS
      <4> QED
        BY <4>1, OpenedType
    <3>4. card' \in [Path -> Seq(Block) \cup {None}]
      <4>1. r.name \in Path /\ <<>> \in Seq(Block)
        BY DEF Request
      <4>2. \/ card' = card
            \/ card' = [card EXCEPT ![r.name] = <<>>]
        BY <2>2
      <4> QED
        BY <4>1, <4>2 DEF TypeOK, BoardTypes
    <3> QED
      BY <2>2, <3>2, <3>3, <3>4
  <2> QED
    BY <2>1, <2>2 DEF RcvFOpenWrite
<1> QED
  BY <1>1, HandledTypes DEF RcvFOpenWrite, TypeOK, BoardTypes

LEMMA CloseHandles ==
  ASSUME TypeOK, NEW r \in Request, RcvFClose(r)
  PROVE  Handled(r) /\ BoardTypes'
<1>1. CASE FResult(r, "param", 0) /\ UNCHANGED <<file, card, closed>>
  <2>1. "param" \in Err /\ 0 \in {0, fileRef}
    BY DEF Err
  <2>2. Handled(r)
    BY <1>1, <2>1, ResultHandles
  <2> QED
    BY <1>1, <2>2, HandledTypes DEF TypeOK, BoardTypes
<1>2. ASSUME IsOpen(r), Release, NEW e \in FsErr, FResult(r, e, 0),
             card' = IF e = "ok" /\ file.write /\ card[file.name] # None
                     THEN [card EXCEPT ![file.name] = file.data] ELSE card
      PROVE  Handled(r) /\ BoardTypes'
  <2>1. e \in Err /\ 0 \in {0, fileRef}
    BY DEF Err, FsErr
  <2>2. Handled(r)
    BY <1>2, <2>1, ResultHandles
  <2>3. file \in Files
    BY <1>2 DEF TypeOK, BoardTypes, IsOpen
  <2>4. card' \in [Path -> Seq(Block) \cup {None}]
    BY <1>2, <2>3 DEF TypeOK, BoardTypes, Files
  <2>5. closed' \in [job : Nat, data : Seq(Block)] /\ file' = None
    BY <1>2, <2>3 DEF Release, Files
  <2> QED
    BY <2>2, <2>4, <2>5, HandledTypes
<1> QED
  BY <1>1, <1>2 DEF RcvFClose

LEMMA ReadIsHandled ==
  ASSUME TypeOK, NEW r \in Request, RcvFRead(r)
  PROVE  Handled(r) /\ BoardTypes'
<1>0. \A e \in Err, v \in {0, 1}, d \in {Data(r, 0, None)} \cup {Data(r, 1, b) : b \in Block} :
        Answer(r, <<Packet("read", r, e, v), d>>) => Handled(r)
  <2> SUFFICES ASSUME NEW e \in Err, NEW v \in {0, 1},
                      NEW d \in {Data(r, 0, None)} \cup {Data(r, 1, b) : b \in Block},
                      Answer(r, <<Packet("read", r, e, v), d>>)
               PROVE  Handled(r)
    OBVIOUS
  <2>1. d \in Packets /\ d.for = r /\ d.type = "data"
    <3>1. "ok" \in Err
      BY DEF Err
    <3>2. CASE d = Data(r, 0, None)
      <4>1. d \in Packets
        BY <3>1, <3>2, PacketTypes
      <4> QED
        BY <3>2, <4>1 DEF Data
    <3>3. ASSUME NEW b \in Block, d = Data(r, 1, b)
          PROVE  d \in Packets /\ d.for = r /\ d.type = "data"
      <4>1. d \in Packets
        BY <3>1, <3>3, PacketTypes
      <4> QED
        BY <3>3, <4>1 DEF Data
    <3> QED
      BY <3>2, <3>3
  <2>2. Packet("read", r, e, v) \in Packets
    BY PacketTypes
  <2>3. Packet("read", r, e, v).for = r /\ Packet("read", r, e, v).type = "read"
    BY DEF Packet
  <2> QED
    BY <2>1, <2>2, <2>3, ReadHandles DEF RcvFRead
<1>1. "ok" \in Err /\ "disk" \in Err /\ "param" \in Err
  BY DEF Err
<1>2. Handled(r) /\ file' \in Files \cup {None}
  <2>1. CASE /\ Readable(r)
             /\ Answer(r, <<Packet("read", r, "ok", 1), Data(r, 1, file.data[file.pos + 1])>>)
             /\ file' = [file EXCEPT !.pos = @ + 1]
    <3>1. file \in Files
      BY <2>1 DEF Readable, IsOpen, TypeOK, BoardTypes
    <3>2. file.data[file.pos + 1] \in Block
      <4>1. file.data \in Seq(Block) /\ file.pos \in Nat /\ file.pos < Len(file.data)
        BY <2>1, <3>1 DEF Readable, Files
      <4>2. PICK n \in Nat : n = Len(file.data)
        BY <4>1, LenProperties
      <4>3. file.pos + 1 \in 1 .. n
        BY <4>1, <4>2
      <4> QED
        BY <4>1, <4>2, <4>3, ElementOfSeq
    <3>3. file' \in Files
      BY <2>1, <3>1 DEF Files
    <3> QED
      BY <1>0, <1>1, <2>1, <3>2, <3>3
  <2>2. CASE /\ UNCHANGED file
             /\ \/ Answer(r, <<Packet("read", r, "disk", 0), Data(r, 0, None)>>)
                \/ Answer(r, <<Packet("read", r, "param", 0), Data(r, 0, None)>>)
    BY <1>0, <1>1, <2>2 DEF TypeOK, BoardTypes
  <2> QED
    BY <2>1, <2>2 DEF RcvFRead
<1> QED
  BY <1>2, HandledTypes DEF RcvFRead, TypeOK, BoardTypes

LEMMA WriteHandles ==
  ASSUME TypeOK, NEW r \in Request, RcvFWrite(r)
  PROVE  Handled(r) /\ BoardTypes'
<1>1. CASE IsOpen(r)
  <2>1. dev' = [phase |-> "receive", req |-> r, out |-> <<>>] /\ file' # None
    BY <1>1 DEF RcvFWrite, IsOpen
  <2>2. Handled(r)
    BY <2>1 DEF Handled, Devices
  <2> QED
    BY <2>2, HandledTypes DEF RcvFWrite, TypeOK, BoardTypes
<1>2. CASE ~IsOpen(r)
  <2>1. "param" \in Err /\ 0 \in {0, fileRef}
    BY DEF Err
  <2>2. Handled(r)
    BY <1>2, <2>1, ResultHandles DEF RcvFWrite
  <2> QED
    BY <2>2, HandledTypes DEF RcvFWrite, TypeOK, BoardTypes
<1> QED
  BY <1>1, <1>2

LEMMA GetInfoHandles ==
  ASSUME TypeOK, NEW r \in Request, RcvFGetInfo(r)
  PROVE  Handled(r) /\ BoardTypes'
<1>1. PICK e \in Err, v \in Int : Answer(r, <<Packet("info", r, e, v)>>)
  <2>1. PICK e \in FsErr :
          Answer(r, <<Packet("info", r, e, IF e = "ok" THEN Size(r.name) ELSE -1)>>)
    BY DEF RcvFGetInfo
  <2>2. e \in Err /\ r.name \in Path
    BY DEF FsErr, Err, Request
  <2>3. (IF e = "ok" THEN Size(r.name) ELSE -1) \in Int
    BY <2>2, SizeType
  <2> QED
    BY <2>1, <2>2, <2>3
<1> DEFINE p == Packet("info", r, e, v)
<1>2. p \in Packets
  BY PacketTypes
<1>3. p.for = r /\ p.type = "info"
  BY DEF Packet
<1> HIDE DEF p
<1>4. Handled(r)
  BY <1>1, <1>2, <1>3, OnePacket DEF p
<1> QED
  BY <1>4, HandledTypes DEF RcvFGetInfo, TypeOK, BoardTypes

\* A list of any length, from its first packet to its last.
LEMMA ListHandles ==
  ASSUME TypeOK, NEW r \in Request, r.op = "dirlist", NEW e \in Err,
         NEW n \in Nat, NEW entry \in [1 .. n -> Path],
         Answer(r, [i \in 1 .. n + 2 |->
                      IF i = 1 THEN Packet("dir", r, "ok", 0)
                      ELSE IF i = n + 2 THEN Packet("end", r, e, 0)
                      ELSE Packet("info", r, "ok", Size(entry[i - 1]))])
  PROVE  Handled(r)
<1> DEFINE at_(i) == IF i = 1 THEN Packet("dir", r, "ok", 0)
                     ELSE IF i = n + 2 THEN Packet("end", r, e, 0)
                     ELSE Packet("info", r, "ok", Size(entry[i - 1]))
           out == [i \in 1 .. n + 2 |-> at_(i)]
<1>0. "ok" \in Err
  BY DEF Err
<1>1. \A i \in 1 .. n + 2 :
        /\ at_(i) \in Packets
        /\ at_(i).for = r
        /\ at_(i).type \in {"dir", "info", "end"}
        /\ at_(i).type = "end" => i = n + 2
  <2> SUFFICES ASSUME NEW i \in 1 .. n + 2
               PROVE  /\ at_(i) \in Packets
                      /\ at_(i).for = r
                      /\ at_(i).type \in {"dir", "info", "end"}
                      /\ at_(i).type = "end" => i = n + 2
    OBVIOUS
  <2>1. CASE i = 1
    <3>1. at_(i) = Packet("dir", r, "ok", 0)
      BY <2>1
    <3> QED
      BY <1>0, <3>1, PacketTypes DEF Packet
  <2>2. CASE i # 1 /\ i = n + 2
    <3>1. at_(i) = Packet("end", r, e, 0)
      BY <2>2
    <3> QED
      BY <2>2, <3>1, PacketTypes DEF Packet
  <2>3. CASE i # 1 /\ i # n + 2
    <3>1. at_(i) = Packet("info", r, "ok", Size(entry[i - 1]))
      BY <2>3
    <3>2. i - 1 \in 1 .. n
      BY <2>3
    <3>3. Size(entry[i - 1]) \in Int
      BY <3>2, SizeType
    <3> HIDE DEF at_
    <3>4. at_(i) \in Packets
      BY <1>0, <3>1, <3>3, PacketTypes
    <3>5. at_(i).for = r /\ at_(i).type = "info"
      BY <3>1 DEF Packet
    <3> QED
      BY <3>4, <3>5
  <2> QED
    BY <2>1, <2>2, <2>3
<1> HIDE DEF at_
<1>2. out \in Seq(Packets) /\ Len(out) = n + 2 /\ \A i \in 1 .. n + 2 : out[i] = at_(i)
  <2>1. out \in Seq(Packets)
    BY <1>1
  <2>2. Len(out) = n + 2
    OBVIOUS
  <2> QED
    BY <2>1, <2>2
<1>3. out # <<>>
  <2>1. n + 2 # 0
    OBVIOUS
  <2> QED
    BY <1>2, <2>1, EmptySeq, Zenon
<1>4. Answer(r, out)
  BY DEF at_
<1> HIDE DEF out
<1>5. Shape(r, out)
  <2>1. \A i \in 1 .. n + 2 :
          /\ out[i].for = r
          /\ Final(out[i]) => i = n + 2
          /\ out[i].type # "read" /\ out[i].type # "data"
    BY <1>1, <1>2 DEF Final
  <2> QED
    BY <1>2, <1>3, <2>1 DEF Shape
<1> QED
  BY <1>4, <1>5, AnswerHandles

LEMMA DirlistHandles ==
  ASSUME TypeOK, NEW r \in Request, RcvFDirlist(r)
  PROVE  Handled(r) /\ BoardTypes'
<1>1. PICK e \in FsErr, listed \in SUBSET {x \in Names : card[x] # None} :
        \E entry \in [1 .. Cardinality(listed) -> listed] :
          Answer(r, [i \in 1 .. Cardinality(listed) + 2 |->
                       IF i = 1 THEN Packet("dir", r, "ok", 0)
                       ELSE IF i = Cardinality(listed) + 2 THEN Packet("end", r, e, 0)
                       ELSE Packet("info", r, "ok", Size(entry[i - 1]))])
  BY DEF RcvFDirlist
<1>2. listed \subseteq Names /\ listed \subseteq Path
  BY DEF Path
<1>3. PICK n \in Nat : n = Cardinality(listed)
  BY <1>2, TransferAssumption, FS_Subset, FS_CardinalityType
<1>4. PICK entry \in [1 .. n -> listed] :
        Answer(r, [i \in 1 .. n + 2 |->
                     IF i = 1 THEN Packet("dir", r, "ok", 0)
                     ELSE IF i = n + 2 THEN Packet("end", r, e, 0)
                     ELSE Packet("info", r, "ok", Size(entry[i - 1]))])
  BY <1>1, <1>3, Zenon
<1>5. entry \in [1 .. n -> Path] /\ e \in Err /\ r.op = "dirlist"
  BY <1>2 DEF RcvFDirlist, FsErr, Err
<1>6. Handled(r)
  BY <1>4, <1>5, ListHandles
<1> QED
  BY <1>6, HandledTypes DEF RcvFDirlist, TypeOK, BoardTypes

\* The handlers that only change the card.
LEMMA CardHandles ==
  ASSUME TypeOK, NEW r \in Request, RcvFSetInfo(r) \/ RcvFDelete(r) \/ RcvFMkdir(r)
  PROVE  Handled(r) /\ BoardTypes'
<1>1. \E err \in Err : FResult(r, err, 0)
  BY DEF RcvFSetInfo, RcvFDelete, RcvFMkdir, FsErr, Err
<1>2. Handled(r)
  <2>1. 0 \in {0, fileRef}
    OBVIOUS
  <2> QED
    BY <1>1, <2>1, ResultHandles
<1>3. card' \in [Path -> Seq(Block) \cup {None}]
  <2>1. <<>> \in Seq(Block)
    OBVIOUS
  <2>2. card' = card \/ \E x \in Path, v \in {None, <<>>} : card' = [card EXCEPT ![x] = v]
    BY DEF RcvFSetInfo, RcvFDelete, RcvFMkdir, Path, Request
  <2> QED
    BY <2>1, <2>2 DEF TypeOK, BoardTypes
<1>4. UNCHANGED <<file, closed>>
  BY DEF RcvFSetInfo, RcvFDelete, RcvFMkdir
<1> QED
  BY <1>2, <1>3, <1>4, HandledTypes DEF TypeOK, BoardTypes

LEMMA DispatchHandles ==
  ASSUME TypeOK, NEW r \in Request, Dispatch(r)
  PROVE  Handled(r) /\ BoardTypes'
BY OpenHandles, OpenWriteHandles, CloseHandles, ReadIsHandled, WriteHandles, GetInfoHandles,
   DirlistHandles, CardHandles DEF Dispatch

LEMMA TakeTypes ==
  ASSUME TypeOK, Requests, NEW t \in Thread, Take(t)
  PROVE  TypeOK'
<1>1. Req(t) \in Request
  BY ReqType DEF Take, Requests
<1>2. BoardTypes'
  BY <1>1, DispatchHandles DEF Take
<1>3. EditorTypes'
  BY DEF TypeOK, EditorTypes, Take, threadVars, hostVars
<1> QED
  BY <1>2, <1>3 DEF TypeOK

\* The handler of a write, with its block.
LEMMA RestHandles ==
  ASSUME TypeOK, ReceiveRest
  PROVE  /\ dev.req \in Request
         /\ Handled(dev.req)
         /\ file' \in Files
<1>1. dev.req \in Request /\ file \in Files
  BY DEF TypeOK, BoardTypes, ReceiveRest
<1>2. \E e \in Err : FResult(dev.req, e, 0)
  <2>1. "ok" \in Err /\ "denied" \in Err /\ "disk" \in Err
    BY DEF Err
  <2> QED
    BY <2>1 DEF ReceiveRest
<1>3. Handled(dev.req)
  <2>1. 0 \in {0, fileRef}
    OBVIOUS
  <2> QED
    BY <1>1, <1>2, <2>1, ResultHandles
<1>4. file' \in Files
  <2>1. [job |-> dev.req.job, n |-> dev.req.n] \in Block
    BY <1>1 DEF Request, Block
  <2> DEFINE data == Append(file.data, [job |-> dev.req.job, n |-> dev.req.n])
  <2>2. data \in Seq(Block)
    BY <1>1, <2>1, AppendProperties DEF Files
  <2>3. file' = file \/ file' = [file EXCEPT !.data = data]
    BY DEF ReceiveRest, Written
  <2> HIDE DEF data
  <2>4. [file EXCEPT !.data = data] \in Files
    BY <1>1, <2>2 DEF Files
  <2> QED
    BY <1>1, <2>3, <2>4
<1> QED
  BY <1>1, <1>3, <1>4

LEMMA ReceiveRestTypes ==
  ASSUME TypeOK, ReceiveRest
  PROVE  TypeOK'
<1>1. BoardTypes'
  BY RestHandles, HandledTypes DEF TypeOK, BoardTypes, ReceiveRest
<1>2. EditorTypes'
  BY DEF TypeOK, EditorTypes, ReceiveRest, threadVars, hostVars
<1> QED
  BY <1>1, <1>2 DEF TypeOK

\* What the Receiver does with a packet, and what it is completed with.
LEMMA ProcessParts ==
  ASSUME TypeOK, ProcessPacket
  PROVE  /\ inbox \in Packets
         /\ consumer # None => consumer \in Consumers
         /\ \/ /\ consumer # None /\ Continues(consumer, inbox)
               /\ consumer' \in Consumers
               /\ consumer'.req = consumer.req /\ consumer'.st = 1
               /\ consumer'.from = consumer.from \cup {inbox.for}
               /\ inbox.type = "read" => consumer'.len = inbox.val
               /\ UNCHANGED <<result, link>>
            \/ /\ consumer # None /\ Completes(consumer, inbox)
               /\ consumer' \in Consumers
               /\ consumer'.req = consumer.req
               /\ consumer'.from = consumer.from \cup {inbox.for}
               /\ UNCHANGED link
            \/ consumer # None /\ Underflow(consumer, inbox) /\ UNCHANGED <<result, consumer>>
            \/ /\ consumer # None => ~(Continues(consumer, inbox) \/ Completes(consumer, inbox))
               /\ UNCHANGED <<result, consumer, link>>
<1>1. inbox \in Packets /\ inbox.for \in Request
  BY PacketParts DEF TypeOK, EditorTypes, ProcessPacket
<1>2. consumer # None => consumer \in Consumers
  BY DEF TypeOK, EditorTypes
<1>3. CASE /\ consumer # None
           /\ Continues(consumer, inbox)
           /\ consumer' = [consumer EXCEPT !.st = 1, !.from = @ \cup {inbox.for},
                                           !.len = IF inbox.type = "read" THEN inbox.val ELSE @]
           /\ UNCHANGED <<result, link>>
  <2>1. consumer \in Consumers
    BY <1>2, <1>3
  <2> DEFINE l == IF inbox.type = "read" THEN inbox.val ELSE consumer.len
             f == consumer.from \cup {inbox.for}
  <2>2. l \in {0, 1} /\ f \in SUBSET Request
    BY <1>1, <2>1, PacketParts DEF Consumers
  <2>3. consumer' = [consumer EXCEPT !.st = 1, !.from = f, !.len = l]
    BY <1>3
  <2>4. inbox.type = "read" => l = inbox.val
    OBVIOUS
  <2> HIDE DEF l, f
  <2>5. consumer' = [req |-> consumer.req, st |-> 1, len |-> l, from |-> f]
    BY <2>1, <2>3 DEF Consumers
  <2>6. consumer' \in Consumers /\ consumer'.req = consumer.req /\ consumer'.st = 1
        /\ consumer'.from = f /\ consumer'.len = l
    BY <2>1, <2>2, <2>5 DEF Consumers
  <2> QED
    BY <1>1, <1>2, <1>3, <2>4, <2>6 DEF f
<1>4. CASE /\ consumer # None
           /\ Completes(consumer, inbox)
           /\ consumer' = [consumer EXCEPT !.st = 2, !.from = @ \cup {inbox.for}]
           /\ UNCHANGED link
  <2>1. consumer \in Consumers
    BY <1>2, <1>4
  <2> DEFINE f == consumer.from \cup {inbox.for}
  <2>2. f \in SUBSET Request
    BY <1>1, <2>1 DEF Consumers
  <2>3. consumer' = [consumer EXCEPT !.st = 2, !.from = f]
    BY <1>4
  <2> HIDE DEF f
  <2>4. consumer' = [req |-> consumer.req, st |-> 2, len |-> consumer.len, from |-> f]
    BY <2>1, <2>3 DEF Consumers
  <2>5. consumer' \in Consumers /\ consumer'.req = consumer.req /\ consumer'.from = f
    BY <2>1, <2>2, <2>4 DEF Consumers
  <2> QED
    BY <1>1, <1>2, <1>4, <2>5 DEF f
<1>5. CASE consumer # None /\ Underflow(consumer, inbox) /\ UNCHANGED <<result, consumer>>
  BY <1>1, <1>2, <1>5
<1>6. CASE /\ consumer # None => ~(Continues(consumer, inbox) \/ Completes(consumer, inbox))
           /\ UNCHANGED <<result, consumer, link>>
  BY <1>1, <1>2, <1>6
<1> QED
  BY <1>3, <1>4, <1>5, <1>6 DEF ProcessPacket

\* The result of a thread, if the packet gives it one.
LEMMA ProcessResult ==
  ASSUME TypeOK, Monitor, ProcessPacket, NEW t \in Thread, result'[t] # result[t]
  PROVE  /\ lock = t /\ result[t] = None /\ Req(t) = consumer.req
         /\ consumer # None /\ Completes(consumer, inbox)
         /\ result'[t] = [err |-> inbox.err, val |-> inbox.val, block |-> inbox.block,
                          from |-> consumer.from \cup {inbox.for}]
<1>1. /\ consumer # None /\ Completes(consumer, inbox)
      /\ result' = [u \in Thread |->
                      IF phase[u] \in {"transmit", "wait"} /\ result[u] = None /\ Req(u) = consumer.req
                      THEN [err |-> inbox.err, val |-> inbox.val, block |-> inbox.block,
                            from |-> consumer.from \cup {inbox.for}]
                      ELSE result[u]]
  BY DEF ProcessPacket
<1>2. /\ phase[t] \in {"transmit", "wait"} /\ result[t] = None /\ Req(t) = consumer.req
      /\ result'[t] = [err |-> inbox.err, val |-> inbox.val, block |-> inbox.block,
                       from |-> consumer.from \cup {inbox.for}]
  BY <1>1
<1> QED
  BY <1>1, <1>2 DEF Monitor

LEMMA ProcessTypes ==
  ASSUME TypeOK, Monitor, ProcessPacket
  PROVE  TypeOK'
<1>1. result' \in [Thread -> Results \cup {None}]
  <2>1. DOMAIN result' = Thread /\ result' = [t \in Thread |-> result'[t]]
    BY DEF ProcessPacket, TypeOK, EditorTypes
  <2>2. ASSUME NEW t \in Thread
        PROVE  result'[t] \in Results \cup {None}
    <3>1. CASE result'[t] = result[t]
      BY <3>1 DEF TypeOK, EditorTypes
    <3>2. CASE result'[t] # result[t]
      <4>1. /\ inbox \in Packets /\ consumer \in Consumers
            /\ result'[t] = [err |-> inbox.err, val |-> inbox.val, block |-> inbox.block,
                             from |-> consumer.from \cup {inbox.for}]
        BY <3>2, ProcessParts, ProcessResult
      <4>2. /\ inbox.err \in Err /\ inbox.val \in Int /\ inbox.block \in Block \cup {None}
            /\ inbox.for \in Request
        BY <4>1, PacketParts
      <4>3. consumer.from \cup {inbox.for} \in SUBSET Request
        BY <4>1, <4>2 DEF Consumers
      <4> QED
        BY <4>1, <4>2, <4>3 DEF Results
    <3> QED
      BY <3>1, <3>2
  <2> QED
    BY <2>1, <2>2
<1>2. consumer' \in Consumers \cup {None}
  BY ProcessParts DEF TypeOK, EditorTypes
<1>3. EditorTypes'
  BY <1>1, <1>2 DEF TypeOK, EditorTypes, ProcessPacket, threadVars
<1>4. BoardTypes'
  BY DEF TypeOK, BoardTypes, ProcessPacket, boardVars
<1> QED
  BY <1>3, <1>4 DEF TypeOK

---------------------------------------------------------------------------
(* The requests and the monitor, action by action.                         *)

LEMMA NoneIsNoThread == None \notin Thread
  BY TransferAssumption DEF Thread

LEMMA InitBase ==
  ASSUME Init
  PROVE  Base
<1>1. Requests
  BY DEF Init, Requests
<1>2. Monitor
  BY NoneIsNoThread DEF Init, Monitor
<1> QED
  BY <1>1, <1>2, InitTypes DEF Base

LEMMA StartBase ==
  ASSUME Base, NEW t \in Thread, Start(t)
  PROVE  Requests' /\ Monitor'
<1>1. /\ at'[t].op \in Op
      /\ \A u \in Thread : u # t => at'[u] = at[u] /\ job'[u] = job[u]
  BY StartTypes DEF Base
<1>2. lock # t /\ result[t] = None
  BY DEF Base, Monitor, Start
<1>3. /\ phase'[t] = "ready"
      /\ \A u \in Thread : u # t => phase'[u] = phase[u]
  BY DEF Base, TypeOK, EditorTypes, Start
<1>4. Requests'
  BY <1>1, <1>2, <1>3 DEF Base, Requests, Start
<1>5. \A u \in Thread : u # t => Req(u)' = Req(u)
  BY <1>1 DEF Req, Target, Start
<1>6. Monitor'
  BY <1>2, <1>3, <1>5 DEF Base, Monitor, Start, hostVars
<1> QED
  BY <1>4, <1>6

\* The thread that gives up has the monitor, or nobody has it.
LEMMA GiveUpBase ==
  ASSUME Base, NEW t \in Thread, GiveUp(t), lock \in {t, None}, UNCHANGED job
  PROVE  Requests' /\ Monitor'
<1>1. /\ phase'[t] = "failed" /\ result'[t] = None /\ lock' = None
      /\ \A u \in Thread : u # t => phase'[u] = phase[u] /\ at'[u] = at[u] /\ result'[u] = result[u]
  BY DEF Base, TypeOK, EditorTypes, GiveUp
<1>2. Requests'
  BY <1>1 DEF Base, Requests
<1>3. \A u \in Thread : u # t => result[u] = None /\ phase[u] \notin {"transmit", "wait"}
  BY NoneIsNoThread DEF Base, Monitor
<1>4. Monitor'
  BY <1>1, <1>3, NoneIsNoThread DEF Monitor
<1> QED
  BY <1>2, <1>4

LEMMA PrepareBase ==
  ASSUME Base, NEW t \in Thread, Prepare(t)
  PROVE  Requests' /\ Monitor'
<1>1. CASE link = "down"
  BY <1>1, GiveUpBase DEF Prepare
<1>2. CASE link # "down"
  <2>1. /\ lock = None /\ lock' = t /\ UNCHANGED <<job, at, ref, result>>
        /\ phase'[t] = "transmit"
        /\ \A u \in Thread : u # t => phase'[u] = phase[u]
        /\ consumer' = [req |-> Req(t), st |-> 0, len |-> 0, from |-> {}]
    BY <1>2 DEF Base, TypeOK, EditorTypes, Prepare
  <2>2. Requests'
    BY <2>1 DEF Base, Requests, Prepare
  <2>3. Req(t)' = Req(t)
    BY <2>1, SameRequests
  <2>4. \A u \in Thread : result[u] = None /\ phase[u] \notin {"transmit", "wait"}
    BY <2>1, NoneIsNoThread DEF Base, Monitor
  <2>5. Monitor'
    BY <2>1, <2>3, <2>4 DEF Monitor
  <2> QED
    BY <2>2, <2>5
<1> QED
  BY <1>1, <1>2

\* Steps that leave the requests and who has the monitor.
LEMMA SameHoldersBase ==
  ASSUME Base, UNCHANGED <<job, at, ref, lock>>,
         \A t \in Thread : phase'[t] # phase[t] => phase[t] = "transmit" /\ phase'[t] = "wait",
         consumer' = None \/ consumer' = consumer
           \/ (consumer # None /\ consumer'.req = consumer.req),
         \A t \in Thread : result'[t] # result[t] => lock = t,
         Requests'
  PROVE  Monitor'
<1>1. \A t \in Thread : Req(t)' = Req(t)
  BY SameRequests
<1>2. \A t \in Thread : phase'[t] \in {"transmit", "wait"} <=> phase[t] \in {"transmit", "wait"}
  OBVIOUS
<1> QED
  BY <1>1, <1>2 DEF Base, Monitor

LEMMA TakeBase ==
  ASSUME Base, NEW t \in Thread, Take(t)
  PROVE  Requests' /\ Monitor'
<1>1. \A u \in Thread : phase'[u] # phase[u] => phase[u] = "transmit" /\ phase'[u] = "wait"
  BY DEF Base, TypeOK, EditorTypes, Take
<1>2. Requests'
  BY <1>1 DEF Base, Requests, Take, threadVars
<1> QED
  BY <1>1, <1>2, SameHoldersBase DEF Take, threadVars, hostVars

LEMMA ReceiveRestBase ==
  ASSUME Base, ReceiveRest
  PROVE  Requests' /\ Monitor'
<1>1. \A u \in Thread : phase'[u] # phase[u] => phase[u] = "transmit" /\ phase'[u] = "wait"
  BY DEF Base, TypeOK, EditorTypes, ReceiveRest
<1>2. Requests'
  BY <1>1 DEF Base, Requests, ReceiveRest, threadVars
<1> QED
  BY <1>1, <1>2, SameHoldersBase DEF ReceiveRest, threadVars, hostVars

LEMMA ReturnBase ==
  ASSUME Base, NEW t \in Thread, Return(t)
  PROVE  Requests' /\ Monitor'
<1>1. /\ phase'[t] = "ready" => at'[t].op \in Op
      /\ \A u \in Thread : u # t => at'[u] = at[u] /\ phase'[u] = phase[u]
      /\ result' = [result EXCEPT ![t] = None]
      /\ phase'[t] \in {"ready", "done", "failed"}
  BY ReturnTypes DEF Base
<1>2. lock = t /\ lock' = None
  BY DEF Base, Monitor, Return, GiveUp
<1>3. \A u \in Thread : u # t => result[u] = None /\ phase[u] \notin {"transmit", "wait"}
  BY <1>2 DEF Base, Monitor
<1>4. \A u \in Thread : result'[u] = None
  BY <1>1, <1>3 DEF Base, TypeOK, EditorTypes
<1>5. Requests'
  BY <1>1, <1>4 DEF Base, Requests
<1>6. Monitor'
  BY <1>1, <1>2, <1>3, <1>4, NoneIsNoThread DEF Monitor
<1> QED
  BY <1>5, <1>6

LEMMA TimeoutBase ==
  ASSUME Base, NEW t \in Thread, Timeout(t) \/ TransmitTimeout(t)
  PROVE  Requests' /\ Monitor'
<1>1. lock = t
  BY DEF Base, Monitor, Timeout, TransmitTimeout
<1> QED
  BY <1>1, GiveUpBase DEF Timeout, TransmitTimeout

LEMMA ProcessBase ==
  ASSUME Base, ProcessPacket
  PROVE  Requests' /\ Monitor'
<1>1. \A t \in Thread : result'[t] # result[t] => lock = t
  BY ProcessResult DEF Base
<1>2. Requests'
  <2> SUFFICES ASSUME NEW t \in Thread, result'[t] # None
               PROVE  /\ at[t].op \in ResultOp => result'[t].val \in {0, fileRef}
                      /\ at[t].op = "read" /\ result'[t].val = 1 => result'[t].block \in Block
    BY DEF Base, Requests, ProcessPacket, threadVars
  <2>1. CASE result'[t] = result[t]
    BY <2>1 DEF Base, Requests
  <2>2. CASE result'[t] # result[t]
    <3>1. /\ Req(t) = consumer.req /\ Completes(consumer, inbox)
          /\ result'[t].val = inbox.val /\ result'[t].block = inbox.block
      BY <2>2, ProcessResult DEF Base
    <3>2. consumer.req.op = at[t].op
      BY <3>1 DEF Req
    <3>3. inbox \in Packets
      BY ProcessParts DEF Base
    <3>4. /\ at[t].op \in ResultOp => inbox.type = "result"
          /\ at[t].op = "read" => inbox.type = "data"
      BY <3>1, <3>2 DEF Completes, ResultOp
    <3> QED
      BY <3>1, <3>3, <3>4, PacketParts
  <2> QED
    BY <2>1, <2>2
<1>3. \/ consumer' = None \/ consumer' = consumer
      \/ (consumer # None /\ consumer'.req = consumer.req)
  BY ProcessParts DEF Base
<1> QED
  BY <1>1, <1>2, <1>3, SameHoldersBase DEF ProcessPacket, threadVars

LEMMA BreakBase ==
  ASSUME Base, Transfer \/ BusReset \/ Restart \/ Hangup \/ Connect
  PROVE  Requests' /\ Monitor'
<1>1. \A u \in Thread : phase'[u] # phase[u] => phase[u] = "transmit" /\ phase'[u] = "wait"
  BY DEF Base, TypeOK, EditorTypes, Transfer, BusReset, Restart, Hangup, Connect, AbortTransmit
<1>2. UNCHANGED <<job, at, ref, lock, result>>
  BY DEF Transfer, BusReset, Restart, Hangup, Connect, threadVars
<1>3. Requests'
  BY <1>1, <1>2 DEF Base, Requests
<1>4. consumer' = None \/ consumer' = consumer
  BY DEF Transfer, BusReset, Restart, Hangup, Connect, Disconnect
<1> QED
  BY <1>1, <1>2, <1>3, <1>4, SameHoldersBase

LEMMA NextBase ==
  ASSUME Base, [Next]_vars
  PROVE  Base'
<1>1. ASSUME NEW t \in Thread, Start(t)
      PROVE  Base'
  BY <1>1, StartTypes, StartBase DEF Base
<1>2. ASSUME NEW t \in Thread, Prepare(t)
      PROVE  Base'
  BY <1>2, PrepareTypes, PrepareBase DEF Base
<1>3. ASSUME NEW t \in Thread, Take(t)
      PROVE  Base'
  BY <1>3, TakeTypes, TakeBase DEF Base
<1>4. ASSUME NEW t \in Thread, Return(t)
      PROVE  Base'
  BY <1>4, ReturnTypes, ReturnBase DEF Base
<1>5. ASSUME NEW t \in Thread, Timeout(t) \/ TransmitTimeout(t)
      PROVE  Base'
  BY <1>5, TimeoutTypes, TimeoutBase DEF Base
<1>6. CASE ReceiveRest
  BY <1>6, ReceiveRestTypes, ReceiveRestBase DEF Base
<1>7. CASE ProcessPacket
  BY <1>7, ProcessTypes, ProcessBase DEF Base
<1>8. CASE Transfer \/ BusReset \/ Restart \/ Hangup \/ Connect
  BY <1>8, TransferTypes, BreakTypes, BreakBase DEF Base
<1>9. CASE UNCHANGED vars
  <2>1. UNCHANGED <<threadVars, phase, result, hostVars, boardVars>>
    BY <1>9 DEF vars
  <2>2. TypeOK'
    BY <2>1 DEF Base, TypeOK, EditorTypes, BoardTypes, threadVars, hostVars, boardVars
  <2>3. Requests'
    BY <2>1 DEF Base, Requests, threadVars
  <2> QED
    BY <2>1, <2>2, <2>3, SameHoldersBase DEF Base, threadVars, hostVars
<1> QED
  BY <1>1, <1>2, <1>3, <1>4, <1>5, <1>6, <1>7, <1>8, <1>9 DEF Next

\* Every reachable state is well typed: the threads, the packets on the way,
\* the board and its files.
THEOREM Types == Spec => []TypeOK
<1>1. Init => Base
  BY InitBase
<1>2. Base /\ [Next]_vars => Base'
  BY NextBase
<1>3. Base => TypeOK
  BY DEF Base
<1> QED
  BY <1>1, <1>2, <1>3, PTL DEF Spec

---------------------------------------------------------------------------
(* The answers, action by action, as long as none is late.                 *)

\* Nothing is on its way.
Still == inbox = None /\ dev.out = <<>> /\ dev.phase = "idle"

LEMMA TroubleStays ==
  ASSUME [Next]_vars
  PROVE  trouble \subseteq trouble'
<1>1. \A k : Trouble(k) => trouble \subseteq trouble'
  BY DEF Trouble
<1>2. \A r : Dispatch(r) => trouble \subseteq trouble'
  <2>1. \A e : Calls(e) => trouble \subseteq trouble'
    BY <1>1 DEF Calls
  <2>2. ASSUME NEW r, RcvFOpen(r) \/ RcvFOpenWrite(r) \/ RcvFClose(r)
        PROVE  trouble \subseteq trouble'
    <3>1. UNCHANGED trouble \/ \E e \in FsErr : Calls(e)
      BY <2>2, Zenon DEF RcvFOpen, RcvFOpenWrite, RcvFClose
    <3> QED
      BY <2>1, <3>1
  <2>3. ASSUME NEW r, RcvFRead(r) \/ RcvFWrite(r)
        PROVE  trouble \subseteq trouble'
    <3>1. UNCHANGED trouble \/ Trouble("badread")
      BY <2>3, Zenon DEF RcvFRead, RcvFWrite
    <3> QED
      BY <1>1, <3>1
  <2>4. ASSUME NEW r, RcvFGetInfo(r) \/ RcvFDirlist(r) \/ RcvFSetInfo(r) \/ RcvFDelete(r)
                        \/ RcvFMkdir(r)
        PROVE  trouble \subseteq trouble'
    <3>1. \E e \in FsErr : Calls(e)
      BY <2>4, Zenon DEF RcvFGetInfo, RcvFDirlist, RcvFSetInfo, RcvFDelete, RcvFMkdir
    <3> QED
      BY <2>1, <3>1
  <2> QED
    BY <2>2, <2>3, <2>4 DEF Dispatch
<1>3. Slow => trouble \subseteq trouble'
  BY <1>1 DEF Slow
<1>4. ASSUME NEW t \in Thread,
             Start(t) \/ Prepare(t) \/ Take(t) \/ Return(t) \/ Timeout(t) \/ TransmitTimeout(t)
      PROVE  trouble \subseteq trouble'
  BY <1>2, <1>3, <1>4 DEF Start, Prepare, Take, Return, Timeout, TransmitTimeout
<1>5. CASE ReceiveRest \/ Transfer \/ ProcessPacket \/ Connect
  BY <1>1, <1>5 DEF ReceiveRest, Transfer, ProcessPacket, Connect
<1>6. CASE BusReset \/ Restart \/ Hangup
  BY <1>1, <1>6 DEF BusReset, Restart, Hangup
<1>7. CASE UNCHANGED vars
  BY <1>7 DEF vars
<1> QED
  BY <1>4, <1>5, <1>6, <1>7 DEF Next

LEMMA QuietBefore ==
  ASSUME [Next]_vars, Quiet'
  PROVE  Quiet
BY TroubleStays DEF Quiet

\* The first of the packets that the board has to send.
LEMMA FirstAwaited ==
  ASSUME Base, Way, dev.out # <<>>
  PROVE  /\ 1 \in 1 .. Len(dev.out)
         /\ dev.out[1] \in Range(dev.out) /\ dev.out[1] \in Packets /\ dev.out[1] # None
         /\ Awaited(dev.out[1].for, "wait")
<1>1. dev.out \in Seq(Packets)
  BY DEF Base, TypeOK, BoardTypes
<1>2. Len(dev.out) \in Nat \ {0}
  BY <1>1, EmptySeq
<1>3. 1 \in 1 .. Len(dev.out)
  <2>1. \A n \in Nat \ {0} : 1 \in 1 .. n
    OBVIOUS
  <2> QED
    BY <1>2, <2>1, Zenon
<1>4. dev.out[1] \in Packets
  BY <1>1, <1>3, ElementOfSeq
<1>5. dev.out[1] \in Range(dev.out)
  BY <1>1, <1>3, LenProperties DEF Range
<1>6. Awaited(dev.out[1].for, "wait")
  BY <1>3 DEF Way
<1> QED
  BY <1>3, <1>4, <1>5, <1>6, PacketParts

\* Who may have something on its way.
LEMMA Awaiting ==
  ASSUME Base, Answers
  PROVE  /\ \/ Still
            \/ /\ lock \in Thread /\ result[lock] = None
               /\ consumer # None /\ link = "up"
               /\ \/ phase[lock] = "wait" /\ dev.phase # "receive"
                  \/ phase[lock] = "transmit" /\ dev.phase = "receive"
                       /\ inbox = None /\ dev.out = <<>>
         /\ \A t \in Thread : phase[t] = "transmit" => inbox = None /\ dev.out = <<>>
         /\ dev.phase = "receive" => dev.req = Req(lock)
<1>1. /\ dev.phase \in {"idle", "receive", "reply"}
      /\ dev.phase = "reply" <=> dev.out # <<>>
  BY DEF Base, TypeOK, BoardTypes
<1>2. inbox # None \/ dev.out # <<>> =>
        lock \in Thread /\ result[lock] = None /\ consumer # None /\ link = "up" /\ phase[lock] = "wait"
  BY FirstAwaited DEF Answers, Way, Awaited
<1>3. dev.phase = "receive" =>
        /\ lock \in Thread /\ result[lock] = None /\ consumer # None /\ link = "up"
        /\ phase[lock] = "transmit" /\ dev.req = Req(lock)
  BY DEF Answers, Way, Awaited
<1>4. \A t \in Thread : phase[t] = "transmit" => lock = t
  BY DEF Base, Monitor
<1> QED
  BY <1>1, <1>2, <1>3, <1>4 DEF Still

LEMMA StillWay ==
  ASSUME inbox' = None, dev'.out = <<>>, dev'.phase # "receive"
  PROVE  Way'
<1>1. 1 .. Len(dev'.out) = {}
  <2>1. Len(dev'.out) = 0
    BY EmptySeq
  <2> QED
    BY <2>1
<1> QED
  BY <1>1 DEF Way

\* What is on its way is awaited as before.
LEMMA SameWay ==
  ASSUME Way, UNCHANGED <<inbox, dev, lock, consumer, link>>,
         lock \in Thread => /\ phase'[lock] = phase[lock]
                            /\ result'[lock] = result[lock]
                            /\ Req(lock)' = Req(lock)
  PROVE  Way'
<1>1. \A r, ph : Awaited(r, ph) =>
        /\ lock \in Thread /\ phase'[lock] = ph /\ result'[lock] = None
        /\ Req(lock)' = r /\ consumer # None /\ link = "up"
  BY DEF Awaited
<1> QED
  BY <1>1 DEF Way, Awaited, Fits, Final

LEMMA StartAnswers ==
  ASSUME Base, Answers, NEW t \in Thread, Start(t)
  PROVE  Answers'
<1>1. lock # t /\ phase'[t] = "ready"
  BY DEF Base, Monitor, TypeOK, EditorTypes, Start
<1>2. \A u \in Thread : u # t => phase'[u] = phase[u] /\ Req(u)' = Req(u)
  <2>1. \A u \in Thread : u # t => at'[u] = at[u] /\ job'[u] = job[u]
    BY StartTypes DEF Base
  <2> QED
    BY <2>1 DEF Base, TypeOK, EditorTypes, Start, Req, Target
<1>3. Way'
  BY <1>1, <1>2, SameWay DEF Answers, Start, hostVars
<1> QED
  BY <1>1, <1>2, <1>3 DEF Answers, Start, hostVars

\* The one who gives up leaves nobody waiting.
LEMMA GiveUpAnswers ==
  ASSUME Base, Answers, Still', NEW t \in Thread, GiveUp(t), lock \in {t, None}, link' # "deaf"
  PROVE  Answers'
<1>1. \A u \in Thread : phase'[u] \notin {"transmit", "wait"}
  BY NoneIsNoThread DEF Base, Monitor, TypeOK, EditorTypes, GiveUp
<1>2. lock' = None
  BY DEF GiveUp
<1>3. Way'
  BY StillWay DEF Still
<1> QED
  BY <1>1, <1>2, <1>3, NoneIsNoThread DEF Answers

LEMMA PrepareAnswers ==
  ASSUME Base, Answers, NEW t \in Thread, Prepare(t)
  PROVE  Answers'
<1>1. Still /\ Still'
  BY Awaiting, NoneIsNoThread DEF Prepare, Still, boardVars
<1>2. CASE link = "down"
  BY <1>1, <1>2, GiveUpAnswers DEF Prepare
<1>3. CASE link # "down"
  <2>1. /\ lock = None /\ lock' = t /\ UNCHANGED result /\ link' = "up"
        /\ phase'[t] = "transmit"
        /\ \A u \in Thread : u # t => phase'[u] = phase[u]
    BY <1>3 DEF Base, TypeOK, EditorTypes, Prepare, Answers
  <2>2. \A u \in Thread : result[u] = None /\ phase[u] \notin {"transmit", "wait"}
    BY <2>1, NoneIsNoThread DEF Base, Monitor
  <2>3. consumer' # None /\ consumer'.st = 0 /\ consumer'.from = {}
    <3>1. Req(t) \in Request
      BY ReqType DEF Base, Requests, Prepare
    <3>2. consumer' \in Consumers
      BY <3>1 DEF Prepare, Consumers
    <3> QED
      BY <3>2, NoneAssumption DEF Prepare
  <2>4. Way'
    BY <1>1, StillWay DEF Still
  <2> QED
    BY <2>1, <2>2, <2>3, <2>4 DEF Answers
<1> QED
  BY <1>2, <1>3

LEMMA ReturnAnswers ==
  ASSUME Base, Answers, NEW t \in Thread, Return(t)
  PROVE  Answers'
<1>1. /\ \A u \in Thread : u # t => phase'[u] = phase[u]
      /\ phase'[t] \in {"ready", "done", "failed"}
  BY ReturnTypes DEF Base
<1>2. lock = t /\ lock' = None
  BY DEF Base, Monitor, Return, GiveUp
<1>3. Still /\ Still'
  BY <1>2, Awaiting DEF Return, Still, boardVars
<1>4. \A u \in Thread : phase'[u] \notin {"transmit", "wait"}
  BY <1>1, <1>2 DEF Base, Monitor
<1>5. Way'
  BY <1>3, StillWay DEF Still
<1> QED
  BY <1>2, <1>4, <1>5, NoneIsNoThread DEF Answers, Return

\* Without trouble a wait times out only when no answer is on its way.
LEMMA TimeoutAnswers ==
  ASSUME Base, Answers, Quiet', NEW t \in Thread, Timeout(t) \/ TransmitTimeout(t)
  PROVE  Answers'
<1>1. lock = t
  BY DEF Base, Monitor, Timeout, TransmitTimeout
<1>2. Slow => FALSE
  BY DEF Slow, Trouble, Quiet
<1>3. Timeout(t) /\ Hopeless(t)
  BY <1>2 DEF Answers, Timeout, TransmitTimeout
<1>4. Still
  <2>1. SUFFICES ASSUME ~Still
                 PROVE  FALSE
    OBVIOUS
  <2>2. consumer # None /\ link = "up" /\ phase[t] = "wait"
    BY <1>1, <1>3, <2>1, Awaiting DEF Timeout
  <2>3. \A p \in {inbox} \cup Range(dev.out) : p # None => p.for # Req(t)
    BY <1>3, <2>2 DEF Hopeless
  <2>4. inbox = None
    BY <1>1, <2>3 DEF Answers, Way, Awaited
  <2>5. dev.out = <<>>
    BY <1>1, <2>3, FirstAwaited DEF Answers, Awaited
  <2>6. dev.phase = "receive"
    BY <2>1, <2>4, <2>5 DEF Still, Base, TypeOK, BoardTypes
  <2> QED
    BY <1>1, <2>2, <2>6 DEF Answers, Way, Awaited
<1>5. Still' /\ GiveUp(t) /\ UNCHANGED link
  BY <1>3, <1>4 DEF Timeout, Still, boardVars
<1> QED
  BY <1>1, <1>5, GiveUpAnswers DEF Answers

\* A broken connection loses what is on its way.
LEMMA BreakAnswers ==
  ASSUME Base, Answers, Quiet', BusReset \/ Restart \/ Hangup \/ Connect
  PROVE  Answers'
<1>1. ~Hangup
  BY DEF Hangup, Trouble, Quiet
<1>2. CASE BusReset \/ Restart
  <2>1. /\ inbox' = None /\ dev'.out = <<>> /\ dev'.phase # "receive"
        /\ consumer' = None /\ link' = "down" /\ UNCHANGED <<result, job, at, ref>>
    BY <1>2 DEF BusReset, Restart, Disconnect, Idle, threadVars
  <2>2. \A u \in Thread : /\ phase'[u] # "transmit"
                          /\ phase'[u] = "wait" => phase[u] \in {"transmit", "wait"}
    BY <1>2 DEF Base, TypeOK, EditorTypes, BusReset, Restart, AbortTransmit
  <2>3. \A u \in Thread : Req(u)' = Req(u)
    BY <2>1, SameRequests
  <2>4. Way'
    BY <2>1, StillWay
  <2> QED
    BY <2>1, <2>2, <2>3, <2>4 DEF Answers
<1>3. CASE Connect
  <2>1. Still
    BY <1>3, Awaiting DEF Connect
  <2>2. /\ inbox' = None /\ dev'.out = <<>> /\ dev'.phase # "receive"
        /\ consumer' = None /\ link' = "up" /\ UNCHANGED <<result, job, at, ref, phase>>
    BY <1>3, <2>1 DEF Connect, threadVars, boardVars, Still
  <2>3. \A u \in Thread : phase[u] # "transmit"
    BY <1>3 DEF Connect, Answers
  <2>4. \A u \in Thread : Req(u)' = Req(u)
    BY <2>2, SameRequests
  <2>5. Way'
    BY <2>2, StillWay
  <2> QED
    BY <2>2, <2>3, <2>4, <2>5 DEF Answers
<1> QED
  BY <1>1, <1>2, <1>3

\* The board answers the one who transmits, who is waiting from then on.
LEMMA AnswerAwaited ==
  ASSUME Base, Answers, NEW t \in Thread, phase[t] = "transmit", Handled(Req(t)),
         UNCHANGED <<threadVars, result, hostVars>>,
         phase' = IF dev'.phase = "receive" THEN phase ELSE [phase EXCEPT ![t] = "wait"]
  PROVE  Answers'
<1>1. /\ lock = t /\ inbox = None /\ dev.out = <<>>
      /\ consumer # None /\ consumer.st = 0 /\ link = "up" /\ result[t] = None
  BY Awaiting DEF Base, Monitor, Answers
<1>2. UNCHANGED <<lock, consumer, link, inbox, result, job, at, ref>>
  BY DEF threadVars, hostVars
<1>3. \A u \in Thread : Req(u)' = Req(u)
  BY <1>2, SameRequests
<1>4. \A u \in Thread : u # t => phase[u] \notin {"transmit", "wait"}
  BY <1>1 DEF Base, Monitor
<1>5. CASE dev'.phase = "receive"
  <2>1. dev'.out = <<>> /\ dev'.req = Req(t) /\ phase' = phase
    BY <1>5 DEF Handled
  <2>2. 1 .. Len(dev'.out) = {}
    <3>1. Len(dev'.out) = 0
      BY <2>1, EmptySeq
    <3> QED
      BY <3>1
  <2>3. Awaited(dev.req, "transmit")'
    BY <1>1, <1>2, <1>3, <2>1 DEF Awaited
  <2>4. Way'
    BY <1>1, <1>2, <2>2, <2>3 DEF Way
  <2> QED
    BY <1>1, <1>2, <1>3, <2>1, <2>4 DEF Answers
<1>6. CASE dev'.phase # "receive"
  <2>1. Shape(Req(t), dev'.out)
    BY <1>6 DEF Handled
  <2>2. phase'[t] = "wait" /\ \A u \in Thread : u # t => phase'[u] = phase[u]
    BY <1>6 DEF Base, TypeOK, EditorTypes
  <2>3. \A r : r = Req(t) =>
          /\ lock' \in Thread /\ phase'[lock'] = "wait" /\ result'[lock'] = None
          /\ Req(lock)' = r /\ consumer' # None /\ link' = "up"
    BY <1>1, <1>2, <1>3, <2>2
  <2>4. Way'
    <3>1. ASSUME NEW i \in 1 .. Len(dev'.out)
          PROVE  /\ Awaited(dev.out[i].for, "wait")'
                 /\ Final(dev'.out[i]) => i = Len(dev'.out)
                 /\ dev'.out[i].type = "read" => i = 1 /\ inbox' = None /\ Fits(dev.out[i])'
                 /\ dev'.out[i].type = "data" =>
                      dev'.out[i].for.op = "read" /\ i = 2 /\ dev'.out[1].type = "read"
      <4>1. /\ dev'.out[i].for = Req(t)
            /\ Final(dev'.out[i]) => i = Len(dev'.out)
            /\ dev'.out[i].type = "read" => i = 1 /\ Req(t).op = "read"
            /\ dev'.out[i].type = "data" =>
                 i = 2 /\ Req(t).op = "read" /\ dev'.out[1].type = "read"
        BY <2>1 DEF Shape
      <4>2. Awaited(dev.out[i].for, "wait")'
        BY <2>3, <4>1 DEF Awaited
      <4> QED
        BY <1>1, <1>2, <4>1, <4>2 DEF Fits
    <3> QED
      BY <1>1, <1>2, <1>6, <3>1 DEF Way, Final
  <2> QED
    BY <1>1, <1>2, <1>3, <1>4, <2>2, <2>4 DEF Answers
<1> QED
  BY <1>5, <1>6

LEMMA TakeAnswers ==
  ASSUME Base, Answers, NEW t \in Thread, Take(t)
  PROVE  Answers'
<1>1. Req(t) \in Request
  BY ReqType DEF Base, Requests, Take
<1>2. Handled(Req(t))
  BY <1>1, DispatchHandles DEF Base, Take
<1> QED
  BY <1>2, AnswerAwaited DEF Take

LEMMA ReceiveRestAnswers ==
  ASSUME Base, Answers, ReceiveRest
  PROVE  Answers'
<1>1. /\ lock \in Thread /\ phase[lock] = "transmit" /\ dev.req = Req(lock)
      /\ Handled(dev.req)
  BY Awaiting, RestHandles DEF Base, ReceiveRest, Still
<1>2. dev'.phase # "receive"
  <2>1. \A e : FResult(dev.req, e, 0) => dev'.phase = "reply"
    BY DEF FResult, Answer
  <2> QED
    BY <2>1 DEF ReceiveRest
<1>3. \A u \in Thread : phase[u] = "transmit" => u = lock
  BY DEF Base, Monitor
<1>4. phase' = [phase EXCEPT ![lock] = "wait"]
  BY <1>1, <1>3 DEF Base, TypeOK, EditorTypes, ReceiveRest
<1> QED
  BY <1>1, <1>2, <1>4, AnswerAwaited DEF ReceiveRest

\* The next packet of an answer goes to the Receiver.
LEMMA TransferAnswers ==
  ASSUME Base, Answers, Transfer
  PROVE  Answers'
<1>1. /\ dev.out \in Seq(Packets) /\ Len(dev.out) \in Nat \ {0} /\ dev.out # <<>>
      /\ inbox' = dev.out[1] /\ inbox = None
      /\ dev'.out \in Seq(Packets) /\ dev'.phase # "receive"
      /\ Len(dev'.out) = Len(dev.out) - 1
      /\ \A i \in 1 .. Len(dev'.out) : dev'.out[i] = dev.out[i + 1]
  BY TransferDevice DEF Base, Transfer, TypeOK, BoardTypes
<1>2. UNCHANGED <<lock, consumer, link, result, phase, job, at, ref>>
  BY DEF Transfer, threadVars
<1>3. \A u \in Thread : Req(u)' = Req(u)
  BY <1>2, SameRequests
<1>4. PICK n \in Nat : n = Len(dev'.out) /\ n + 1 = Len(dev.out)
  <2>1. Len(dev'.out) \in Nat
    BY <1>1, EmptySeq
  <2>2. \A k \in Nat \ {0} : \A l : l = k - 1 => l + 1 = k
    OBVIOUS
  <2>3. Len(dev'.out) + 1 = Len(dev.out)
    BY <1>1, <2>2, Zenon
  <2> QED
    BY <2>1, <2>3, Zenon
<1>5. \A i \in 1 .. n + 1 :
        /\ Awaited(dev.out[i].for, "wait")
        /\ Final(dev.out[i]) => i = n + 1
        /\ dev.out[i].type = "read" => i = 1 /\ Fits(dev.out[i])
        /\ dev.out[i].type = "data" =>
             /\ dev.out[i].for.op = "read"
             /\ IF i = 1 THEN Fits(dev.out[1]) ELSE i = 2 /\ dev.out[1].type = "read"
  BY <1>1, <1>4 DEF Answers, Way
<1>6. \A r : Awaited(r, "wait") =>
        /\ lock' \in Thread /\ phase'[lock'] = "wait" /\ result'[lock'] = None
        /\ Req(lock)' = r /\ consumer' # None /\ link' = "up"
  BY <1>2, <1>3 DEF Awaited
<1>7. /\ Awaited(inbox.for, "wait")'
      /\ Fits(inbox)'
      /\ Final(inbox') => n = 0
  <2>1. 1 \in 1 .. n + 1
    OBVIOUS
  <2>2. Awaited(dev.out[1].for, "wait") /\ (Final(dev.out[1]) => 1 = n + 1)
    BY <1>5, <2>1, Zenon
  <2>3. dev.out[1].type \in {"read", "data"} => Fits(dev.out[1])
    BY <1>5, <2>1
  <2>4. Awaited(inbox.for, "wait")'
    BY <1>1, <1>6, <2>2 DEF Awaited
  <2>5. Fits(inbox)'
    BY <1>1, <1>2, <2>3 DEF Fits
  <2> QED
    BY <1>1, <2>2, <2>4, <2>5
<1>8. ASSUME NEW i \in 1 .. n
      PROVE  /\ Awaited(dev.out[i].for, "wait")'
             /\ Final(dev'.out[i]) => i = n
             /\ dev'.out[i].type # "read"
             /\ dev'.out[i].type = "data" =>
                  dev'.out[i].for.op = "read" /\ i = 1 /\ inbox'.type = "read"
  <2>1. dev'.out[i] = dev.out[i + 1] /\ i + 1 \in 1 .. n + 1 /\ i + 1 # 1
    BY <1>1, <1>4
  <2>2. /\ Awaited(dev.out[i + 1].for, "wait")
        /\ Final(dev.out[i + 1]) => i + 1 = n + 1
        /\ dev.out[i + 1].type # "read"
        /\ dev.out[i + 1].type = "data" =>
             dev.out[i + 1].for.op = "read" /\ i + 1 = 2 /\ dev.out[1].type = "read"
    BY <1>5, <2>1
  <2>3. Awaited(dev.out[i].for, "wait")'
    BY <1>6, <2>1, <2>2 DEF Awaited
  <2> QED
    BY <1>1, <2>1, <2>2, <2>3
<1>9. Way'
  <2>1. n = 0 => dev'.out = <<>>
    BY <1>1, <1>4, EmptySeq
  <2>2. inbox' # None
    BY <1>1, FirstAwaited DEF Answers
  <2> QED
    BY <1>1, <1>4, <1>7, <1>8, <2>1, <2>2 DEF Way, Final
<1> QED
  BY <1>1, <1>2, <1>3, <1>9 DEF Answers

\* The consumer is the one of the request that the packet belongs to.
LEMMA ProcessAnswers ==
  ASSUME Base, Answers, ProcessPacket
  PROVE  Answers'
<1> DEFINE t == lock
<1>1. /\ inbox # None /\ inbox' = None /\ dev' = dev
      /\ UNCHANGED <<job, at, ref, phase, lock>>
  BY DEF ProcessPacket, threadVars, boardVars
<1>2. /\ t \in Thread /\ phase[t] = "wait" /\ result[t] = None /\ Req(t) = inbox.for
      /\ consumer # None /\ link = "up" /\ Fits(inbox)
      /\ Final(inbox) => dev.out = <<>>
  BY <1>1 DEF Answers, Way, Awaited
<1>3. consumer.req = inbox.for /\ consumer.from \subseteq {Req(t)}
  BY <1>2 DEF Base, Monitor, Answers
<1>4. consumer \in Consumers /\ inbox \in Packets
  BY <1>2, ProcessParts DEF Base
<1>5. \A u \in Thread : Req(u)' = Req(u)
  BY <1>1, SameRequests
<1>6. \A u \in Thread : u # t => phase[u] \notin {"transmit", "wait"}
  BY DEF Base, Monitor
<1>7. dev.phase # "receive"
  BY <1>2 DEF Answers, Way, Awaited
<1>8. \A i \in 1 .. Len(dev.out) :
        /\ Awaited(dev.out[i].for, "wait")
        /\ Final(dev.out[i]) => i = Len(dev.out)
        /\ dev.out[i].type # "read"
        /\ dev.out[i].type = "data" =>
             dev.out[i].for.op = "read" /\ i = 1 /\ inbox.type = "read"
  <2>1. ASSUME NEW i \in 1 .. Len(dev.out)
        PROVE  /\ Awaited(dev.out[i].for, "wait")
               /\ Final(dev.out[i]) => i = Len(dev.out)
               /\ dev.out[i].type # "read"
               /\ dev.out[i].type = "data" =>
                    dev.out[i].for.op = "read" /\ i = 1 /\ inbox.type = "read"
    <3>1. 1 \in 1 .. Len(dev.out)
      <4>1. dev.out # <<>>
        BY EmptySeq
      <4> QED
        BY <4>1, FirstAwaited DEF Answers
    <3> QED
      BY <1>1, <2>1, <3>1 DEF Answers, Way
  <2> QED
    BY <2>1
\* A packet that is not the last is taken, and one of several.
<1>9. ASSUME UNCHANGED <<result, link>>, consumer' # None,
             consumer'.from \subseteq {Req(t)},
             inbox.type = "read" => consumer'.st = 1
      PROVE  Answers'
  <2>1. \A r : Awaited(r, "wait") =>
          /\ lock' \in Thread /\ phase'[lock'] = "wait" /\ result'[lock'] = None
          /\ Req(lock)' = r /\ consumer' # None /\ link' = "up"
    BY <1>1, <1>5, <1>9 DEF Awaited
  <2>2. \A i \in 1 .. Len(dev.out) :
          /\ Awaited(dev.out[i].for, "wait")'
          /\ dev.out[i].type = "data" => Fits(dev.out[i])'
    <3>1. ASSUME NEW i \in 1 .. Len(dev.out)
          PROVE  /\ Awaited(dev.out[i].for, "wait")'
                 /\ dev.out[i].type = "data" => Fits(dev.out[i])'
      <4>1. Awaited(dev.out[i].for, "wait")'
        BY <1>1, <1>8, <2>1 DEF Awaited
      <4>2. dev.out[i].type = "data" => Fits(dev.out[i])'
        BY <1>1, <1>8, <1>9 DEF Fits
      <4> QED
        BY <4>1, <4>2
    <3> QED
      BY <3>1
  <2>3. Way'
    BY <1>1, <1>7, <1>8, <2>2 DEF Way, Final
  <2> QED
    BY <1>1, <1>2, <1>5, <1>6, <1>9, <2>3 DEF Answers
<1>10. CASE /\ Continues(consumer, inbox)
            /\ consumer' \in Consumers
            /\ consumer'.req = consumer.req /\ consumer'.st = 1
            /\ consumer'.from = consumer.from \cup {inbox.for}
            /\ UNCHANGED <<result, link>>
  <2>1. consumer' # None
    BY <1>10, NoneAssumption
  <2>2. consumer'.from \subseteq {Req(t)}
    BY <1>2, <1>3, <1>10
  <2> QED
    BY <1>9, <1>10, <2>1, <2>2
<1>11. CASE /\ Completes(consumer, inbox)
            /\ consumer' \in Consumers
            /\ consumer'.req = consumer.req
            /\ consumer'.from = consumer.from \cup {inbox.for}
            /\ UNCHANGED link
  <2>1. Final(inbox)
    <3>1. inbox.type = "info" => inbox.for.op = "getinfo"
      BY <1>3, <1>11 DEF Completes, ResultOp
    <3>2. inbox.type \in {"result", "info", "data", "end"}
      BY <1>11 DEF Completes
    <3> QED
      BY <3>1, <3>2 DEF Final
  <2>2. dev.out = <<>>
    BY <1>2, <2>1
  <2>3. Way'
    BY <1>1, <1>7, <2>2, StillWay
  <2>4. result'[t] # None => result'[t].from = {Req(t)}
    <3>1. result'[t] # result[t] => result'[t].from = consumer.from \cup {inbox.for}
      BY <1>2, ProcessResult DEF Base
    <3> QED
      BY <1>2, <1>3, <3>1
  <2>5. consumer'.from \subseteq {Req(t)}
    BY <1>2, <1>3, <1>11
  <2> QED
    BY <1>1, <1>2, <1>5, <1>6, <1>11, <2>2, <2>3, <2>4, <2>5 DEF Answers
<1>12. ~Underflow(consumer, inbox)
  BY <1>2, <1>3 DEF Underflow, Fits
<1>13. CASE ~(Continues(consumer, inbox) \/ Completes(consumer, inbox))
            /\ UNCHANGED <<result, consumer, link>>
  <2>1. inbox.type # "read"
    BY <1>2, <1>3, <1>13 DEF Fits, Continues
  <2> QED
    BY <1>2, <1>3, <1>9, <1>13, <2>1
<1> QED
  BY <1>2, <1>10, <1>11, <1>12, <1>13, ProcessParts DEF Base

LEMMA NextAnswers ==
  ASSUME Base, Quiet => Answers, [Next]_vars
  PROVE  Quiet' => Answers'
<1> SUFFICES ASSUME Quiet'
             PROVE  Answers'
  OBVIOUS
<1>1. Answers
  BY QuietBefore
<1>2. CASE UNCHANGED vars
  <2>1. UNCHANGED <<threadVars, phase, result, hostVars, boardVars>>
    BY <1>2 DEF vars
  <2>2. \A u \in Thread : Req(u)' = Req(u)
    BY <2>1, SameRequests DEF threadVars
  <2>3. Way'
    BY <1>1, <2>1, <2>2, SameWay DEF Answers, hostVars, boardVars
  <2> QED
    BY <1>1, <2>1, <2>2, <2>3 DEF Answers, hostVars, boardVars
<1> QED
  BY <1>1, <1>2, StartAnswers, PrepareAnswers, TakeAnswers, ReturnAnswers, TimeoutAnswers,
     ReceiveRestAnswers, TransferAnswers, ProcessAnswers, BreakAnswers DEF Next

LEMMA InitInv ==
  ASSUME Init
  PROVE  Inv
<1>1. Base
  BY InitBase
<1>2. Answers
  <2>1. inbox = None /\ dev.out = <<>> /\ dev.phase # "receive"
    BY DEF Init, Idle
  <2>2. 1 .. Len(dev.out) = {}
    <3>1. Len(dev.out) = 0
      BY <2>1, EmptySeq
    <3> QED
      BY <3>1
  <2>3. Way
    BY <2>1, <2>2 DEF Way
  <2> QED
    BY <2>3 DEF Init, Answers
<1> QED
  BY <1>1, <1>2 DEF Inv, Base

\* As long as no answer came late or was kept from before a disconnection,
\* every request is answered with the packets that were sent for it.
THEOREM OwnReplies == Spec => []OwnReply
<1>1. Init => Inv
  BY InitInv
<1>2. Inv /\ [Next]_vars => Inv'
  BY NextBase, NextAnswers DEF Inv, Base
<1>3. Inv => OwnReply
  BY DEF Inv, Answers, OwnReply, Quiet
<1> QED
  BY <1>1, <1>2, <1>3, PTL DEF Spec

---------------------------------------------------------------------------
(* The worker's jobs: what each of their steps relies on.  The worker and  *)
(* the board are records here, so that what holds of them is preserved     *)
(* whatever the step is.                                                   *)

Mine == [job |-> job[Worker], at |-> at[Worker], ref |-> ref[Worker], got |-> got[Worker]]

Board == [file |-> file, card |-> card, closed |-> closed, trouble |-> trouble]

\* The threads do their own kinds of jobs.
Roles ==
  /\ job[Worker].kind \in {"none", "upload", "download"}
  /\ job[Worker].kind # "none" => job[Worker].name \in Names
  /\ job[Ui].kind \notin {"upload", "download"}
  /\ at[Ui].op \in {"getinfo", "delete", "mkdir", "dirlist", "end"}

\* The data are the first n blocks of job k.
Numbered(data, k, n) ==
  /\ Len(data) = n
  /\ \A i \in 1 .. n : data[i] = [job |-> k, n |-> i]

\* The file is what the first n writes make of it; it is closed when the
\* board has restarted.
Writing(m, w, n) ==
  w.file # None =>
    /\ w.file.job = m.job.k /\ w.file.write
    /\ "full" \notin w.trouble => Numbered(w.file.data, m.job.k, n)

\* The worker has read the first n blocks of the file.
Reading(m, w, n) ==
  w.file # None =>
    /\ w.file.job = m.job.k /\ ~w.file.write /\ Len(w.file.data) = m.job.size
    /\ "badread" \notin w.trouble =>
         w.file.pos = n /\ Len(m.got) = n /\ \A i \in 1 .. n : m.got[i] = w.file.data[i]

\* What a step of an upload relies on.
Uploads(m, w) ==
  /\ m.at.op \in {"getinfo", "mkdir", "open_write", "write", "close", "setinfo", "end"}
  /\ m.job.size \in Nat
  /\ m.at.op = "open_write" => m.at.n = 0
  /\ m.at.op \in {"write", "close"} => m.ref = fileRef
  /\ m.at.op = "write" => m.at.n \in 1 .. m.job.size /\ Writing(m, w, m.at.n - 1)
  /\ m.at.op = "close" => Writing(m, w, m.job.size)
  /\ m.at.op \in {"setinfo", "end"} =>
       /\ w.file = None
       /\ "full" \notin w.trouble =>
            w.closed.job = m.job.k /\ Numbered(w.closed.data, m.job.k, m.job.size)

\* What a step of a download relies on.
Downloads(m, w) ==
  /\ m.at.op \in {"getinfo", "open", "read", "close", "end"}
  /\ m.at.op \in {"getinfo", "open"} => m.got = <<>>
  /\ m.at.op # "getinfo" => m.job.size \in Nat
  /\ m.at.op = "open" =>
       /\ m.at.n = 0
       /\ w.card[m.job.name] # None => Len(w.card[m.job.name]) = m.job.size
  /\ m.at.op \in {"read", "close"} => m.ref = fileRef
  /\ m.at.op = "read" => m.at.n \in 1 .. m.job.size /\ Reading(m, w, m.at.n - 1)
  /\ m.at.op = "close" => Reading(m, w, m.job.size)
  /\ m.at.op = "end" =>
       /\ w.file = None
       /\ "badread" \notin w.trouble => w.closed.job = m.job.k /\ w.closed.data = m.got

Relies(m, w) ==
  /\ m.job.kind = "none" => m.at.op = "end" /\ w.file = None
  /\ m.job.kind = "upload" => Uploads(m, w)
  /\ m.job.kind = "download" => Downloads(m, w)

\* The worker after the answer x, as Return moves it on.
NextStep(m, x) ==
  IF m.job.kind = "upload" THEN AfterUpload(m.at.op, m.at.n, m.job.size, x.val = -1)
  ELSE IF m.job.kind = "download" THEN AfterDownload(m.at.op, m.at.n, m.job.size)
  ELSE Step("end", 0)

Moved(m, x) ==
  [job |-> IF m.job.kind = "download" /\ m.at.op = "getinfo"
           THEN [m.job EXCEPT !.size = x.val] ELSE m.job,
   at |-> NextStep(m, x),
   ref |-> IF m.at.op \in {"open", "open_write"} THEN x.val
           ELSE IF NextStep(m, x).op = "end" THEN 0 ELSE m.ref,
   got |-> IF m.at.op = "read" /\ x.val = 1 THEN Append(m.got, x.block) ELSE m.got]

Fine(m, x) ==
  /\ m.at.op \in ResultOp => x.err = "ok" \/ (m.at.op = "mkdir" /\ x.err = "exist")
  /\ m.job.kind = "download" /\ m.at.op = "getinfo" => x.val # -1

\* With the answer x the next step has what it relies on.
Tells(m, w, x) == Fine(m, x) => Relies(Moved(m, x), w)

\* The answers on their way, and the one that has come, are such.
Told ==
  /\ lock = Worker =>
       /\ inbox # None /\ Final(inbox) => Tells(Mine, Board, inbox)
       /\ \A i \in 1 .. Len(dev.out) : Final(dev.out[i]) => Tells(Mine, Board, dev.out[i])
  /\ result[Worker] # None => Tells(Mine, Board, result[Worker])

\* The blocks of a file come from its job.
Own(w) ==
  w.file # None /\ w.file.write =>
    \A i \in 1 .. Len(w.file.data) : w.file.data[i].job = w.file.job

Prepared == {"ready", "transmit", "done"}

\* Only a write is received in two parts.
Receiving == dev.phase = "receive" => dev.req.op = "write"

Tracks ==
  /\ Own(Board)
  /\ Receiving
  /\ Told
  /\ phase[Worker] \in Prepared => Relies(Mine, Board)
  /\ phase[Worker] = "done" => at[Worker].op = "end"

JobInv == Inv /\ Roles /\ (Quiet => Tracks)

\* What others do in the meantime: the file is lost in a restart, and
\* entries of the card are deleted.
Kept(v, w) ==
  /\ w.file \in {v.file, None}
  /\ w.closed = v.closed
  /\ v.trouble \subseteq w.trouble
  /\ \A x \in Names : w.card[x] \in {v.card[x], None}

LEMMA KeptRelies ==
  ASSUME NEW m, NEW v, NEW w, Kept(v, w), m.job.kind # "none" => m.job.name \in Names, Relies(m, v)
  PROVE  Relies(m, w)
<1>1. CASE m.job.kind = "none"
  BY <1>1 DEF Relies, Kept
<1>2. CASE m.job.kind = "upload"
  <2>1. \A n : Writing(m, v, n) => Writing(m, w, n)
    BY DEF Writing, Kept
  <2>2. Uploads(m, w)
    BY <1>2, <2>1 DEF Relies, Uploads, Kept
  <2> QED
    BY <1>2, <2>2 DEF Relies
<1>3. CASE m.job.kind = "download"
  <2>1. \A n : Reading(m, v, n) => Reading(m, w, n)
    BY DEF Reading, Kept
  <2>2. w.card[m.job.name] # None => w.card[m.job.name] = v.card[m.job.name]
    BY <1>3 DEF Kept
  <2>3. Downloads(m, w)
    BY <1>3, <2>1, <2>2 DEF Relies, Downloads, Kept
  <2> QED
    BY <1>3, <2>3 DEF Relies
<1> QED
  BY <1>1, <1>2, <1>3 DEF Relies

LEMMA KeptOwn ==
  ASSUME NEW v, NEW w, Kept(v, w), Own(v)
  PROVE  Own(w)
BY DEF Kept, Own

LEMMA MovedName ==
  ASSUME NEW m, m.job \in Jobs, NEW x
  PROVE  Moved(m, x).job.kind = m.job.kind /\ Moved(m, x).job.name = m.job.name
BY DEF Moved, Jobs

LEMMA KeptTells ==
  ASSUME NEW m, m.job \in Jobs, m.job.kind # "none" => m.job.name \in Names,
         NEW v, NEW w, Kept(v, w), NEW x, Tells(m, v, x)
  PROVE  Tells(m, w, x)
<1>1. Moved(m, x).job.kind # "none" => Moved(m, x).job.name \in Names
  BY MovedName
<1> QED
  BY <1>1, KeptRelies DEF Tells

\* An answer to a request of an upload, and what the next step then has.
LEMMA UploadMoves ==
  ASSUME NEW m, m.job \in Jobs, m.job.kind = "upload", m.job.size \in Nat, m.at.n \in Nat,
         m.at.op \in {"getinfo", "mkdir", "open_write", "write", "close", "setinfo"},
         NEW w, NEW x,
         m.at.op = "open_write" => m.at.n = 0 /\ x.val = fileRef /\ Writing(m, w, 0),
         m.at.op = "write" =>
           m.ref = fileRef /\ m.at.n \in 1 .. m.job.size /\ Writing(m, w, m.at.n),
         m.at.op \in {"close", "setinfo"} =>
           /\ w.file = None
           /\ "full" \notin w.trouble =>
                w.closed.job = m.job.k /\ Numbered(w.closed.data, m.job.k, m.job.size)
  PROVE  Relies(Moved(m, x), w)
<1> DEFINE q == Moved(m, x)
<1>1. /\ q.job = m.job /\ q.at = AfterUpload(m.at.op, m.at.n, m.job.size, x.val = -1)
      /\ q.ref = IF m.at.op = "open_write" THEN x.val
                 ELSE IF q.at.op = "end" THEN 0 ELSE m.ref
  BY DEF Moved, NextStep
<1> HIDE DEF q
<1>2. \A n : Writing(q, w, n) <=> Writing(m, w, n)
  BY <1>1 DEF Writing
<1>3. Uploads(q, w)
  <2>1. CASE m.at.op \in {"getinfo", "mkdir"}
    <3>1. q.at \in {Step("mkdir", 0), Step("open_write", 0)}
      BY <1>1, <2>1 DEF AfterUpload
    <3> QED
      BY <1>1, <3>1 DEF Uploads, Step
  <2>2. CASE m.at.op \in {"open_write", "write"}
    <3>1. /\ q.at = IF m.at.n < m.job.size THEN Step("write", m.at.n + 1) ELSE Step("close", 0)
          /\ q.ref = fileRef
          /\ Writing(q, w, m.at.n)
          /\ m.at.n \in 0 .. m.job.size
      BY <1>1, <1>2, <2>2 DEF AfterUpload, OneMore, Step
    <3>2. CASE m.at.n < m.job.size
      <4>1. q.at.op = "write" /\ q.at.n \in 1 .. m.job.size /\ q.at.n - 1 = m.at.n
        BY <3>1, <3>2 DEF Step
      <4> QED
        BY <1>1, <3>1, <4>1 DEF Uploads
    <3>3. CASE ~(m.at.n < m.job.size)
      <4>1. q.at.op = "close" /\ m.at.n = m.job.size
        BY <3>1, <3>3 DEF Step
      <4> QED
        BY <1>1, <3>1, <4>1 DEF Uploads
    <3> QED
      BY <3>2, <3>3
  <2>3. CASE m.at.op \in {"close", "setinfo"}
    <3>1. q.at.op \in {"setinfo", "end"}
      BY <1>1, <2>3 DEF AfterUpload, Step
    <3> QED
      BY <1>1, <2>3, <3>1 DEF Uploads
  <2> QED
    BY <2>1, <2>2, <2>3
<1> QED
  BY <1>1, <1>3 DEF Relies, q

LEMMA DownloadMoves ==
  ASSUME NEW m, m.job \in Jobs, m.job.kind = "download", m.at.n \in Nat,
         m.at.op \in {"getinfo", "open", "read", "close"},
         NEW w, NEW x,
         m.at.op \in {"getinfo", "open"} => m.got = <<>>,
         m.at.op = "getinfo" =>
           /\ x.val \in Nat
           /\ w.card[m.job.name] # None => Len(w.card[m.job.name]) = x.val,
         m.at.op # "getinfo" => m.job.size \in Nat,
         m.at.op = "open" => m.at.n = 0 /\ x.val = fileRef /\ Reading(m, w, 0),
         m.at.op = "read" =>
           m.ref = fileRef /\ m.at.n \in 1 .. m.job.size /\ Reading(Moved(m, x), w, m.at.n),
         m.at.op = "close" =>
           /\ w.file = None
           /\ "badread" \notin w.trouble => w.closed.job = m.job.k /\ w.closed.data = m.got
  PROVE  Relies(Moved(m, x), w)
<1> DEFINE q == Moved(m, x)
<1>1. /\ q.job.kind = "download" /\ q.job.name = m.job.name /\ q.job.k = m.job.k
      /\ q.job.size = IF m.at.op = "getinfo" THEN x.val ELSE m.job.size
      /\ q.at = AfterDownload(m.at.op, m.at.n, m.job.size)
      /\ q.ref = IF m.at.op = "open" THEN x.val ELSE IF q.at.op = "end" THEN 0 ELSE m.ref
      /\ m.at.op # "read" => q.got = m.got
  BY DEF Moved, NextStep, Jobs
<1>2. m.at.op \in {"open", "read"} => Reading(q, w, m.at.n)
  BY <1>1 DEF Reading
<1> HIDE DEF q
<1>3. Downloads(q, w)
  <2>1. CASE m.at.op = "getinfo"
    <3>1. q.at = Step("open", 0)
      BY <1>1, <2>1 DEF AfterDownload
    <3> QED
      BY <1>1, <2>1, <3>1 DEF Downloads, Step
  <2>2. CASE m.at.op \in {"open", "read"}
    <3>1. /\ q.at = IF m.at.n < m.job.size THEN Step("read", m.at.n + 1) ELSE Step("close", 0)
          /\ q.ref = fileRef
          /\ m.at.n \in 0 .. m.job.size /\ q.job.size = m.job.size
      BY <1>1, <2>2 DEF AfterDownload, OneMore, Step
    <3>2. CASE m.at.n < m.job.size
      <4>1. q.at.op = "read" /\ q.at.n \in 1 .. m.job.size /\ q.at.n - 1 = m.at.n
        BY <2>2, <3>1, <3>2 DEF Step
      <4> QED
        BY <1>2, <2>2, <3>1, <4>1 DEF Downloads
    <3>3. CASE ~(m.at.n < m.job.size)
      <4>1. q.at.op = "close" /\ m.at.n = m.job.size
        BY <2>2, <3>1, <3>3 DEF Step
      <4> QED
        BY <1>2, <2>2, <3>1, <4>1 DEF Downloads
    <3> QED
      BY <3>2, <3>3
  <2>3. CASE m.at.op = "close"
    <3>1. q.at.op = "end"
      BY <1>1, <2>3 DEF AfterDownload, Step
    <3> QED
      BY <1>1, <2>3, <3>1 DEF Downloads
  <2> QED
    BY <2>1, <2>2, <2>3
<1> QED
  BY <1>1, <1>3 DEF Relies, q

\* What a thread that starts a job takes for it.
LEMMA StartParts ==
  ASSUME NEW t \in Thread, Start(t)
  PROVE  \E kind \in IF t = Worker THEN {"upload", "download"}
                                  ELSE {"getinfo", "delete", "mkdir", "dirlist"},
             x \in Path, size \in Sizes \cup {0} :
          /\ kind \in {"mkdir", "dirlist"} <=> x = Dir
          /\ IF kind = "upload" THEN size \in Sizes ELSE size = 0
          /\ LET j == [k |-> job[t].k + 1, kind |-> kind, name |-> x, size |-> size]
             IN  /\ job' = [job EXCEPT ![t] = j]
                 /\ at' = [at EXCEPT ![t] = FirstStep(j)]
BY Zenon DEF Start

\* The threads keep their roles.
LEMMA NextRoles ==
  ASSUME Base, Roles, [Next]_vars
  PROVE  Roles'
<1>0. Worker \in Thread /\ Ui \in Thread /\ Worker # Ui /\ Dir \notin Names
  BY TransferAssumption DEF Thread
<1>1. CASE UNCHANGED <<job, at>>
  BY <1>1 DEF Roles
<1>2. ASSUME NEW t \in Thread, GiveUp(t), UNCHANGED job
      PROVE  Roles'
  <2>1. at'[Ui] = at[Ui] \/ at'[Ui].op = "end"
    BY <1>0, <1>2 DEF GiveUp, Step, Base, TypeOK, EditorTypes
  <2> QED
    BY <1>2, <2>1 DEF Roles
<1>3. ASSUME NEW t \in Thread, Start(t)
      PROVE  Roles'
  <2>1. PICK kind \in IF t = Worker THEN {"upload", "download"}
                                    ELSE {"getinfo", "delete", "mkdir", "dirlist"},
             x \in Path, size \in Sizes \cup {0} :
          /\ kind \in {"mkdir", "dirlist"} <=> x = Dir
          /\ IF kind = "upload" THEN size \in Sizes ELSE size = 0
          /\ LET j == [k |-> job[t].k + 1, kind |-> kind, name |-> x, size |-> size]
             IN  /\ job' = [job EXCEPT ![t] = j]
                 /\ at' = [at EXCEPT ![t] = FirstStep(j)]
    BY <1>3, StartParts, Zenon
  <2> DEFINE j == [k |-> job[t].k + 1, kind |-> kind, name |-> x, size |-> size]
  <2>2. /\ job'[t] = j /\ at'[t] = FirstStep(j)
        /\ \A u \in Thread : u # t => job'[u] = job[u] /\ at'[u] = at[u]
    BY <2>1 DEF Base, TypeOK, EditorTypes
  <2>3. CASE t = Worker
    BY <1>0, <2>1, <2>2, <2>3 DEF Roles, Path
  <2>4. CASE t = Ui
    <3>1. FirstStep(j).op = kind
      BY <1>0, <2>1, <2>4 DEF FirstStep, Step
    <3> QED
      BY <1>0, <2>1, <2>2, <2>4, <3>1 DEF Roles
  <2> QED
    BY <2>3, <2>4 DEF Thread
<1>4. ASSUME NEW t \in Thread, Return(t)
      PROVE  Roles'
  <2>1. CASE GiveUp(t) /\ UNCHANGED job
    BY <1>2, <2>1
  <2>2. CASE /\ at' = [at EXCEPT ![t] = Following(t, result[t])]
             /\ job' = [job EXCEPT ![t] = IF @.kind = "download" /\ at[t].op = "getinfo"
                                          THEN [@ EXCEPT !.size = result[t].val] ELSE @]
    <3>1. \A u \in Thread : /\ job'[u].kind = job[u].kind /\ job'[u].name = job[u].name
                            /\ at'[u] = IF u = t THEN Following(t, result[t]) ELSE at[u]
      BY <2>2 DEF Base, TypeOK, EditorTypes, Jobs
    <3>2. t = Ui => Following(t, result[t]).op = "end"
      BY DEF Roles, Following, Step
    <3> QED
      BY <1>0, <3>1, <3>2 DEF Roles
  <2> QED
    BY <1>4, <2>1, <2>2 DEF Return
<1>5. ASSUME NEW t \in Thread, Prepare(t) \/ Take(t) \/ Timeout(t) \/ TransmitTimeout(t)
      PROVE  Roles'
  BY <1>1, <1>2, <1>5 DEF Prepare, Take, Timeout, TransmitTimeout, threadVars
<1>6. CASE ReceiveRest \/ Transfer \/ ProcessPacket \/ BusReset \/ Restart \/ Hangup \/ Connect
           \/ UNCHANGED vars
  BY <1>1, <1>6 DEF ReceiveRest, Transfer, ProcessPacket, BusReset, Restart, Hangup, Connect,
                    threadVars, vars
<1> QED
  BY <1>3, <1>4, <1>5, <1>6 DEF Next

LEMMA MineTypes ==
  ASSUME Base, Roles
  PROVE  /\ Worker \in Thread /\ Ui \in Thread /\ Worker # Ui /\ Thread = {Worker, Ui}
         /\ Mine.job = job[Worker] /\ Mine.at = at[Worker]
         /\ Mine.ref = ref[Worker] /\ Mine.got = got[Worker]
         /\ Mine.job \in Jobs /\ Mine.at.n \in Nat /\ Mine.got \in Seq(Block)
         /\ Mine.job.kind # "none" => Mine.job.name \in Names
BY TransferAssumption DEF Thread, Mine, Base, TypeOK, EditorTypes, Roles

\* Whatever others do, the worker's next step has what it relies on.
LEMMA OthersTracks ==
  ASSUME Base, Roles, Tracks, Mine' = Mine, Kept(Board, Board'),
         phase'[Worker] \in Prepared => phase[Worker] \in Prepared,
         phase'[Worker] = "done" => phase[Worker] = "done",
         result'[Worker] \in {None, result[Worker]},
         dev'.phase = "receive" => dev' = dev,
         lock' = Worker => \/ inbox' = None /\ dev'.out = <<>>
                           \/ UNCHANGED <<lock, inbox, dev>>
  PROVE  Tracks'
<1>1. \A x : Tells(Mine, Board, x) => Tells(Mine, Board', x)
  BY MineTypes, KeptTells
<1>2. phase'[Worker] \in Prepared => Relies(Mine, Board')
  BY MineTypes, KeptRelies DEF Tracks
<1>3. Own(Board')
  BY KeptOwn DEF Tracks
<1>4. Told'
  <2>1. result'[Worker] # None => Tells(Mine', Board', result'[Worker])
    BY <1>1 DEF Tracks, Told
  <2>2. CASE UNCHANGED <<lock, inbox, dev>>
    BY <1>1, <2>1, <2>2 DEF Tracks, Told, Final
  <2>3. CASE lock' # Worker
    BY <2>1, <2>3 DEF Told
  <2>4. CASE inbox' = None /\ dev'.out = <<>>
    <3>1. 1 .. Len(dev'.out) = {}
      <4>1. Len(dev'.out) = 0
        BY <2>4, EmptySeq
      <4> QED
        BY <4>1
    <3> QED
      BY <2>1, <2>4, <3>1 DEF Told
  <2> QED
    BY <2>2, <2>3, <2>4
<1>5. Receiving'
  BY DEF Tracks, Receiving
<1>6. at'[Worker] = at[Worker]
  BY DEF Mine
<1> QED
  BY <1>2, <1>3, <1>4, <1>5, <1>6 DEF Tracks

LEMMA SameBoard ==
  ASSUME UNCHANGED <<file, card, closed>>, trouble \subseteq trouble'
  PROVE  Kept(Board, Board')
BY DEF Kept, Board

LEMMA StartTracks ==
  ASSUME Base, Roles, Tracks, NEW t \in Thread, Start(t)
  PROVE  Tracks'
<1>1. PICK kind \in IF t = Worker THEN {"upload", "download"}
                                  ELSE {"getinfo", "delete", "mkdir", "dirlist"},
           x \in Path, size \in Sizes \cup {0} :
        /\ kind \in {"mkdir", "dirlist"} <=> x = Dir
        /\ IF kind = "upload" THEN size \in Sizes ELSE size = 0
        /\ LET j == [k |-> job[t].k + 1, kind |-> kind, name |-> x, size |-> size]
           IN  /\ job' = [job EXCEPT ![t] = j]
               /\ at' = [at EXCEPT ![t] = FirstStep(j)]
  BY StartParts, Zenon
<1> DEFINE j == [k |-> job[t].k + 1, kind |-> kind, name |-> x, size |-> size]
<1>2. /\ job'[t] = j /\ at'[t] = FirstStep(j)
      /\ phase'[t] = "ready" /\ got'[t] = <<>> /\ UNCHANGED <<ref, result>>
      /\ \A u \in Thread : u # t => /\ job'[u] = job[u] /\ at'[u] = at[u]
                                    /\ phase'[u] = phase[u] /\ got'[u] = got[u]
  BY <1>1 DEF Start, Base, TypeOK, EditorTypes
<1>3. UNCHANGED <<lock, inbox, dev, file, card, trouble>> /\ lock # t
  BY DEF Start, hostVars, Base, Monitor, TypeOK, EditorTypes
<1>4. CASE t = Worker
  <2>1. Relies(Mine', Board')
    <3>1. size \in Nat
      BY TransferAssumption
    <3>2. /\ Mine'.job = j /\ Mine'.at = FirstStep(j) /\ Mine'.got = <<>>
      BY <1>2, <1>4 DEF Mine
    <3>3. CASE kind = "upload"
      <4>1. Mine'.at \in {Step("getinfo", 0), Step("open_write", 0)}
        BY <3>2, <3>3 DEF FirstStep
      <4> QED
        BY <3>1, <3>2, <3>3, <4>1 DEF Relies, Uploads, Step
    <3>4. CASE kind = "download"
      <4>1. Mine'.at = Step("getinfo", 0)
        BY <3>2, <3>4 DEF FirstStep
      <4> QED
        BY <3>2, <3>4, <4>1 DEF Relies, Downloads, Step
    <3> QED
      BY <1>1, <1>4, <3>3, <3>4
  <2>2. Own(Board')
    BY <1>3 DEF Tracks, Own, Board
  <2>3. Told'
    BY <1>2, <1>3, <1>4 DEF Told, Base, Monitor
  <2> QED
    BY <1>2, <1>3, <1>4, <2>1, <2>2, <2>3 DEF Tracks, Receiving
<1>5. CASE t # Worker
  <2>1. closed' = closed
    BY <1>5 DEF Start
  <2>2. Mine' = Mine /\ phase'[Worker] = phase[Worker]
    BY <1>2, <1>5, MineTypes DEF Mine
  <2>3. Kept(Board, Board')
    BY <1>3, <2>1, SameBoard
  <2> QED
    BY <1>2, <1>3, <2>2, <2>3, OthersTracks
<1> QED
  BY <1>4, <1>5

\* The one who gives up relies on nothing.
LEMMA GiveUpTracks ==
  ASSUME Base, Roles, Tracks, NEW t \in Thread, GiveUp(t), Kept(Board, Board'), UNCHANGED job,
         dev'.phase = "receive" => dev' = dev
  PROVE  Tracks'
<1>1. /\ phase'[t] = "failed" /\ result'[t] = None /\ lock' = None
      /\ \A u \in Thread : u # t => /\ at'[u] = at[u] /\ phase'[u] = phase[u]
                                    /\ ref'[u] = ref[u] /\ got'[u] = got[u]
                                    /\ result'[u] = result[u]
  BY DEF GiveUp, Base, TypeOK, EditorTypes
<1>2. lock' # Worker
  BY <1>1, NoneIsNoThread DEF Thread
<1>3. CASE t = Worker
  <2>1. Own(Board')
    BY KeptOwn DEF Tracks
  <2> QED
    BY <1>1, <1>2, <1>3, <2>1 DEF Tracks, Told, Receiving, Prepared
<1>4. CASE t # Worker
  <2>1. Mine' = Mine /\ phase'[Worker] = phase[Worker] /\ result'[Worker] = result[Worker]
    BY <1>1, <1>4, MineTypes DEF Mine
  <2> QED
    BY <1>2, <2>1, OthersTracks
<1> QED
  BY <1>3, <1>4

LEMMA PrepareTracks ==
  ASSUME Base, Answers, Roles, Tracks, NEW t \in Thread, Prepare(t)
  PROVE  Tracks'
<1>1. Still /\ Still'
  BY Awaiting, NoneIsNoThread DEF Prepare, Still, boardVars
<1>2. UNCHANGED <<job, dev, file, card, closed, trouble>>
  BY DEF Prepare, boardVars
<1>3. Kept(Board, Board')
  BY <1>2, SameBoard
<1>4. CASE GiveUp(t)
  BY <1>2, <1>3, <1>4, GiveUpTracks
<1>5. CASE phase' = [phase EXCEPT ![t] = "transmit"] /\ UNCHANGED <<at, ref, got, result>>
  <2>1. Mine' = Mine
    BY <1>2, <1>5 DEF Mine
  <2>2. /\ phase'[Worker] \in Prepared => phase[Worker] \in Prepared
        /\ phase'[Worker] = "done" => phase[Worker] = "done"
    BY <1>5 DEF Prepare, Prepared, Base, TypeOK, EditorTypes
  <2> QED
    BY <1>1, <1>2, <1>3, <1>5, <2>1, <2>2, OthersTracks DEF Still
<1> QED
  BY <1>4, <1>5 DEF Prepare

LEMMA ReturnTracks ==
  ASSUME Base, Answers, Roles, Tracks, NEW t \in Thread, Return(t)
  PROVE  Tracks'
<1>1. UNCHANGED <<inbox, dev, file, card, closed, trouble>>
  BY DEF Return, boardVars
<1>2. Kept(Board, Board') /\ Board' = Board
  BY <1>1, SameBoard DEF Board
<1>3. CASE GiveUp(t) /\ UNCHANGED job
  BY <1>1, <1>2, <1>3, GiveUpTracks
<1> DEFINE r == result[t]
           next == Following(t, r)
<1>4. CASE /\ Good(t, r)
           /\ phase' = [phase EXCEPT ![t] = IF next.op = "end" THEN "done" ELSE "ready"]
           /\ at' = [at EXCEPT ![t] = next]
           /\ ref' = [ref EXCEPT ![t] = IF at[t].op \in {"open", "open_write"} THEN r.val
                                        ELSE IF next.op = "end" THEN 0 ELSE @]
           /\ got' = [got EXCEPT ![t] = IF at[t].op = "read" /\ r.val = 1
                                        THEN Append(@, r.block) ELSE @]
           /\ job' = [job EXCEPT ![t] = IF @.kind = "download" /\ at[t].op = "getinfo"
                                        THEN [@ EXCEPT !.size = r.val] ELSE @]
           /\ result' = [result EXCEPT ![t] = None]
           /\ lock' = None
  <2>1. lock' # Worker
    BY <1>4, NoneIsNoThread DEF Thread
  <2>2. CASE t = Worker
    <3>1. Mine' = Moved(Mine, r)
      <4>1. next = NextStep(Mine, r)
        BY <2>2 DEF Following, NextStep, Mine
      <4>2. Mine' = [job |-> job'[Worker], at |-> at'[Worker], ref |-> ref'[Worker], got |-> got'[Worker]]
        BY DEF Mine
      <4>3. /\ at'[t] = next
            /\ ref'[t] = IF at[t].op \in {"open", "open_write"} THEN r.val
                         ELSE IF next.op = "end" THEN 0 ELSE ref[t]
            /\ got'[t] = IF at[t].op = "read" /\ r.val = 1 THEN Append(got[t], r.block) ELSE got[t]
            /\ job'[t] = IF job[t].kind = "download" /\ at[t].op = "getinfo"
                         THEN [job[t] EXCEPT !.size = r.val] ELSE job[t]
        <5> HIDE DEF next, r
        <5> QED
          BY <1>4 DEF Base, TypeOK, EditorTypes
      <4> QED
        BY <2>2, <4>1, <4>2, <4>3, MineTypes DEF Moved
    <3>2. Fine(Mine, r)
      BY <1>4, <2>2 DEF Good, Fine, Mine
    <3>3. Relies(Mine', Board')
      BY <1>2, <2>2, <3>1, <3>2 DEF Return, Tracks, Told, Tells
    <3>4. result'[Worker] = None
      BY <1>4, <2>2 DEF Base, TypeOK, EditorTypes
    <3>5. Own(Board')
      BY <1>2 DEF Tracks
    <3>6. phase'[Worker] = "done" => at'[Worker].op = "end"
      <4> HIDE DEF next, r
      <4> QED
        BY <1>4, <2>2 DEF Base, TypeOK, EditorTypes
    <3> QED
      BY <1>1, <2>1, <3>3, <3>4, <3>5, <3>6 DEF Tracks, Told, Receiving
  <2>3. CASE t # Worker
    <3>1. /\ job'[Worker] = job[Worker] /\ at'[Worker] = at[Worker]
          /\ ref'[Worker] = ref[Worker] /\ got'[Worker] = got[Worker]
          /\ phase'[Worker] = phase[Worker] /\ result'[Worker] = result[Worker]
      <4> HIDE DEF next, r
      <4> QED
        BY <1>4, <2>3, MineTypes DEF Base, TypeOK, EditorTypes
    <3>2. Mine' = Mine
      BY <3>1 DEF Mine
    <3> QED
      BY <1>1, <1>2, <2>1, <3>1, <3>2, OthersTracks
  <2> QED
    BY <2>2, <2>3
<1> QED
  BY <1>3, <1>4 DEF Return

LEMMA TimeoutTracks ==
  ASSUME Base, Roles, Tracks, NEW t \in Thread, Timeout(t) \/ TransmitTimeout(t),
         trouble \subseteq trouble'
  PROVE  Tracks'
<1>1. GiveUp(t) /\ UNCHANGED <<job, dev, file, card, closed>>
  BY DEF Timeout, TransmitTimeout, boardVars
<1>2. Kept(Board, Board')
  BY <1>1, SameBoard
<1> QED
  BY <1>1, <1>2, GiveUpTracks

\* A block belongs to the job whose file it is appended to.
LEMMA AppendedOwn ==
  ASSUME NEW v, NEW w, NEW b \in Block, v.file \in Files, w.file \in Files, Own(v),
         w.file.job = v.file.job /\ w.file.write = v.file.write,
         w.file.data = Append(v.file.data, b), v.file.write, b.job = v.file.job
  PROVE  Own(w)
<1>1. PICK n \in Nat : n = Len(v.file.data) /\ Len(w.file.data) = n + 1
  BY AppendProperties DEF Files
<1>2. ASSUME NEW i \in 1 .. n + 1
      PROVE  w.file.data[i].job = v.file.job
  <2>1. CASE i = n + 1
    <3>1. w.file.data[i] = b
      BY <1>1, <2>1, AppendProperties DEF Files
    <3> QED
      BY <3>1
  <2>2. CASE i # n + 1
    <3>1. i \in 1 .. n /\ w.file.data[i] = v.file.data[i]
      BY <1>1, <1>2, <2>2, AppendProperties DEF Files
    <3>2. v.file # None
      BY NoneAssumption
    <3> QED
      BY <1>1, <3>1, <3>2 DEF Own
  <2> QED
    BY <2>1, <2>2
<1> QED
  BY <1>1, <1>2 DEF Own

\* The worker is the one whose block the board receives, and has the file.
LEMMA WorkerReceives ==
  ASSUME Base, Answers, Roles, Tracks, dev.phase = "receive"
  PROVE  /\ lock = Worker /\ phase[Worker] = "transmit" /\ dev.req = Req(Worker)
         /\ at[Worker].op = "write" /\ job[Worker].kind = "upload" /\ result[Worker] = None
         /\ Uploads(Mine, Board)
         /\ file \in Files /\ file.job = job[Worker].k /\ file.write
         /\ dev.req.job = job[Worker].k /\ dev.req.n = at[Worker].n
<1>1. lock \in Thread /\ phase[lock] = "transmit" /\ dev.req = Req(lock) /\ result[lock] = None
  BY Awaiting DEF Still
<1>2. at[lock].op = "write"
  BY <1>1 DEF Tracks, Receiving, Req
<1>3. lock = Worker
  BY <1>1, <1>2, MineTypes DEF Roles
<1>4. Relies(Mine, Board) /\ Mine.at.op = "write"
  BY <1>1, <1>2, <1>3, MineTypes DEF Tracks, Prepared
<1>5. job[Worker].kind = "upload" /\ Uploads(Mine, Board)
  BY <1>4, MineTypes DEF Relies, Downloads, Roles
<1>6. file \in Files
  BY DEF Base, TypeOK, BoardTypes
<1>7. file # None
  BY <1>6, NoneAssumption
<1>8. file.job = job[Worker].k /\ file.write
  BY <1>4, <1>5, <1>7, MineTypes DEF Uploads, Writing, Board
<1> QED
  BY <1>1, <1>2, <1>3, <1>5, <1>6, <1>8 DEF Req

LEMMA BreakTracks ==
  ASSUME Base, Answers, Roles, Tracks, Quiet', trouble \subseteq trouble',
         BusReset \/ Restart \/ Hangup \/ Connect
  PROVE  Tracks'
<1>1. ~Hangup
  BY DEF Hangup, Trouble, Quiet
<1>2. UNCHANGED <<job, at, ref, got, result, card, closed>> /\ Mine' = Mine
  BY DEF BusReset, Restart, Hangup, Connect, threadVars, boardVars, Mine
<1>3. CASE BusReset \/ Restart
  <2>1. /\ inbox' = None /\ dev'.out = <<>> /\ dev'.phase = "idle"
        /\ phase'[Worker] = IF phase[Worker] = "transmit" THEN "wait" ELSE phase[Worker]
    BY <1>3, MineTypes DEF BusReset, Restart, Disconnect, AbortTransmit, Idle
  <2>2. CASE file' \in {file, None}
    <3>1. Kept(Board, Board')
      BY <1>2, <2>2 DEF Kept, Board
    <3> QED
      BY <1>2, <2>1, <3>1, OthersTracks DEF Prepared
  <2>3. CASE dev.phase = "receive" /\ Written(Torn(dev.req.job))
    <3>1. /\ phase'[Worker] = "wait" /\ result'[Worker] = None
          /\ file \in Files /\ file.write /\ dev.req.job = file.job
      BY <1>2, <2>1, <2>3, WorkerReceives
    <3>2. Own(Board')
      <4>1. Torn(dev.req.job) \in Block /\ Torn(dev.req.job).job = file.job
        BY <3>1 DEF Torn, Block, Files
      <4>2. file' \in Files /\ file'.job = file.job /\ file'.write = file.write
            /\ file'.data = Append(file.data, Torn(dev.req.job))
        <5>1. Append(file.data, Torn(dev.req.job)) \in Seq(Block)
          BY <3>1, <4>1, AppendProperties DEF Files
        <5> QED
          BY <2>3, <3>1, <5>1 DEF Written, Files
      <4>3. Board.file = file /\ Board'.file = file'
        BY DEF Board
      <4> QED
        BY <3>1, <4>1, <4>2, <4>3, AppendedOwn DEF Tracks
    <3>3. 1 .. Len(dev'.out) = {}
      <4>1. Len(dev'.out) = 0
        BY <2>1, EmptySeq
      <4> QED
        BY <4>1
    <3> QED
      BY <2>1, <3>1, <3>2, <3>3 DEF Tracks, Told, Receiving, Prepared
  <2> QED
    BY <1>3, <2>2, <2>3 DEF BusReset, Restart
<1>4. CASE Connect
  <2>1. UNCHANGED <<phase, lock, inbox, dev, file, trouble>>
    BY <1>4 DEF Connect, boardVars
  <2>2. Kept(Board, Board')
    BY <1>2, <2>1, SameBoard
  <2> QED
    BY <1>2, <2>1, <2>2, OthersTracks
<1> QED
  BY <1>1, <1>3, <1>4

LEMMA TransferTracks ==
  ASSUME Base, Roles, Tracks, Transfer
  PROVE  Tracks'
<1>1. /\ dev.out \in Seq(Packets) /\ Len(dev.out) \in Nat \ {0}
      /\ inbox' = dev.out[1] /\ dev'.phase # "receive"
      /\ Len(dev'.out) = Len(dev.out) - 1
      /\ \A i \in 1 .. Len(dev'.out) : dev'.out[i] = dev.out[i + 1]
  BY TransferDevice DEF Base
<1>2. UNCHANGED <<job, at, ref, got, phase, result, lock, file, card, closed, trouble>>
      /\ Mine' = Mine /\ Board' = Board
  BY DEF Transfer, threadVars, Mine, Board
<1>3. lock = Worker => \A i \in 1 .. Len(dev.out) : Final(dev.out[i]) => Tells(Mine, Board, dev.out[i])
  BY DEF Tracks, Told
<1>4. 1 \in 1 .. Len(dev.out)
  BY <1>1
<1>5. ASSUME NEW i \in 1 .. Len(dev'.out)
      PROVE  dev'.out[i] = dev.out[i + 1] /\ i + 1 \in 1 .. Len(dev.out)
  BY <1>1
<1>6. Told'
  BY <1>1, <1>2, <1>3, <1>4, <1>5 DEF Tracks, Told, Final
<1> QED
  BY <1>1, <1>2, <1>6 DEF Tracks, Receiving

\* The result says what the packet said.
LEMMA ProcessTracks ==
  ASSUME Base, Answers, Roles, Tracks, ProcessPacket
  PROVE  Tracks'
<1>1. UNCHANGED <<job, at, ref, got, phase, lock, dev, file, card, closed, trouble>>
      /\ inbox' = None /\ inbox # None /\ Mine' = Mine /\ Board' = Board
  BY DEF ProcessPacket, threadVars, boardVars, Mine, Board
<1>2. ASSUME result'[Worker] # result[Worker]
      PROVE  Tells(Mine, Board, result'[Worker])
  <2>1. /\ lock = Worker /\ consumer # None /\ Completes(consumer, inbox)
        /\ result'[Worker] = [err |-> inbox.err, val |-> inbox.val, block |-> inbox.block,
                              from |-> consumer.from \cup {inbox.for}]
        /\ Req(Worker) = consumer.req
    BY <1>2, ProcessResult, MineTypes DEF Base
  <2>2. Req(Worker) = inbox.for
    BY <1>1, <2>1 DEF Answers, Way, Awaited
  <2>3. Final(inbox)
    <3>1. inbox.type = "info" => inbox.for.op = "getinfo"
      BY <2>1, <2>2 DEF Completes, ResultOp
    <3>2. inbox.type \in {"result", "info", "data", "end"}
      BY <2>1 DEF Completes
    <3> QED
      BY <3>1, <3>2 DEF Final
  <2>4. Tells(Mine, Board, inbox)
    BY <1>1, <2>1, <2>3 DEF Tracks, Told
  <2> DEFINE x == result'[Worker]
  <2>5. x.err = inbox.err /\ x.val = inbox.val /\ x.block = inbox.block
    BY <2>1
  <2> HIDE DEF x
  <2>6. Moved(Mine, x) = Moved(Mine, inbox) /\ (Fine(Mine, x) <=> Fine(Mine, inbox))
    BY <2>5 DEF Moved, NextStep, Fine
  <2> QED
    BY <2>4, <2>6 DEF Tells, x
<1>3. Told'
  BY <1>1, <1>2 DEF Tracks, Told, Final
<1> QED
  BY <1>1, <1>3 DEF Tracks, Receiving

\* The board takes a request of the user interface, which opens no file.
LEMMA UiTakes ==
  ASSUME Base, Roles, Tracks, Take(Ui), trouble \subseteq trouble'
  PROVE  Tracks'
<1> DEFINE r == Req(Ui)
<1>1. /\ lock # Worker /\ phase'[Worker] = phase[Worker]
      /\ UNCHANGED <<job, at, ref, got, result, lock, inbox>> /\ Mine' = Mine
  <2>1. lock = Ui
    BY MineTypes DEF Take, Base, Monitor
  <2>2. phase'[Worker] = phase[Worker]
    BY MineTypes DEF Take, Base, TypeOK, EditorTypes
  <2> QED
    BY <2>1, <2>2, MineTypes DEF Take, threadVars, hostVars, Mine
<1>2. RcvFGetInfo(r) \/ RcvFDirlist(r) \/ RcvFDelete(r) \/ RcvFMkdir(r)
  <2>1. r.op \in {"getinfo", "delete", "mkdir", "dirlist", "end"} /\ Dispatch(r)
    BY DEF Take, Roles, Req
  <2> QED
    BY <2>1 DEF Dispatch, RcvFOpen, RcvFOpenWrite, RcvFClose, RcvFRead, RcvFWrite, RcvFSetInfo
<1>3. dev'.phase = "reply"
  <2>1. \A out : Answer(r, out) => dev'.phase = "reply"
    BY DEF Answer
  <2> QED
    BY <1>2, <2>1 DEF RcvFGetInfo, RcvFDirlist, RcvFDelete, RcvFMkdir, FResult
<1>4. /\ UNCHANGED <<file, closed>>
      /\ \/ card' = card
         \/ card' = [card EXCEPT ![r.name] = None]
         \/ card' = [card EXCEPT ![Dir] = <<>>]
  BY <1>2 DEF RcvFGetInfo, RcvFDirlist, RcvFDelete, RcvFMkdir
<1>5. \A x \in Names : card'[x] \in {card[x], None}
  <2>1. Dir \notin Names /\ card \in [Path -> Seq(Block) \cup {None}]
    BY TransferAssumption DEF Base, TypeOK, BoardTypes
  <2> HIDE DEF r
  <2> QED
    BY <1>4, <2>1 DEF Path
<1>6. Kept(Board, Board')
  BY <1>4, <1>5 DEF Kept, Board
<1> QED
  BY <1>1, <1>3, <1>6, OthersTracks

\* It takes one of the worker.
LEMMA WorkerTakes ==
  ASSUME Base, Answers, Roles, Tracks, Take(Worker)
  PROVE  /\ inbox' = None /\ result'[Worker] = None /\ Mine' = Mine
         /\ phase[Worker] = "transmit"
         /\ Relies(Mine, Board) /\ Mine.at.op \in Op /\ Mine.job.kind \in {"upload", "download"}
         /\ Req(Worker).op = Mine.at.op /\ Req(Worker).job = Mine.job.k
         /\ Req(Worker).ref = Mine.ref
         /\ Mine.at.op \notin {"getinfo", "mkdir"} \/ Mine.job.kind = "download" =>
              Req(Worker).name = Mine.job.name
         /\ Dispatch(Req(Worker)) /\ Req(Worker) \in Request
         /\ phase' = IF dev'.phase = "receive" THEN phase ELSE [phase EXCEPT ![Worker] = "wait"]
<1>1. /\ phase[Worker] = "transmit" /\ inbox = None /\ result[Worker] = None
      /\ Relies(Mine, Board) /\ at[Worker].op \in Op
  BY MineTypes, Awaiting DEF Take, Answers, Tracks, Prepared, Base, Requests
<1>2. UNCHANGED <<job, at, ref, got, result, inbox>> /\ Mine' = Mine
  BY DEF Take, threadVars, hostVars, Mine
<1>3. Mine.job.kind \in {"upload", "download"}
  BY <1>1, MineTypes DEF Relies, Roles, Op, ResultOp
<1>4. Req(Worker) \in Request
  BY <1>1, MineTypes, ReqType DEF Base
<1> QED
  BY <1>1, <1>2, <1>3, <1>4, MineTypes DEF Req, Target, Take

\* The answer is one packet.
LEMMA AnswerTold ==
  ASSUME Base, Roles, NEW r, NEW p, Answer(r, <<p>>), Own(Board'), Tells(Mine, Board', p),
         Mine' = Mine, inbox' = None, result'[Worker] = None, phase'[Worker] \notin Prepared
  PROVE  Tracks'
<1>1. dev'.out = <<p>> /\ dev'.phase = "reply" /\ 1 .. Len(dev'.out) = {1} /\ dev'.out[1] = p
  BY DEF Answer
<1> QED
  BY <1>1 DEF Tracks, Told, Receiving, Prepared

LEMMA ResultTold ==
  ASSUME Base, Roles, NEW r, NEW e, NEW v, FResult(r, e, v), Own(Board'),
         Mine.at.op \in ResultOp, Mine.at.op # "mkdir", e = "ok" => Relies(Moved(Mine, Packet("result", r, e, v)), Board'),
         Mine' = Mine, inbox' = None, result'[Worker] = None, phase'[Worker] \notin Prepared
  PROVE  Tracks'
<1> DEFINE p == Packet("result", r, e, v)
<1>1. p.err = e
  BY DEF Packet
<1>2. Tells(Mine, Board', p)
  <2> HIDE DEF p
  <2> QED
    BY <1>1 DEF Tells, Fine, p
<1> QED
  BY <1>2, AnswerTold DEF FResult

LEMMA UploadTakes ==
  ASSUME Base, Base', Answers, Roles, Tracks, Take(Worker), Mine.job.kind = "upload",
         trouble \subseteq trouble'
  PROVE  Tracks'
<1> DEFINE r == Req(Worker)
           op == Mine.at.op
<1>1. /\ inbox' = None /\ result'[Worker] = None /\ Mine' = Mine
      /\ Uploads(Mine, Board) /\ op \in Op
      /\ r.op = op /\ r.job = Mine.job.k /\ r.ref = Mine.ref /\ Dispatch(r)
      /\ op \notin {"getinfo", "mkdir"} => r.name = Mine.job.name
      /\ phase' = IF dev'.phase = "receive" THEN phase ELSE [phase EXCEPT ![Worker] = "wait"]
  BY WorkerTakes DEF Relies
<1>2. /\ Mine.job \in Jobs /\ Mine.job.size \in Nat /\ Mine.at.n \in Nat
      /\ Own(Board)
      /\ file \in Files \cup {None}
  BY <1>1, MineTypes DEF Uploads, Base, TypeOK, BoardTypes, Tracks
<1>3. dev'.phase = "reply" => phase'[Worker] \notin Prepared
  BY <1>1, MineTypes DEF Prepared, Base, TypeOK, EditorTypes
<1>4. \A out : Answer(r, out) => dev'.phase = "reply"
  BY DEF Answer
<1>5. \A e, v : FResult(r, e, v) => dev'.phase = "reply"
  BY <1>4 DEF FResult
<1> HIDE DEF r
<1>6. CASE op = "getinfo"
  <2>1. PICK p : Answer(r, <<p>>) /\ UNCHANGED <<file, card, closed>>
    BY <1>1, <1>6 DEF Dispatch, RcvFOpen, RcvFOpenWrite, RcvFClose, RcvFRead, RcvFWrite,
                      RcvFGetInfo, RcvFDirlist, RcvFSetInfo, RcvFDelete, RcvFMkdir
  <2>2. Relies(Moved(Mine, p), Board')
    BY <1>2, <1>6, UploadMoves
  <2>3. Own(Board')
    BY <1>2, <2>1 DEF Own, Board
  <2> QED
    BY <1>1, <1>3, <1>4, <2>1, <2>2, <2>3, AnswerTold DEF Tells
<1>7. CASE op = "mkdir"
  <2>1. PICK p : Answer(r, <<p>>) /\ UNCHANGED <<file, closed>>
    BY <1>1, <1>7 DEF Dispatch, RcvFOpen, RcvFOpenWrite, RcvFClose, RcvFRead, RcvFWrite,
                      RcvFGetInfo, RcvFDirlist, RcvFSetInfo, RcvFDelete, RcvFMkdir, FResult
  <2>2. Relies(Moved(Mine, p), Board')
    BY <1>2, <1>7, UploadMoves
  <2>3. Own(Board')
    BY <1>2, <2>1 DEF Own, Board
  <2> QED
    BY <1>1, <1>3, <1>4, <2>1, <2>2, <2>3, AnswerTold DEF Tells
<1>8. CASE op = "open_write"
  <2>1. RcvFOpenWrite(r)
    BY <1>1, <1>8 DEF Dispatch, RcvFOpen, RcvFOpenWrite, RcvFClose, RcvFRead, RcvFWrite,
                      RcvFGetInfo, RcvFDirlist, RcvFSetInfo, RcvFDelete, RcvFMkdir
  <2>2. PICK e, v : /\ FResult(r, e, v)
                    /\ \/ file' = file /\ e = "busy"
                       \/ e = "ok" /\ v = fileRef /\ file' = Opened(r, TRUE, <<>>)
                       \/ e # "ok" /\ file' = None
    BY <2>1 DEF RcvFOpenWrite
  <2>3. Own(Board')
    <3>1. \A i \in 1 .. Len(<<>>) : FALSE
      OBVIOUS
    <3> QED
      BY <1>2, <2>2, <3>1 DEF Own, Board, Opened
  <2>4. ASSUME e = "ok"
        PROVE  Relies(Moved(Mine, Packet("result", r, e, v)), Board')
    <3>1. Writing(Mine, Board', 0)
      BY <1>1, <2>2, <2>4 DEF Writing, Board, Opened, Numbered
    <3>2. Mine.at.n = 0 /\ Packet("result", r, e, v).val = fileRef
      BY <1>1, <1>8, <2>2, <2>4 DEF Uploads, Packet
    <3> QED
      BY <1>2, <1>8, <3>1, <3>2, UploadMoves
  <2> QED
    BY <1>1, <1>3, <1>5, <1>8, <2>2, <2>3, <2>4, ResultTold DEF ResultOp
<1>9. CASE op = "write"
  <2>1. RcvFWrite(r)
    BY <1>1, <1>9 DEF Dispatch, RcvFOpen, RcvFOpenWrite, RcvFClose, RcvFRead, RcvFWrite,
                      RcvFGetInfo, RcvFDirlist, RcvFSetInfo, RcvFDelete, RcvFMkdir
  <2>2. UNCHANGED <<file, card, closed>>
    BY <2>1 DEF RcvFWrite
  <2>3. Own(Board')
    BY <1>2, <2>2 DEF Own, Board
  <2>4. CASE dev' = [phase |-> "receive", req |-> r, out |-> <<>>]
    <3>1. dev'.phase = "receive" /\ dev'.req = r /\ 1 .. Len(dev'.out) = {}
      <4>1. dev'.out = <<>> /\ Len(<<>>) = 0 /\ 1 .. 0 = {}
        BY <2>4
      <4> QED
        BY <2>4, <4>1
    <3>2. Kept(Board, Board')
      BY <2>2, SameBoard
    <3>3. Relies(Mine', Board')
      BY <1>1, <3>2, MineTypes, KeptRelies, WorkerTakes
    <3>4. phase'[Worker] # "done"
      BY <1>1, <3>1, WorkerTakes
    <3> QED
      BY <1>1, <1>9, <2>3, <3>1, <3>3, <3>4 DEF Tracks, Told, Receiving
  <2>5. CASE FResult(r, "param", 0)
    BY <1>1, <1>3, <1>5, <1>9, <2>3, <2>5, ResultTold DEF ResultOp
  <2> QED
    BY <2>1, <2>4, <2>5 DEF RcvFWrite
<1>10. CASE op = "close"
  <2>1. RcvFClose(r)
    BY <1>1, <1>10 DEF Dispatch, RcvFOpen, RcvFOpenWrite, RcvFClose, RcvFRead, RcvFWrite,
                       RcvFGetInfo, RcvFDirlist, RcvFSetInfo, RcvFDelete, RcvFMkdir
  <2>2. PICK e : /\ FResult(r, e, 0)
                 /\ \/ file' = file /\ e = "param"
                    \/ file # None /\ file' = None /\ closed' = [job |-> file.job, data |-> file.data]
    BY <2>1 DEF RcvFClose, Release, IsOpen
  <2>3. Own(Board')
    BY <1>2, <2>2 DEF Own, Board
  <2>4. ASSUME e = "ok"
        PROVE  Relies(Moved(Mine, Packet("result", r, e, 0)), Board')
    <3>1. Writing(Mine, Board, Mine.job.size)
      BY <1>1, <1>10 DEF Uploads
    <3>2. /\ file # None /\ file' = None /\ closed'.job = file.job /\ closed'.data = file.data
      BY <2>2, <2>4
    <3>3. /\ Board'.file = None
          /\ "full" \notin Board'.trouble =>
               Board'.closed.job = Mine.job.k /\ Numbered(Board'.closed.data, Mine.job.k, Mine.job.size)
      BY <3>1, <3>2 DEF Writing, Board
    <3> QED
      BY <1>2, <1>10, <3>3, UploadMoves
  <2> QED
    BY <1>1, <1>3, <1>5, <1>10, <2>2, <2>3, <2>4, ResultTold DEF ResultOp
<1>11. CASE op = "setinfo"
  <2>1. RcvFSetInfo(r)
    BY <1>1, <1>11 DEF Dispatch, RcvFOpen, RcvFOpenWrite, RcvFClose, RcvFRead, RcvFWrite,
                       RcvFGetInfo, RcvFDirlist, RcvFSetInfo, RcvFDelete, RcvFMkdir
  <2>2. PICK e : FResult(r, e, 0) /\ UNCHANGED <<file, card, closed>>
    BY <2>1 DEF RcvFSetInfo
  <2>3. Own(Board')
    BY <1>2, <2>2 DEF Own, Board
  <2>4. /\ Board'.file = None
        /\ "full" \notin Board'.trouble =>
             Board'.closed.job = Mine.job.k /\ Numbered(Board'.closed.data, Mine.job.k, Mine.job.size)
    BY <1>1, <1>11, <2>2 DEF Uploads, Board
  <2>5. Relies(Moved(Mine, Packet("result", r, e, 0)), Board')
    BY <1>2, <1>11, <2>4, UploadMoves
  <2> QED
    BY <1>1, <1>3, <1>5, <1>11, <2>2, <2>3, <2>5, ResultTold DEF ResultOp
<1> QED
  BY <1>1, <1>6, <1>7, <1>8, <1>9, <1>10, <1>11 DEF Uploads, Op, ResultOp

LEMMA ReadTold ==
  ASSUME Base, Roles, NEW r, NEW e, NEW v, NEW d,
         Answer(r, <<Packet("read", r, e, v), d>>), Own(Board'), Relies(Moved(Mine, d), Board'),
         Mine' = Mine, inbox' = None, result'[Worker] = None, phase'[Worker] \notin Prepared
  PROVE  Tracks'
<1> DEFINE p == Packet("read", r, e, v)
<1>1. p.type = "read"
  BY DEF Packet
<1> HIDE DEF p
<1>2. dev'.out = <<p, d>> /\ dev'.phase = "reply"
      /\ 1 .. Len(dev'.out) = {1, 2} /\ dev'.out[1] = p /\ dev'.out[2] = d
  BY DEF Answer, p
<1>3. ~Final(p)
  BY <1>1 DEF Final
<1>4. Tells(Mine, Board', d)
  BY DEF Tells
<1>5. \A i \in 1 .. Len(dev'.out) : Final(dev.out[i])' => Tells(Mine, Board', dev'.out[i])
  BY <1>2, <1>3, <1>4 DEF Final
<1> QED
  BY <1>2, <1>5 DEF Tracks, Told, Receiving, Prepared

\* A read gives the worker the block at the file's position.
LEMMA BlockRead ==
  ASSUME NEW m, m.job \in Jobs, m.at.op = "read", m.at.n \in Nat \ {0}, m.got \in Seq(Block),
         NEW v, NEW w, v.file \in Files, w.file \in Files, Reading(m, v, m.at.n - 1),
         NEW d, d.val = 1, d.block \in Block, d.block = v.file.data[v.file.pos + 1],
         w.file.job = v.file.job, w.file.write = v.file.write, w.file.data = v.file.data,
         w.file.pos = v.file.pos + 1, v.trouble \subseteq w.trouble
  PROVE  Reading(Moved(m, d), w, m.at.n)
<1>1. v.file # None
  BY NoneAssumption
<1> DEFINE q == Moved(m, d)
<1>2. q.job.k = m.job.k /\ q.job.size = m.job.size /\ q.got = Append(m.got, d.block)
  BY DEF Moved
<1> HIDE DEF q
<1>3. ASSUME "badread" \notin w.trouble
      PROVE  /\ w.file.pos = m.at.n /\ Len(q.got) = m.at.n
             /\ \A i \in 1 .. m.at.n : q.got[i] = w.file.data[i]
  <2>1. PICK l \in Nat : l = m.at.n - 1
    OBVIOUS
  <2>2. /\ v.file.pos = l /\ Len(m.got) = l
        /\ \A i \in 1 .. l : m.got[i] = v.file.data[i]
    BY <1>1, <1>3, <2>1 DEF Reading
  <2>3. /\ Len(q.got) = l + 1 /\ q.got[l + 1] = v.file.data[l + 1]
        /\ \A i \in 1 .. l : q.got[i] = m.got[i]
    BY <1>2, <2>2, AppendProperties
  <2>4. ASSUME NEW i \in 1 .. l + 1
        PROVE  q.got[i] = w.file.data[i]
    <3>1. i = l + 1 \/ i \in 1 .. l
      OBVIOUS
    <3> QED
      BY <2>2, <2>3, <3>1
  <2>5. m.at.n = l + 1
    BY <2>1
  <2> QED
    BY <2>2, <2>3, <2>4, <2>5
<1>4. w.file.job = q.job.k /\ ~w.file.write /\ Len(w.file.data) = q.job.size
  BY <1>1, <1>2 DEF Reading
<1> QED
  BY <1>3, <1>4 DEF Reading, q

LEMMA DownloadTakes ==
  ASSUME Base, Base', Answers, Roles, Tracks, Take(Worker), Mine.job.kind = "download",
         trouble \subseteq trouble'
  PROVE  Tracks'
<1> DEFINE r == Req(Worker)
           op == Mine.at.op
<1>1. /\ inbox' = None /\ result'[Worker] = None /\ Mine' = Mine
      /\ Downloads(Mine, Board) /\ op \in Op
      /\ r.op = op /\ r.job = Mine.job.k /\ r.ref = Mine.ref /\ r.name = Mine.job.name
      /\ Dispatch(r)
      /\ phase' = IF dev'.phase = "receive" THEN phase ELSE [phase EXCEPT ![Worker] = "wait"]
  BY WorkerTakes DEF Relies
<1>2. /\ Mine.job \in Jobs /\ Mine.at.n \in Nat /\ Mine.got \in Seq(Block)
      /\ Mine.job.name \in Path /\ Own(Board)
      /\ file \in Files \cup {None} /\ file' \in Files \cup {None}
      /\ card \in [Path -> Seq(Block) \cup {None}]
  BY <1>1, MineTypes DEF Base, TypeOK, BoardTypes, Tracks, Path
<1>3. dev'.phase = "reply" => phase'[Worker] \notin Prepared
  BY <1>1, MineTypes DEF Prepared, Base, TypeOK, EditorTypes
<1>4. \A out : Answer(r, out) => dev'.phase = "reply"
  BY DEF Answer
<1>5. \A e, v : FResult(r, e, v) => dev'.phase = "reply"
  BY <1>4 DEF FResult
<1> HIDE DEF r
<1>6. CASE op = "getinfo"
  <2>1. RcvFGetInfo(r)
    BY <1>1, <1>6 DEF Dispatch, RcvFOpen, RcvFOpenWrite, RcvFClose, RcvFRead, RcvFWrite,
                      RcvFGetInfo, RcvFDirlist, RcvFSetInfo, RcvFDelete, RcvFMkdir
  <2>2. PICK e, v : /\ Answer(r, <<Packet("info", r, e, v)>>)
                    /\ v = IF e = "ok" THEN Size(r.name) ELSE -1
    BY <2>1 DEF RcvFGetInfo
  <2>3. UNCHANGED <<file, card, closed>>
    BY <2>1 DEF RcvFGetInfo
  <2> DEFINE p == Packet("info", r, e, v)
  <2>4. p.val = v
    BY DEF Packet
  <2>5. ASSUME v # -1
        PROVE  /\ v \in Nat
               /\ Board'.card[Mine.job.name] # None => Len(Board'.card[Mine.job.name]) = v
    <3>1. card[Mine.job.name] # None /\ v = Len(card[Mine.job.name])
      BY <1>1, <2>2, <2>5 DEF Size
    <3>2. card[Mine.job.name] \in Seq(Block)
      BY <1>2, <3>1
    <3> QED
      BY <2>3, <3>1, <3>2 DEF Board
  <2>6. Own(Board')
    BY <1>2, <2>3 DEF Own, Board
  <2> HIDE DEF p
  <2>7. v # -1 => Relies(Moved(Mine, p), Board')
    BY <1>1, <1>2, <1>6, <2>4, <2>5, DownloadMoves DEF Downloads
  <2>8. Tells(Mine, Board', p)
    BY <1>6, <2>4, <2>7 DEF Tells, Fine
  <2> QED
    BY <1>1, <1>3, <1>4, <2>2, <2>6, <2>8, AnswerTold DEF p
<1>7. CASE op = "open"
  <2>1. RcvFOpen(r)
    BY <1>1, <1>7 DEF Dispatch, RcvFOpen, RcvFOpenWrite, RcvFClose, RcvFRead, RcvFWrite,
                      RcvFGetInfo, RcvFDirlist, RcvFSetInfo, RcvFDelete, RcvFMkdir
  <2>2. PICK e, v : /\ FResult(r, e, v)
                    /\ \/ file' = file /\ e = "busy"
                       \/ /\ e = "ok" /\ v = fileRef /\ card[r.name] # None
                          /\ file' = Opened(r, FALSE, card[r.name])
                       \/ e # "ok" /\ file' = None
    BY <2>1 DEF RcvFOpen
  <2>3. Own(Board')
    BY <1>2, <2>2 DEF Own, Board, Opened
  <2>4. ASSUME e = "ok"
        PROVE  Relies(Moved(Mine, Packet("result", r, e, v)), Board')
    <3>1. Reading(Mine, Board', 0)
      <4>1. /\ Mine.got = <<>> /\ Len(<<>>) = 0 /\ 1 .. 0 = {}
            /\ Len(card[r.name]) = Mine.job.size
        BY <1>1, <1>7, <2>2, <2>4 DEF Downloads, Board
      <4> QED
        BY <1>1, <2>2, <2>4, <4>1 DEF Reading, Board, Opened
    <3>2. /\ Mine.at.n = 0 /\ Packet("result", r, e, v).val = fileRef
          /\ Mine.got = <<>> /\ Mine.job.size \in Nat
      BY <1>1, <1>7, <2>2, <2>4 DEF Downloads, Packet
    <3> QED
      BY <1>2, <1>7, <3>1, <3>2, DownloadMoves
  <2> QED
    BY <1>1, <1>3, <1>5, <1>7, <2>2, <2>3, <2>4, ResultTold DEF ResultOp
<1>8. CASE op = "read"
  <2>1. RcvFRead(r)
    BY <1>1, <1>8 DEF Dispatch, RcvFOpen, RcvFOpenWrite, RcvFClose, RcvFRead, RcvFWrite,
                      RcvFGetInfo, RcvFDirlist, RcvFSetInfo, RcvFDelete, RcvFMkdir
  <2>2. /\ Mine.ref = fileRef /\ Mine.job.size \in Nat /\ Mine.at.n \in 1 .. Mine.job.size
        /\ Reading(Mine, Board, Mine.at.n - 1)
    BY <1>1, <1>8 DEF Downloads
  <2>3. Own(Board')
    <3>1. file' = file \/ (~file.write /\ file \in Files /\ file' = [file EXCEPT !.pos = @ + 1])
      BY <1>2, <2>1 DEF RcvFRead, Readable, IsOpen
    <3> QED
      BY <1>2, <3>1 DEF Own, Board, Files
  <2>4. ASSUME NEW d, Reading(Moved(Mine, d), Board', Mine.at.n)
        PROVE  Relies(Moved(Mine, d), Board')
    BY <1>2, <1>8, <2>2, <2>4, DownloadMoves
  <2>5. ASSUME NEW e, NEW v, NEW d, Answer(r, <<Packet("read", r, e, v), d>>),
               Reading(Moved(Mine, d), Board', Mine.at.n)
        PROVE  Tracks'
    BY <1>1, <1>3, <1>4, <2>3, <2>4, <2>5, ReadTold
  <2>6. CASE /\ Readable(r)
             /\ Answer(r, <<Packet("read", r, "ok", 1), Data(r, 1, file.data[file.pos + 1])>>)
             /\ file' = [file EXCEPT !.pos = @ + 1]
    <3> DEFINE d == Data(r, 1, file.data[file.pos + 1])
    <3>1. file \in Files /\ file.pos < Len(file.data)
      BY <1>2, <2>6 DEF Readable, IsOpen
    <3>2. file.data[file.pos + 1] \in Block
      <4>1. PICK n \in Nat : n = Len(file.data)
        BY <3>1 DEF Files
      <4>2. file.pos + 1 \in 1 .. n
        BY <3>1, <4>1 DEF Files
      <4> QED
        BY <3>1, <4>1, <4>2, ElementOfSeq DEF Files
    <3>3. d.val = 1 /\ d.block = file.data[file.pos + 1]
      BY DEF Data
    <3>4. /\ file' \in Files /\ file'.job = file.job /\ file'.write = file.write
          /\ file'.data = file.data /\ file'.pos = file.pos + 1
      BY <2>6, <3>1 DEF Files
    <3>5. Board.file = file /\ Board'.file = file' /\ Board.trouble \subseteq Board'.trouble
      BY DEF Board
    <3>6. Mine.at.n \in Nat \ {0}
      BY <1>2, <2>2
    <3> HIDE DEF d
    <3>7. Reading(Moved(Mine, d), Board', Mine.at.n)
      BY <1>2, <1>8, <2>2, <3>1, <3>2, <3>3, <3>4, <3>5, <3>6, BlockRead
    <3> QED
      BY <2>5, <2>6, <3>7 DEF d
  <2>7. CASE /\ UNCHANGED file
             /\ "badread" \in trouble' \/ ~Readable(r)
             /\ \E e : Answer(r, <<Packet("read", r, e, 0), Data(r, 0, None)>>)
    <3> DEFINE d == Data(r, 0, None)
    <3>1. /\ Moved(Mine, d).got = Mine.got /\ Moved(Mine, d).job = Mine.job
      BY <1>8 DEF Moved, Data
    <3>2. ASSUME file # None, "badread" \notin trouble'
          PROVE  FALSE
      <4>1. ~Readable(r) /\ "badread" \notin trouble /\ file \in Files
        BY <1>2, <2>7, <3>2
      <4>2. ~file.write /\ Len(file.data) = Mine.job.size /\ file.pos = Mine.at.n - 1
        BY <2>2, <3>2, <4>1 DEF Reading, Board
      <4>3. file.pos < Len(file.data)
        BY <2>2, <4>2
      <4> QED
        BY <1>1, <2>2, <3>2, <4>1, <4>2, <4>3 DEF Readable, IsOpen
    <3> HIDE DEF d
    <3>3. Reading(Moved(Mine, d), Board', Mine.at.n)
      BY <2>2, <2>7, <3>1, <3>2 DEF Reading, Board
    <3> QED
      BY <2>5, <2>7, <3>3 DEF d
  <2>8. Trouble("badread") => "badread" \in trouble'
    BY DEF Trouble
  <2> QED
    BY <2>1, <2>6, <2>7, <2>8 DEF RcvFRead
<1>9. CASE op = "close"
  <2>1. RcvFClose(r)
    BY <1>1, <1>9 DEF Dispatch, RcvFOpen, RcvFOpenWrite, RcvFClose, RcvFRead, RcvFWrite,
                       RcvFGetInfo, RcvFDirlist, RcvFSetInfo, RcvFDelete, RcvFMkdir
  <2>2. PICK e : /\ FResult(r, e, 0)
                 /\ \/ file' = file /\ e = "param"
                    \/ file # None /\ file' = None /\ closed' = [job |-> file.job, data |-> file.data]
    BY <2>1 DEF RcvFClose, Release, IsOpen
  <2>3. Own(Board')
    BY <1>2, <2>2 DEF Own, Board
  <2>4. ASSUME e = "ok"
        PROVE  Relies(Moved(Mine, Packet("result", r, e, 0)), Board')
    <3>1. Reading(Mine, Board, Mine.job.size) /\ Mine.job.size \in Nat
      BY <1>1, <1>9 DEF Downloads
    <3>2. /\ file # None /\ file' = None /\ closed'.job = file.job /\ closed'.data = file.data
      BY <2>2, <2>4
    <3>3. "badread" \notin trouble' => file.job = Mine.job.k /\ file.data = Mine.got
      <4> SUFFICES ASSUME "badread" \notin trouble'
                   PROVE  file.job = Mine.job.k /\ file.data = Mine.got
        OBVIOUS
      <4>1. /\ file.job = Mine.job.k /\ Len(file.data) = Mine.job.size
            /\ Len(Mine.got) = Mine.job.size
            /\ \A i \in 1 .. Mine.job.size : Mine.got[i] = file.data[i]
        BY <3>1, <3>2 DEF Reading, Board
      <4>2. file.data \in Seq(Block)
        BY <1>2, <3>2 DEF Files
      <4> QED
        BY <1>2, <4>1, <4>2, SeqEqual
    <3>4. /\ Board'.file = None
          /\ "badread" \notin Board'.trouble =>
               Board'.closed.job = Mine.job.k /\ Board'.closed.data = Mine.got
      BY <3>2, <3>3 DEF Board
    <3> QED
      BY <1>2, <1>9, <3>1, <3>4, DownloadMoves
  <2> QED
    BY <1>1, <1>3, <1>5, <1>9, <2>2, <2>3, <2>4, ResultTold DEF ResultOp
<1> QED
  BY <1>1, <1>6, <1>7, <1>8, <1>9 DEF Downloads, Op, ResultOp

LEMMA ReceiveRestTracks ==
  ASSUME Base, Base', Answers, Roles, Tracks, ReceiveRest, trouble \subseteq trouble'
  PROVE  Tracks'
<1> DEFINE b == [job |-> dev.req.job, n |-> dev.req.n]
<1>1. /\ dev.req = Req(Worker) /\ Uploads(Mine, Board)
      /\ Mine.at.op = "write" /\ Mine.job.kind = "upload"
      /\ file \in Files /\ file.job = Mine.job.k /\ file.write
      /\ dev.req.job = Mine.job.k /\ dev.req.n = Mine.at.n
      /\ phase[Worker] = "transmit" /\ result[Worker] = None
  BY WorkerReceives, MineTypes DEF ReceiveRest
<1>2. /\ Mine' = Mine /\ UNCHANGED <<inbox, result, card, closed>> /\ inbox = None
      /\ phase'[Worker] = "wait"
  BY <1>1, MineTypes, Awaiting DEF ReceiveRest, threadVars, hostVars, Mine, Answers
<1>3. /\ Mine.job \in Jobs /\ Mine.job.size \in Nat /\ Mine.at.n \in Nat
      /\ Mine.ref = fileRef /\ Mine.at.n \in 1 .. Mine.job.size
      /\ Writing(Mine, Board, Mine.at.n - 1)
      /\ Own(Board) /\ file' \in Files /\ Board.file = file /\ Board'.file = file'
  BY <1>1, MineTypes, RestHandles DEF Uploads, Base, Tracks, Board
<1>4. b \in Block /\ b.job = Mine.job.k /\ b.n = Mine.at.n
  BY <1>1, <1>3, MineTypes DEF Block, Jobs
\* What every outcome comes to.
<1>5. ASSUME NEW e, FResult(dev.req, e, 0), Own(Board'), e = "ok" => Writing(Mine, Board', Mine.at.n)
      PROVE  Tracks'
  <2>1. e = "ok" => Relies(Moved(Mine, Packet("result", dev.req, e, 0)), Board')
    BY <1>1, <1>3, <1>5, UploadMoves
  <2>2. phase'[Worker] \notin Prepared
    BY <1>2 DEF Prepared
  <2> QED
    BY <1>1, <1>2, <1>5, <2>1, <2>2, ResultTold DEF ResultOp
<1>6. CASE Written(b) /\ FResult(dev.req, "ok", 0)
  <2>1. /\ file'.job = file.job /\ file'.write = file.write
        /\ file'.data = Append(file.data, b)
    <3>1. file' = [file EXCEPT !.data = Append(file.data, b)]
      BY <1>6 DEF Written
    <3> HIDE DEF b
    <3> QED
      BY <1>1, <3>1 DEF Files
  <2>2. Own(Board')
    BY <1>1, <1>3, <1>4, <2>1, AppendedOwn
  <2>3. Writing(Mine, Board', Mine.at.n)
    <3>1. file # None
      BY <1>1, NoneAssumption
    <3>2. ASSUME "full" \notin trouble'
          PROVE  Numbered(file'.data, Mine.job.k, Mine.at.n)
      <4>1. PICK l \in Nat : l = Mine.at.n - 1 /\ Mine.at.n = l + 1
        BY <1>3
      <4>2. Len(file.data) = l /\ \A i \in 1 .. l : file.data[i] = [job |-> Mine.job.k, n |-> i]
        BY <1>3, <3>1, <3>2, <4>1 DEF Writing, Numbered, Board
      <4>3. /\ Len(file'.data) = l + 1 /\ file'.data[l + 1] = b
            /\ \A i \in 1 .. l : file'.data[i] = file.data[i]
        <5> HIDE DEF b
        <5> QED
          BY <1>1, <1>4, <2>1, <4>2, AppendProperties DEF Files
      <4>4. b = [job |-> Mine.job.k, n |-> l + 1]
        BY <1>1, <4>1
      <4>5. ASSUME NEW i \in 1 .. l + 1
            PROVE  file'.data[i] = [job |-> Mine.job.k, n |-> i]
        <5>1. i = l + 1 \/ i \in 1 .. l
          OBVIOUS
        <5> QED
          BY <4>2, <4>3, <4>4, <5>1
      <4> QED
        BY <4>1, <4>3, <4>5 DEF Numbered
    <3> QED
      BY <1>1, <2>1, <3>2 DEF Writing, Board
  <2> QED
    BY <1>5, <1>6, <2>2, <2>3
<1>7. CASE UNCHANGED file /\ \E e : FResult(dev.req, e, 0) /\ (e = "ok" => "full" \in trouble')
  <2>1. Own(Board')
    BY <1>3, <1>7 DEF Own, Board
  <2>2. "full" \in trouble' => Writing(Mine, Board', Mine.at.n)
    BY <1>1, <1>7 DEF Writing, Board
  <2> QED
    BY <1>5, <1>7, <2>1, <2>2
<1>8. Trouble("full") => "full" \in trouble'
  BY DEF Trouble
<1> QED
  BY <1>1, <1>6, <1>7, <1>8 DEF ReceiveRest

LEMMA NextTracks ==
  ASSUME Base, Base', Answers, Roles, Tracks, Quiet', [Next]_vars
  PROVE  Tracks'
<1>1. trouble \subseteq trouble'
  BY TroubleStays
<1>2. ASSUME NEW t \in Thread, Take(t)
      PROVE  Tracks'
  <2>1. CASE t = Ui
    BY <1>1, <1>2, <2>1, UiTakes
  <2>2. CASE t = Worker
    BY <1>1, <1>2, <2>2, WorkerTakes, UploadTakes, DownloadTakes
  <2> QED
    BY <2>1, <2>2 DEF Thread
<1>3. CASE UNCHANGED vars
  <2>1. UNCHANGED <<phase, result, lock, inbox, dev>> /\ Mine' = Mine /\ Board' = Board
    BY <1>3 DEF vars, threadVars, hostVars, boardVars, Mine, Board
  <2>2. Kept(Board, Board')
    BY <2>1 DEF Kept
  <2> QED
    BY <2>1, <2>2, OthersTracks
<1> QED
  BY <1>1, <1>2, <1>3, StartTracks, PrepareTracks, ReturnTracks, TimeoutTracks, BreakTracks,
     TransferTracks, ProcessTracks, ReceiveRestTracks DEF Next

\* While no answer is late the worker has, at every step of a job, what the
\* step relies on.
THEOREM JobsTracked == Spec => []JobInv
<1>1. Init => JobInv
  <2> SUFFICES ASSUME Init
               PROVE  JobInv
    OBVIOUS
  <2>1. Inv
    BY InitInv
  <2>2. Worker \in Thread /\ Ui \in Thread
    BY DEF Thread
  <2>3. Roles
    BY <2>2 DEF Init, Roles, Step
  <2>4. Tracks
    <3>1. /\ Mine.job.kind = "none" /\ Mine.at.op = "end" /\ Board.file = None
          /\ result[Worker] = None /\ lock # Worker /\ dev.phase # "receive"
          /\ at[Worker].op = "end"
      BY <2>2, NoneIsNoThread DEF Init, Mine, Board, Step, Idle
    <3> QED
      BY <3>1 DEF Tracks, Own, Receiving, Told, Relies
  <2> QED
    BY <2>1, <2>3, <2>4 DEF JobInv
<1>2. JobInv /\ [Next]_vars => JobInv'
  <2> SUFFICES ASSUME JobInv, [Next]_vars
               PROVE  JobInv'
    OBVIOUS
  <2>1. Inv'
    BY NextBase, NextAnswers DEF JobInv, Inv
  <2>2. Roles'
    BY NextRoles DEF JobInv, Inv
  <2>3. Quiet' => Tracks'
    BY <2>1, QuietBefore, NextTracks DEF JobInv, Inv
  <2> QED
    BY <2>1, <2>2, <2>3 DEF JobInv
<1> QED
  BY <1>1, <1>2, PTL DEF Spec

\* As long as no answer is late the blocks of an open file are those of the
\* job that opened it.
THEOREM BlocksOfOpener == Spec => []OnlyOpener
<1>1. JobInv => OnlyOpener
  <2> SUFFICES ASSUME JobInv, file # None, file.write, Quiet, NEW i \in DOMAIN file.data
               PROVE  file.data[i].job = file.job
    BY DEF OnlyOpener, Quiet
  <2>1. file \in Files
    BY DEF JobInv, Inv, Base, TypeOK, BoardTypes
  <2>2. i \in 1 .. Len(file.data)
    BY <2>1 DEF Files
  <2> QED
    BY <2>2 DEF JobInv, Tracks, Own, Board
<1> QED
  BY <1>1, JobsTracked, PTL

\* As long as no answer is late a job that succeeds has closed its file.
THEOREM SuccessCloses == Spec => []LeftOpenByFailure
<1>1. JobInv => LeftOpenByFailure
  <2> SUFFICES ASSUME JobInv, file # None, Quiet, phase[Worker] = "done"
               PROVE  FALSE
    BY DEF LeftOpenByFailure, Quiet
  <2>1. Relies(Mine, Board) /\ Mine.at.op = "end"
    BY MineTypes DEF JobInv, Inv, Tracks, Prepared
  <2>2. Board.file = file /\ Mine.job.kind \in {"none", "upload", "download"}
    BY DEF Board, Mine, JobInv, Roles
  <2> QED
    BY <2>1, <2>2 DEF Relies, Uploads, Downloads
<1> QED
  BY <1>1, JobsTracked, PTL

\* An upload that succeeds has written its file whole and closed it, as long
\* as no answer is late and the card is not full.
THEOREM UploadsWhole == Spec => []WholeFile
<1>1. JobInv => WholeFile
  <2> SUFFICES ASSUME JobInv, job[Worker].kind = "upload", phase[Worker] = "done", Quiet,
                      "full" \notin trouble
               PROVE  closed = [job |-> job[Worker].k,
                                data |-> [i \in 1 .. job[Worker].size |->
                                            [job |-> job[Worker].k, n |-> i]]]
    BY DEF WholeFile, Quiet
  <2>1. Uploads(Mine, Board) /\ at[Worker].op = "end"
    BY MineTypes DEF JobInv, Inv, Tracks, Prepared, Relies
  <2>2. closed.job = job[Worker].k /\ Numbered(closed.data, job[Worker].k, job[Worker].size)
    BY <2>1 DEF Uploads, Mine, Board
  <2>3. closed \in [job : Nat, data : Seq(Block)]
    BY DEF JobInv, Inv, Base, TypeOK, BoardTypes
  <2>4. closed.data = [i \in 1 .. job[Worker].size |-> [job |-> job[Worker].k, n |-> i]]
    <3>1. closed.data = [i \in 1 .. Len(closed.data) |-> closed.data[i]]
      BY <2>3, SeqDef
    <3> QED
      BY <2>2, <3>1 DEF Numbered
  <2> QED
    BY <2>2, <2>3, <2>4
<1> QED
  BY <1>1, JobsTracked, PTL

\* A download that succeeds has read the file that it had open, as long as no
\* answer is late and no read failed.
THEOREM DownloadsWhole == Spec => []WholeCopy
<1>1. JobInv => WholeCopy
  <2> SUFFICES ASSUME JobInv, job[Worker].kind = "download", phase[Worker] = "done", Quiet,
                      "badread" \notin trouble
               PROVE  closed = [job |-> job[Worker].k, data |-> got[Worker]]
    BY DEF WholeCopy, Quiet
  <2>1. Downloads(Mine, Board) /\ at[Worker].op = "end"
    BY MineTypes DEF JobInv, Inv, Tracks, Prepared, Relies
  <2>2. closed.job = job[Worker].k /\ closed.data = got[Worker]
    BY <2>1 DEF Downloads, Mine, Board
  <2>3. closed \in [job : Nat, data : Seq(Block)]
    BY DEF JobInv, Inv, Base, TypeOK, BoardTypes
  <2> QED
    BY <2>2, <2>3
<1> QED
  BY <1>1, JobsTracked, PTL

===========================================================================
