----------------------- MODULE HostConnectionProofs -----------------------
EXTENDS HostConnection, TLAPS

First(t) == Head(todo[t])

InReply(t) ==
  ~ Idle(t) /\ First(t).kind = "reply" /\ pc[t] \in {"send", "wait", "sent", "failed"}

\* What a thread is doing says where it is.
Places ==
  \A t \in Thread :
    /\ Idle(t) => pc[t] = "ready" \/ (pc[t] = "reset" /\ t = Reader)
    /\ pc[t] = "reset" => Idle(t)
    /\ pc[t] \in {"send", "wait"} => First(t).kind = "reply"
    /\ pc[t] \in {"sent", "failed"} => First(t).kind \in {"reply", "data"}
    /\ pc[t] = "rx" => First(t).kind = "data"
    /\ pc[t] = "join" => First(t).kind = "job"

\* mtxTransmit is held by the thread that is in a reply, mtxWorker by the one
\* that waits for the worker.
Owners ==
  /\ \A t \in Thread : InReply(t) <=> mtxTransmit = t
  /\ \A t \in Thread : pc[t] = "join" <=> mtxWorker = t
  /\ mtxWorker = NoThread => Idle(Worker)

\* The transfer in progress is the one its owner waits for.
Endpoint ==
  /\ \A t \in Thread : pc[t] = "wait" => ep.by = t
  /\ ep # NoTransfer =>
       /\ usb
       /\ ep.by \in Thread /\ pc[ep.by] = "wait"
       /\ ep = [by |-> ep.by, n |-> made, last |-> made = First(ep.by).n]

\* How far the owner's reply has got.
Made ==
  \A t \in Thread : mtxTransmit = t =>
    /\ made <= First(t).n
    /\ pc[t] = "send" => made < First(t).n
    /\ pc[t] # "send" => made > 0

\* What the host has of the reply in progress, and how it fits what comes next.
Wire ==
  /\ ~ usb => wire = NoTransfer /\ ~ fresh
  /\ mtxTransmit = NoThread => wire = NoTransfer
  /\ \A t \in Thread : mtxTransmit = t =>
       /\ pc[t] = "failed" => wire = NoTransfer /\ ~ fresh
       /\ pc[t] = "sent" =>
            \/ wire = NoTransfer /\ (fresh => made = First(t).n)
            \/ made < First(t).n /\ wire = [by |-> t, n |-> made, last |-> FALSE]
       /\ fresh /\ pc[t] = "send" =>
            IF made = 0 THEN wire = NoTransfer
            ELSE wire = [by |-> t, n |-> made, last |-> FALSE]
       /\ fresh /\ pc[t] = "wait" =>
            IF made = 1 THEN wire = NoTransfer
            ELSE wire = [by |-> t, n |-> made - 1, last |-> FALSE]

IInv == TypeOK /\ Places /\ Owners /\ Endpoint /\ Made /\ Wire

---------------------------------------------------------------------------

LEMMA HeadTail ==
  ASSUME NEW s \in Seq(Op), s # <<>>
  PROVE  Head(s) \in Op /\ Tail(s) \in Seq(Op)
OBVIOUS

LEMMA HandlersTyped == Commands \subseteq Seq(Op) /\ Jobs \subseteq Seq(Op)
<1> USE DEF Op, Reply, Burst, Plain, Log, Job, LetGo, Data, Resume
<1>1. Ping \cup GetFwid \cup GetDisp \cup MemRead \cup MemWrite \subseteq Seq(Op)
  BY DEF Ping, GetFwid, GetDisp, MemRead, MemWrite
<1>2. MemWriteFlash \cup PatchStop \cup PatchStart \cup PresetApply \subseteq Seq(Op)
  BY DEF MemWriteFlash, PatchStop, PatchStart, PresetApply
<1>3. ShortAnswer \cup FRead \cup FWrite \cup FDirlist \cup Unidentified
        \subseteq Seq(Op)
  BY DEF ShortAnswer, FRead, FWrite, FDirlist, Unidentified
<1>4. Jobs \subseteq Seq(Op)
  BY DEF Jobs
<1>5. QED
  BY <1>1, <1>2, <1>3, <1>4 DEF Commands

LEMMA InitEstablishesIInv == Init => IInv
<1> SUFFICES ASSUME Init PROVE IInv
  OBVIOUS
<1> USE ConnectionAssumption DEF Init, Idle
<1>1. /\ \A t \in Thread : todo[t] = <<>> /\ pc[t] = "ready"
      /\ <<>> \in Seq(Op)
  OBVIOUS
<1>2. NoTransfer \in Transfer /\ NoTransfer.last
  BY DEF NoTransfer, Transfer
<1>3. TypeOK
  <2>1. todo \in [Thread -> Seq(Op)]
    BY <1>1
  <2>2. pc \in [Thread -> {"ready", "reset", "rx", "send", "wait", "sent", "failed", "join"}]
    OBVIOUS
  <2>3. pipe \in 0 .. PipeSize
    OBVIOUS
  <2>4. ep \in Transfer /\ wire \in Transfer
    BY <1>2
  <2>5. usb \in BOOLEAN /\ fresh \in BOOLEAN /\ suspended \in BOOLEAN
    OBVIOUS
  <2>6. /\ made \in 0 .. 3
        /\ mtxTransmit \in Thread \cup {NoThread} /\ mtxWorker \in Thread \cup {NoThread}
    OBVIOUS
  <2>7. QED
    BY ONLY <2>1, <2>2, <2>3, <2>4, <2>5, <2>6 DEF TypeOK
<1>4. Places /\ Owners
  BY <1>1, NoThread \notin Thread, Worker \in Thread
     DEF Places, Owners, InReply, Thread
<1>5. Endpoint /\ Made
  BY <1>1, NoThread \notin Thread DEF Endpoint, Made
<1>6. Wire
  BY <1>2, NoThread \notin Thread DEF Wire
<1>7. QED
  BY <1>3, <1>4, <1>5, <1>6 DEF IInv

\* The thread that is in a reply holds mtxTransmit, and nothing is in
\* progress on the endpoint while nobody does.
LEMMA HoldsTransmit ==
  ASSUME IInv
  PROVE  /\ \A t \in Thread : pc[t] \in {"send", "wait"} => mtxTransmit = t
         /\ \A t \in Thread : At(t, "sent", "reply") \/ At(t, "failed", "reply")
              => mtxTransmit = t
         /\ mtxTransmit = NoThread => ep = NoTransfer
<1>1. \A t \in Thread : pc[t] \in {"send", "wait"} => mtxTransmit = t
  BY DEF IInv, Places, Owners, InReply, Idle
<1>2. \A t \in Thread : At(t, "sent", "reply") \/ At(t, "failed", "reply")
        => mtxTransmit = t
  BY DEF IInv, Owners, InReply, At, First
<1>3. mtxTransmit = NoThread => ep = NoTransfer
  BY <1>1, ConnectionAssumption DEF IInv, Endpoint
<1>4. QED
  BY <1>1, <1>2, <1>3

LEMMA FirstTyped ==
  ASSUME IInv, NEW t \in Thread, ~ Idle(t)
  PROVE  /\ First(t) \in Op
         /\ Tail(todo[t]) \in Seq(Op)
         /\ First(t).kind = "reply" => First(t).n \in 1 .. 3
<1>1. todo[t] \in Seq(Op) /\ todo[t] # <<>>
  BY DEF IInv, TypeOK, Idle
<1>2. First(t) \in Op /\ Tail(todo[t]) \in Seq(Op)
  BY <1>1, HeadTail DEF First
<1>3. QED
  BY <1>2 DEF Op

LEMMA LockKeepsIInv ==
  ASSUME IInv, NEW t \in Thread, LockTransmit(t)
  PROVE  IInv'
<1> USE DEF IInv, LockTransmit, At, GoesTo, First, Idle
<1>1. /\ First(t).n \in 1 .. 3 /\ pc' = [pc EXCEPT ![t] = "send"]
      /\ ep = NoTransfer
  BY FirstTyped, HoldsTransmit
<1>2. TypeOK'
  BY <1>1 DEF TypeOK, logVars
<1>3. Places'
  BY <1>1 DEF Places, TypeOK
<1>4. Owners'
  BY <1>1, ConnectionAssumption DEF Owners, InReply, TypeOK
<1>5. Endpoint'
  BY <1>1, HoldsTransmit DEF Endpoint, TypeOK
<1>6. Made'
  BY <1>1, ConnectionAssumption DEF Made, TypeOK
<1>7. Wire'
  BY <1>1, ConnectionAssumption DEF Wire, TypeOK
<1>8. QED
  BY <1>2, <1>3, <1>4, <1>5, <1>6, <1>7

LEMMA TransmitKeepsIInv ==
  ASSUME IInv, NEW t \in Thread, Transmit(t)
  PROVE  IInv'
<1> USE DEF IInv, Transmit, At, GoesTo, First, Idle
<1>1. /\ First(t).n \in 1 .. 3 /\ mtxTransmit = t
      /\ made < First(t).n /\ made \in Nat
  BY FirstTyped, HoldsTransmit DEF Made, TypeOK
<1>2. ep = NoTransfer
  BY <1>1, HoldsTransmit DEF Endpoint
<1>3. \/ usb /\ pc' = [pc EXCEPT ![t] = "wait"]
      \/ ~ usb /\ ep' = ep /\ pc' = [pc EXCEPT ![t] = "failed"]
  OBVIOUS
<1>4. TypeOK'
  <2>1. made' \in 0 .. 3
    BY <1>1
  <2>2. ep' \in Transfer
    <3>1. \A b \in BOOLEAN : [by |-> t, n |-> made + 1, last |-> b] \in Transfer
      BY <1>1 DEF Transfer
    <3>2. (made + 1 = First(t).n) \in BOOLEAN
      OBVIOUS
    <3>3. [by |-> t, n |-> made + 1, last |-> made + 1 = First(t).n] \in Transfer
      BY ONLY <3>1, <3>2, Zenon
    <3>4. ep' = ep \/ ep' = [by |-> t, n |-> made + 1, last |-> made + 1 = First(t).n]
      OBVIOUS
    <3>5. QED
      BY <3>3, <3>4 DEF TypeOK
  <2>3. pc' \in [Thread -> {"ready", "reset", "rx", "send", "wait", "sent", "failed", "join"}]
    BY <1>3 DEF TypeOK
  <2>4. QED
    BY <2>1, <2>2, <2>3 DEF TypeOK, logVars
<1>5. Places'
  BY <1>3 DEF Places, TypeOK
<1>6. Owners'
  BY <1>1, <1>3 DEF Owners, InReply, TypeOK
<1>7. Endpoint'
  BY <1>1, <1>2, <1>3, HoldsTransmit, ConnectionAssumption
     DEF Endpoint, TypeOK, NoTransfer
<1>8. Made'
  BY <1>1, <1>3, ConnectionAssumption DEF Made, TypeOK
<1>9. Wire'
  <2>1. mtxTransmit' = t /\ mtxTransmit' # NoThread
    BY <1>1, ConnectionAssumption
  <2>2. (pc'[t] = "wait" /\ usb) \/ (pc'[t] = "failed" /\ ~ usb)
    BY <1>3 DEF TypeOK
  <2>3. First(t)' = First(t) /\ made' = made + 1
    BY <1>3
  <2>4. CASE usb
    BY <1>1, <2>1, <2>2, <2>3, <2>4 DEF Wire
  <2>5. CASE ~ usb
    BY <1>1, <2>1, <2>2, <2>3, <2>5 DEF Wire, NoTransfer
  <2>6. QED
    BY <2>4, <2>5
<1>10. QED
  BY <1>4, <1>5, <1>6, <1>7, <1>8, <1>9

LEMMA MoreKeepsIInv ==
  ASSUME IInv, NEW t \in Thread, More(t)
  PROVE  IInv'
<1> USE DEF IInv, More, At, GoesTo, First, Idle, replyVars
<1>1. /\ First(t).n \in 1 .. 3 /\ mtxTransmit = t
      /\ made < First(t).n /\ made > 0 /\ made \in Nat
      /\ pc' = [pc EXCEPT ![t] = "send"]
  BY FirstTyped, HoldsTransmit DEF Made, TypeOK, Complete
<1>2. TypeOK'
  BY <1>1 DEF TypeOK, logVars
<1>3. Places'
  BY <1>1 DEF Places, TypeOK
<1>4. Owners'
  BY <1>1 DEF Owners, InReply, TypeOK
<1>5. Endpoint'
  BY <1>1 DEF Endpoint, TypeOK
<1>6. Made'
  BY <1>1, ConnectionAssumption DEF Made, TypeOK
<1>7. Wire'
  <2>1. mtxTransmit' = t /\ mtxTransmit' # NoThread
    BY <1>1, ConnectionAssumption
  <2>2. /\ pc'[t] = "send" /\ First(t)' = First(t)
        /\ (pc[t] = "sent" \/ pc[t] = "failed")
    BY <1>1 DEF TypeOK
  <2>3. fresh => wire = [by |-> t, n |-> made, last |-> FALSE]
    BY <1>1, <2>2 DEF Wire
  <2>4. QED
    BY <1>1, <2>1, <2>2, <2>3 DEF Wire
<1>8. QED
  BY <1>2, <1>3, <1>4, <1>5, <1>6, <1>7

LEMMA UnlockKeepsIInv ==
  ASSUME IInv, NEW t \in Thread, UnlockTransmit(t)
  PROVE  IInv'
<1> USE DEF IInv, UnlockTransmit, At, Finishes, First, Idle
<1>1. /\ mtxTransmit = t /\ Tail(todo[t]) \in Seq(Op)
      /\ pc[t] \in {"sent", "failed"}
      /\ todo' = [todo EXCEPT ![t] = Tail(todo[t])]
      /\ pc' = [pc EXCEPT ![t] = "ready"]
  BY FirstTyped, HoldsTransmit
<1>2. ep = NoTransfer
  BY <1>1, HoldsTransmit DEF Endpoint
<1>3. wire = NoTransfer
  BY <1>1 DEF Wire, Complete, TypeOK
<1>4. TypeOK'
  <2>1. todo' \in [Thread -> Seq(Op)]
    BY <1>1 DEF TypeOK
  <2>2. pc' \in [Thread -> {"ready", "reset", "rx", "send", "wait", "sent", "failed", "join"}]
    BY <1>1 DEF TypeOK
  <2>3. made' \in 0 .. 3 /\ mtxTransmit' \in Thread \cup {NoThread}
    OBVIOUS
  <2>4. fresh' \in BOOLEAN
    BY Zenon
  <2>5. UNCHANGED <<usb, mtxWorker, ep, wire, pipe, suspended>>
    BY DEF logVars
  <2>6. QED
    BY ONLY TypeOK, <2>1, <2>2, <2>3, <2>4, <2>5 DEF TypeOK
<1>5. Places'
  BY <1>1 DEF Places, TypeOK
<1>6. Owners'
  BY <1>1, ConnectionAssumption DEF Owners, InReply, TypeOK
<1>7. Endpoint'
  BY <1>1, <1>2 DEF Endpoint, TypeOK, NoTransfer
<1>8. Made'
  BY ConnectionAssumption DEF Made
<1>9. Wire'
  BY <1>3, ConnectionAssumption DEF Wire
<1>10. QED
  BY <1>4, <1>5, <1>6, <1>7, <1>8, <1>9

---------------------------------------------------------------------------
(* Steps of threads that are not in a reply.                               *)

LEMMA BystandersKeepReply ==
  ASSUME IInv, UNCHANGED <<usb, replyVars, ep, wire>>,
         \A u \in Thread : mtxTransmit = u => todo'[u] = todo[u] /\ pc'[u] = pc[u],
         \A u \in Thread : pc'[u] = "wait" => pc[u] = "wait"
  PROVE  Endpoint' /\ Made' /\ Wire'
<1> USE DEF IInv, First, replyVars
<1>1. Endpoint'
  <2>1. ep # NoTransfer => mtxTransmit = ep.by
    BY HoldsTransmit DEF Endpoint
  <2>2. QED
    BY <2>1 DEF Endpoint, NoTransfer
<1>2. Made' /\ Wire'
  BY DEF Made, Wire, NoTransfer
<1>3. QED
  BY <1>1, <1>2

LEMMA FinishKeepsIInv ==
  ASSUME IInv, NEW t \in Thread, ~ Idle(t), First(t).kind # "reply", Finishes(t),
         UNCHANGED <<usb, replyVars, ep, wire>>,
         \/ pc[t] # "join" /\ UNCHANGED mtxWorker
         \/ pc[t] = "join" /\ mtxWorker' = NoThread /\ Idle(Worker),
         pipe' \in 0 .. PipeSize, suspended' \in BOOLEAN
  PROVE  IInv'
<1> USE DEF IInv, Finishes, First, Idle, replyVars
<1>1. /\ Tail(todo[t]) \in Seq(Op)
      /\ todo' = [todo EXCEPT ![t] = Tail(todo[t])]
      /\ pc' = [pc EXCEPT ![t] = "ready"]
  BY FirstTyped
<1>2. mtxTransmit # t
  BY DEF Owners, InReply
<1>3. TypeOK'
  BY <1>1 DEF TypeOK, logVars
<1>4. Places'
  BY <1>1 DEF Places, TypeOK
<1>5. Owners'
  <2>1. \A u \in Thread : InReply(u)' <=> mtxTransmit' = u
    BY <1>1, <1>2 DEF Owners, InReply, TypeOK
  <2>2. \A u \in Thread : pc'[u] = "join" <=> mtxWorker' = u
    BY <1>1, ConnectionAssumption DEF Owners, TypeOK
  <2>3. mtxWorker' = NoThread => Idle(Worker)'
    BY <1>1 DEF Owners, TypeOK, Thread
  <2>4. QED
    BY <2>1, <2>2, <2>3 DEF Owners
<1>6. Endpoint' /\ Made' /\ Wire'
  BY <1>1, <1>2, BystandersKeepReply DEF TypeOK
<1>7. QED
  BY <1>3, <1>4, <1>5, <1>6

LEMMA BeginKeepsIInv ==
  ASSUME IInv, NEW t \in Thread, Idle(t), pc[t] = "ready", t # Worker,
         NEW s \in Seq(Op), Begins(t, s),
         UNCHANGED <<usb, pc, replyVars, mtxWorker, ep, wire>>,
         pipe' \in 0 .. PipeSize, suspended' \in BOOLEAN
  PROVE  IInv'
<1> USE DEF IInv, Begins, First, Idle, replyVars
<1>1. mtxTransmit # t
  BY DEF Owners, InReply
<1>2. TypeOK'
  BY DEF TypeOK
<1>3. Places'
  BY DEF Places, TypeOK
<1>4. Owners'
  BY <1>1 DEF Owners, InReply, TypeOK
<1>5. Endpoint' /\ Made' /\ Wire'
  BY <1>1, BystandersKeepReply DEF TypeOK
<1>6. QED
  BY <1>2, <1>3, <1>4, <1>5

\* A thread other than the reader that is idle is ready for its next work.
LEMMA IdleIsReady ==
  ASSUME IInv, NEW t \in Thread, t # Reader, Idle(t)
  PROVE  pc[t] = "ready"
BY DEF IInv, Places

LEMMA StartJobKeepsIInv ==
  ASSUME IInv, NEW t \in Thread, StartJob(t)
  PROVE  IInv'
<1> USE DEF IInv, StartJob, At, First, Idle, replyVars
<1>1. PICK j \in Jobs : todo' = [todo EXCEPT ![Worker] = j]
  OBVIOUS
<1>2. /\ j \in Seq(Op) /\ Worker \in Thread /\ Worker # t
      /\ todo[Worker] = <<>>
      /\ pc' = [pc EXCEPT ![t] = "join"]
  BY HandlersTyped DEF Owners, Thread
<1>3. pc[Worker] = "ready"
  BY <1>2, ConnectionAssumption, IdleIsReady
<1>4. mtxTransmit # t /\ mtxTransmit # Worker
  BY <1>2 DEF Owners, InReply
<1>5. TypeOK'
  BY <1>1, <1>2 DEF TypeOK, logVars
<1>6. Places'
  BY <1>1, <1>2, <1>3 DEF Places, TypeOK
<1>7. Owners'
  <2>1. \A u \in Thread : InReply(u)' <=> mtxTransmit' = u
    BY <1>1, <1>2, <1>3, <1>4 DEF Owners, InReply, TypeOK
  <2>2. \A u \in Thread : pc'[u] = "join" <=> mtxWorker' = u
    BY <1>2, ConnectionAssumption DEF Owners, TypeOK
  <2>3. mtxWorker' # NoThread
    BY ConnectionAssumption
  <2>4. QED
    BY <2>1, <2>2, <2>3 DEF Owners
<1>8. Endpoint' /\ Made' /\ Wire'
  BY <1>1, <1>2, <1>4, BystandersKeepReply DEF TypeOK
<1>9. QED
  BY <1>5, <1>6, <1>7, <1>8

LEMMA ReaderResetKeepsIInv ==
  ASSUME IInv, ReaderReset
  PROVE  IInv'
<1> USE DEF IInv, ReaderReset, First, Idle, replyVars
<1>1. Reader \in Thread
  BY DEF Thread
<1>2. mtxTransmit # Reader
  BY <1>1 DEF Owners, InReply
<1>3. TypeOK'
  <2>1. pipe' \in 0 .. PipeSize
    BY ConnectionAssumption
  <2>2. suspended' \in BOOLEAN
    BY Zenon
  <2>3. pc' \in [Thread -> {"ready", "reset", "rx", "send", "wait", "sent", "failed", "join"}]
    BY DEF TypeOK
  <2>4. QED
    BY ONLY TypeOK, <2>1, <2>2, <2>3,
            UNCHANGED <<usb, todo, made, fresh, mtxTransmit, mtxWorker, ep, wire>>
       DEF TypeOK
<1>4. Places'
  BY DEF Places, TypeOK
<1>5. Owners'
  BY <1>1, <1>2 DEF Owners, InReply, Places, TypeOK
<1>6. Endpoint' /\ Made' /\ Wire'
  BY <1>1, <1>2, BystandersKeepReply DEF TypeOK
<1>7. QED
  BY <1>3, <1>4, <1>5, <1>6

\* A thread in the reception of more data goes to another place in it.
LEMMA ReceptionKeepsIInv ==
  ASSUME IInv, NEW t \in Thread, ~ Idle(t), First(t).kind = "data",
         NEW p \in {"rx", "sent", "failed"}, GoesTo(t, p),
         UNCHANGED <<usb, replyVars, mtxWorker, ep, wire, logVars>>
  PROVE  IInv'
<1> USE DEF IInv, GoesTo, First, Idle, replyVars
<1>1. mtxTransmit # t /\ mtxWorker # t
  BY DEF Owners, InReply, Places
<1>2. TypeOK'
  BY DEF TypeOK, logVars
<1>3. Places'
  BY DEF Places, TypeOK
<1>4. Owners'
  BY <1>1 DEF Owners, InReply, TypeOK
<1>5. Endpoint' /\ Made' /\ Wire'
  BY <1>1, BystandersKeepReply DEF TypeOK
<1>6. QED
  BY <1>2, <1>3, <1>4, <1>5

---------------------------------------------------------------------------
(* Steps of the host.                                                      *)

\* What the host takes is the next transfer of the owner's reply.
LEMMA TakenFromOwner ==
  ASSUME IInv, ep # NoTransfer
  PROVE  /\ ep.by \in Thread /\ mtxTransmit = ep.by /\ pc[ep.by] = "wait"
         /\ ~ Idle(ep.by) /\ First(ep.by).kind = "reply"
         /\ ep = [by |-> ep.by, n |-> made, last |-> made = First(ep.by).n]
         /\ made \in 1 .. 3
<1>1. /\ ep.by \in Thread /\ pc[ep.by] = "wait"
      /\ ep = [by |-> ep.by, n |-> made, last |-> made = First(ep.by).n]
  BY DEF IInv, Endpoint
<1>2. mtxTransmit = ep.by
  BY <1>1, HoldsTransmit
<1>3. InReply(ep.by)
  BY <1>1, <1>2 DEF IInv, Owners
<1>4. made \in 1 .. 3
  BY <1>1, <1>2 DEF IInv, Made, TypeOK
<1>5. QED
  BY <1>1, <1>2, <1>3, <1>4 DEF InReply

LEMMA HostTakesKeepsIInv ==
  ASSUME IInv, HostTakes
  PROVE  IInv'
<1>1. PICK t \in Thread :
      /\ t = ep.by /\ mtxTransmit = t /\ pc[t] = "wait"
      /\ todo[t] # <<>> /\ First(t).kind = "reply"
      /\ ep = [by |-> t, n |-> made, last |-> made = First(t).n]
      /\ made \in 1 .. 3 /\ usb
  BY TakenFromOwner DEF HostTakes, Idle, IInv, Endpoint
<1>2. /\ wire' = (IF ep.last THEN NoTransfer ELSE ep) /\ ep' = NoTransfer /\ pc' = [pc EXCEPT ![t] = "sent"]
      /\ UNCHANGED <<usb, todo, made, fresh, mtxTransmit, mtxWorker, pipe, suspended>>
  BY <1>1 DEF HostTakes, GoesTo, replyVars, logVars
<1> USE DEF IInv, First, Idle
<1>3. TypeOK'
  <2>1. NoTransfer \in Transfer
    BY DEF NoTransfer, Transfer
  <2>2. QED
    BY <1>1, <1>2, <2>1 DEF TypeOK
<1>4. Places'
  BY <1>1, <1>2 DEF Places, TypeOK
<1>5. Owners'
  BY <1>1, <1>2 DEF Owners, InReply, TypeOK
<1>6. Endpoint'
  <2>1. \A u \in Thread : pc'[u] # "wait"
    BY <1>1, <1>2, HoldsTransmit DEF TypeOK
  <2>2. QED
    BY <1>2, <2>1 DEF Endpoint, NoTransfer
<1>7. Made'
  BY <1>1, <1>2 DEF Made, TypeOK
<1>8. Wire'
  <2>1. mtxTransmit' = t /\ mtxTransmit' # NoThread
    BY <1>1, <1>2, ConnectionAssumption
  <2>2. pc'[t] = "sent" /\ First(t)' = First(t)
    BY <1>1, <1>2 DEF TypeOK
  <2>3. \/ wire' = NoTransfer /\ made = First(t).n
        \/ made < First(t).n /\ wire' = [by |-> t, n |-> made, last |-> FALSE]
    <3>1. ep.last <=> made = First(t).n
      <4>1. ep = [by |-> t, n |-> made, last |-> made = First(t).n]
        BY <1>1
      <4>2. ep.last = (made = First(t).n)
        BY ONLY <4>1, Zenon
      <4>3. QED
        BY ONLY <4>2, Zenon
    <3>2. CASE ep.last
      BY <1>2, <3>1, <3>2
    <3>3. CASE ~ ep.last
      <4>1. (made = First(t).n) = FALSE
        BY <3>1, <3>3
      <4>2. ep = [by |-> t, n |-> made, last |-> FALSE]
        BY ONLY <1>1, <4>1, Zenon
      <4>3. made < First(t).n
        <5>1. First(t).n \in 1 .. 3
          BY <1>1, FirstTyped
        <5>2. made <= First(t).n
          BY <1>1 DEF Made
        <5>3. QED
          BY ONLY <1>1, <4>1, <5>1, <5>2
      <4>4. QED
        BY <1>2, <3>3, <4>2, <4>3
    <3>4. QED
      BY <3>2, <3>3
  <2>4. QED
    BY <1>1, <1>2, <2>1, <2>2, <2>3 DEF Wire
<1>9. QED
  BY <1>3, <1>4, <1>5, <1>6, <1>7, <1>8

LEMMA ResetKeepsIInv ==
  ASSUME IInv, Reset
  PROVE  IInv'
<1> USE DEF IInv, Reset, First, Idle
<1>1. \A u \in Thread :
        /\ pc'[u] = IF pc[u] \in {"wait", "rx"} THEN "failed"
                    ELSE IF u = Reader /\ todo[u] = <<>> THEN "reset"
                    ELSE pc[u]
        /\ todo'[u] = todo[u]
  BY DEF TypeOK
<1>2. TypeOK'
  <2>1. NoTransfer \in Transfer
    BY DEF NoTransfer, Transfer
  <2>2. pc' \in [Thread -> {"ready", "reset", "rx", "send", "wait", "sent", "failed", "join"}]
    BY <1>1 DEF TypeOK
  <2>3. usb' \in BOOLEAN /\ fresh' \in BOOLEAN
    BY Zenon
  <2>4. /\ ep' = NoTransfer /\ wire' = NoTransfer
        /\ UNCHANGED <<todo, made, mtxTransmit, mtxWorker, pipe, suspended>>
    BY DEF logVars
  <2>5. QED
    BY ONLY TypeOK, <2>1, <2>2, <2>3, <2>4 DEF TypeOK
<1>3. Places'
  BY <1>1 DEF Places, TypeOK
<1>4. Owners'
  BY <1>1 DEF Owners, InReply, Places
<1>5. Endpoint'
  BY <1>1 DEF Endpoint
<1>6. Made'
  BY <1>1 DEF Made, Owners, InReply
<1>7. Wire'
  BY <1>1 DEF Wire, NoTransfer
<1>8. QED
  BY <1>2, <1>3, <1>4, <1>5, <1>6, <1>7

LEMMA ConfigureKeepsIInv ==
  ASSUME IInv, Configure
  PROVE  IInv'
<1> USE DEF IInv, Configure, First, Idle, replyVars, threadVars, logVars
<1>1. TypeOK' /\ Places' /\ Owners'
  BY DEF TypeOK, Places, Owners, InReply
<1>2. Endpoint' /\ Made'
  BY DEF Endpoint, Made, NoTransfer
<1>3. Wire'
  BY DEF Wire, NoTransfer
<1>4. QED
  BY <1>1, <1>2, <1>3

---------------------------------------------------------------------------
(* The invariant, and what follows from it.                                *)

LEMMA ThreadKeepsIInv ==
  ASSUME IInv, NEW t \in Thread, Proceed(t) \/ Waits(t) \/ OtherJob(t)
  PROVE  IInv'
<1> USE DEF At, First
<1>1. pipe \in 0 .. PipeSize /\ suspended \in BOOLEAN
  BY DEF IInv, TypeOK
<1>2. CASE Transmit(t) \/ More(t) \/ UnlockTransmit(t) \/ LockTransmit(t)
  BY <1>2, TransmitKeepsIInv, MoreKeepsIInv, UnlockKeepsIInv, LockKeepsIInv
<1>3. CASE ResumeLog(t)
  BY <1>1, <1>3, FinishKeepsIInv DEF ResumeLog
<1>4. CASE EndJob(t)
  BY <1>1, <1>4, FinishKeepsIInv DEF EndJob, logVars
<1>5. CASE ReceiveData(t)
  <2>1. PICK p \in {"rx", "sent", "failed"} : GoesTo(t, p)
    BY <1>5 DEF ReceiveData
  <2>2. QED
    BY <1>5, <2>1, ReceptionKeepsIInv DEF ReceiveData
<1>6. CASE DataDone(t)
  BY <1>1, <1>6, FinishKeepsIInv DEF DataDone, logVars
<1>7. CASE WriteLog(t)
  <2>1. pipe' \in 0 .. PipeSize
    BY <1>1, <1>7, ConnectionAssumption DEF WriteLog
  <2>2. QED
    BY <1>1, <1>7, <2>1, FinishKeepsIInv DEF WriteLog
<1>8. CASE StartJob(t)
  BY <1>8, StartJobKeepsIInv
<1>9. CASE DspLetsGo(t)
  BY <1>1, <1>9, FinishKeepsIInv DEF DspLetsGo, logVars
<1>10. CASE OtherJob(t)
  <2>1. <<Job>> \in Seq(Op)
    BY DEF Job, Plain, Op
  <2>2. t # Reader /\ t # Worker
    BY <1>10, ConnectionAssumption DEF OtherJob
  <2>3. pc[t] = "ready"
    BY <1>10, <2>2, IdleIsReady DEF OtherJob
  <2>4. QED
    BY <1>1, <1>10, <2>1, <2>2, <2>3, BeginKeepsIInv DEF OtherJob, logVars
<1>11. QED
  BY <1>2, <1>3, <1>4, <1>5, <1>6, <1>7, <1>8, <1>9, <1>10 DEF Proceed, Waits

LEMMA LoopsKeepIInv ==
  ASSUME IInv, ReadLog \/ DspLogs \/ Command
  PROVE  IInv'
<1>1. /\ pipe \in 0 .. PipeSize /\ suspended \in BOOLEAN
      /\ Reader \in Thread /\ Consumer \in Thread /\ Dsp \in Thread
      /\ Reader # Worker /\ Consumer # Worker /\ Dsp # Worker
      /\ Consumer # Reader /\ Dsp # Reader
  BY ConnectionAssumption DEF IInv, TypeOK, Thread
<1>2. <<Reply(1)>> \in Seq(Op) /\ <<Log>> \in Seq(Op)
  BY DEF Reply, Log, Plain, Op
<1>3. CASE ReadLog
  <2>1. pipe' \in 0 .. PipeSize
    BY <1>1, <1>3, ConnectionAssumption DEF ReadLog
  <2>2. pc[Consumer] = "ready"
    BY <1>1, <1>3, IdleIsReady DEF ReadLog
  <2>3. QED
    BY <1>1, <1>2, <1>3, <2>1, <2>2, BeginKeepsIInv DEF ReadLog
<1>4. CASE DspLogs
  <2>1. pc[Dsp] = "ready"
    BY <1>1, <1>4, IdleIsReady DEF DspLogs
  <2>2. QED
    BY <1>1, <1>2, <1>4, <2>1, BeginKeepsIInv DEF DspLogs, logVars
<1>5. CASE Command
  <2>1. PICK c \in Commands : Begins(Reader, c)
    BY <1>5 DEF Command
  <2>2. c \in Seq(Op)
    BY HandlersTyped
  <2>3. QED
    BY <1>1, <1>5, <2>1, <2>2, BeginKeepsIInv DEF Command, logVars
<1>6. QED
  BY <1>3, <1>4, <1>5

LEMMA HostSendsKeepsIInv ==
  ASSUME IInv, HostSends
  PROVE  IInv'
<1>1. Reader \in Thread /\ ~ Idle(Reader) /\ First(Reader).kind = "data"
  BY DEF IInv, Places, HostSends, Thread
<1>2. QED
  BY <1>1, ReceptionKeepsIInv DEF HostSends

\* Invariance: the mutexes are held exactly by the threads that are where the
\* code holds them, the transfer on the endpoint is its owner's, and the host
\* has every transfer of the reply in progress before it.
THEOREM Invariance == Spec => []IInv
<1>1. IInv /\ [Next]_vars => IInv'
  <2> SUFFICES ASSUME IInv, [Next]_vars PROVE IInv'
    OBVIOUS
  <2>1. CASE Next
    BY <2>1, ThreadKeepsIInv, LoopsKeepIInv, ReaderResetKeepsIInv,
       HostSendsKeepsIInv, HostTakesKeepsIInv, ResetKeepsIInv, ConfigureKeepsIInv
       DEF Next, Host
  <2>2. CASE UNCHANGED vars
    BY <2>2
       DEF vars, threadVars, replyVars, logVars, IInv, TypeOK, Places, Owners, Endpoint,
           Made, Wire, Idle, InReply, First
  <2>3. QED
    BY <2>1, <2>2
<1>2. QED
  BY InitEstablishesIInv, <1>1, PTL DEF Spec

\* Types: the pipe is never overrun, and the transfers are counted right.
THEOREM Types == Spec => []TypeOK
BY Invariance, PTL DEF IInv

\* RepliesAreWhole: the transfers of a reply reach the host together, in
\* order and from the first, whichever threads answer, log and report.
THEOREM RepliesAreWhole == Spec => RepliesWhole
<1>1. IInv /\ HostTakes /\ fresh => Follows(ep, wire)
  <2> SUFFICES ASSUME IInv, HostTakes, fresh PROVE Follows(ep, wire)
    OBVIOUS
  <2>1. PICK t \in Thread :
        /\ mtxTransmit = t /\ pc[t] = "wait" /\ made \in 1 .. 3
        /\ ep.by = t /\ ep.n = made
    BY TakenFromOwner DEF HostTakes
  <2>2. IF made = 1 THEN wire = NoTransfer
        ELSE wire = [by |-> t, n |-> made - 1, last |-> FALSE]
    BY <2>1 DEF IInv, Wire
  <2>3. QED
    BY <2>1, <2>2 DEF Follows
<1>2. QED
  BY <1>1, Invariance, PTL DEF RepliesWhole, Spec

---------------------------------------------------------------------------
(* Nobody waits in a circle.                                               *)

\* Who keeps whom waiting, other than the host: the owners of the mutexes, the
\* consumer of a full pipe, the DSP thread in a patch and the worker at work.
WaitsFor(t, u) ==
  \/ At(t, "ready", "reply") /\ mtxTransmit = u
  \/ At(t, "ready", "log") /\ ~ suspended /\ pipe = PipeSize /\ u = Consumer
  \/ At(t, "ready", "letgo") /\ u = Dsp /\ ~ Idle(Dsp)
  \/ At(t, "join", "job") /\ u = Worker /\ ~ Idle(Worker)
  \/ At(t, "ready", "job") /\ mtxWorker = u

\* In any set of threads there is one that waits for none of them.
NoCircle ==
  \A S \in (SUBSET Thread) \ {{}} : \E t \in S : \A u \in S : ~ WaitsFor(t, u)

\* The next step of t can be taken: the guards of Proceed and Waits.
MayStep(t) ==
  \/ At(t, "ready", "reply") /\ mtxTransmit = NoThread
  \/ At(t, "ready", "log") /\ (suspended \/ pipe < PipeSize)
  \/ At(t, "ready", "letgo") /\ Idle(Dsp)
  \/ At(t, "ready", "job") /\ mtxWorker = NoThread
  \/ At(t, "join", "job") /\ Idle(Worker)
  \/ At(t, "ready", "data") \/ At(t, "ready", "resume")
  \/ At(t, "send", "reply")
  \/ \E p \in {"sent", "failed"}, k \in {"reply", "data"} : At(t, p, k)

\* While a thread has something to do, some thread can take a step, or the
\* host is awaited, or the consumer has the pipe to empty.
SomebodyRuns ==
  (\E t \in Thread : ~ Idle(t)) =>
    \/ \E t \in Thread : MayStep(t) \/ pc[t] \in {"wait", "rx"}
    \/ Idle(Consumer) /\ pipe > 0

\* What the threads with a loop of their own do in it.
Roles ==
  /\ todo[Consumer] \in {<<>>, <<Reply(1)>>}
  /\ todo[Dsp] \in {<<>>, <<Log>>}
  /\ todo[Worker] \in Jobs

RInv == IInv /\ Roles

\* A thread waits only for threads of a lower level.
Level(t) ==
  IF Idle(t) THEN 0
  ELSE IF pc[t] = "join" THEN 4
  ELSE IF pc[t] # "ready" THEN 0
  ELSE IF First(t).kind = "reply" THEN 1
  ELSE IF First(t).kind = "log" THEN 2
  ELSE IF First(t).kind = "letgo" THEN 3
  ELSE IF First(t).kind = "job" THEN 5
  ELSE 0

Descends == \A t, u \in Thread : WaitsFor(t, u) => Level(u) < Level(t)

LEMMA RolesFinish ==
  ASSUME RInv, NEW t \in Thread, ~ Idle(t), todo' = [todo EXCEPT ![t] = Tail(@)]
  PROVE  Roles'
<1>1. \A u \in Thread : todo'[u] = IF u = t THEN Tail(todo[u]) ELSE todo[u]
  BY DEF RInv, IInv, TypeOK
<1>2. \A x : Tail(<<x>>) = <<>>
  OBVIOUS
<1>3. \A x, y : Tail(<<x, y>>) = <<y>>
  OBVIOUS
<1>4. \A s \in Jobs \ {<<>>} : Tail(s) \in Jobs
  BY <1>2, <1>3 DEF Jobs
<1>5. todo'[Consumer] \in {<<>>, <<Reply(1)>>}
  BY <1>1, <1>2 DEF RInv, Roles, Idle, Thread
<1>6. todo'[Dsp] \in {<<>>, <<Log>>}
  BY <1>1, <1>2 DEF RInv, Roles, Idle, Thread
<1>7. todo'[Worker] \in Jobs
  BY <1>1, <1>4 DEF RInv, Roles, Idle, Thread
<1>8. QED
  BY <1>5, <1>6, <1>7 DEF Roles

\* A thread that is neither of the three begins whatever it likes.
LEMMA RolesBegin ==
  ASSUME RInv, NEW t \in Thread \ {Consumer, Worker, Dsp}, NEW s, Begins(t, s)
  PROVE  Roles'
BY DEF RInv, IInv, TypeOK, Roles, Begins, Thread

LEMMA StepKeepsRoles ==
  ASSUME RInv, Dsp \notin Others, [Next]_vars
  PROVE  Roles'
<1>1. CASE UNCHANGED todo
  BY <1>1 DEF RInv, Roles
<1>2. ASSUME NEW t \in Thread, ~ Idle(t), Finishes(t)
      PROVE  Roles'
  BY <1>2, RolesFinish DEF Finishes
<1>3. ASSUME NEW t \in Thread, Proceed(t)
      PROVE  Roles'
  <2>1. UNCHANGED todo \/ (~ Idle(t) /\ Finishes(t))
    BY <1>3 DEF Proceed, Transmit, More, UnlockTransmit, ResumeLog, EndJob, ReceiveData,
                DataDone, GoesTo, At
  <2>2. QED
    BY <2>1, <1>1, <1>2
<1>4. ASSUME NEW t \in Thread, Waits(t)
      PROVE  Roles'
  <2>1. CASE StartJob(t)
    <3>1. PICK j \in Jobs : todo' = [todo EXCEPT ![Worker] = j]
      BY <2>1 DEF StartJob
    <3>2. QED
      BY <3>1, ConnectionAssumption DEF RInv, IInv, TypeOK, Roles, Thread
  <2>2. CASE ~ StartJob(t)
    <3>1. UNCHANGED todo \/ (~ Idle(t) /\ Finishes(t))
      BY <1>4, <2>2 DEF Waits, LockTransmit, WriteLog, DspLetsGo, GoesTo, At
    <3>2. QED
      BY <3>1, <1>1, <1>2
  <2>3. QED
    BY <2>1, <2>2
<1>5. ASSUME NEW t \in Thread, OtherJob(t)
      PROVE  Roles'
  BY <1>5, RolesBegin, ConnectionAssumption DEF OtherJob
<1>6. CASE ReadLog
  BY <1>6, ConnectionAssumption DEF ReadLog, Begins, RInv, IInv, TypeOK, Roles, Thread
<1>7. CASE DspLogs
  BY <1>7, ConnectionAssumption DEF DspLogs, Begins, RInv, IInv, TypeOK, Roles, Thread
<1>8. CASE Command
  BY <1>8, RolesBegin, ConnectionAssumption DEF Command, Thread
<1>9. CASE ReaderReset \/ HostSends \/ HostTakes \/ Reset \/ Configure \/ UNCHANGED vars
  BY <1>9, <1>1
     DEF ReaderReset, HostSends, HostTakes, Reset, Configure, GoesTo, vars, threadVars
<1>10. QED
  BY <1>3, <1>4, <1>5, <1>6, <1>7, <1>8, <1>9 DEF Next, Host

LEMMA RolesInvariance == Dsp \notin Others => (Spec => []RInv)
<1> SUFFICES ASSUME Dsp \notin Others PROVE Spec => []RInv
  OBVIOUS
<1>1. Init => Roles
  BY DEF Init, Roles, Jobs, Thread
<1>2. IInv /\ Roles /\ [Next]_vars => Roles'
  BY StepKeepsRoles DEF RInv
<1>3. QED
  BY Invariance, <1>1, <1>2, PTL DEF RInv, Spec

\* The kinds of operations the three begin with.
LEMMA FirstOfRole ==
  ASSUME RInv
  PROVE  /\ ~ Idle(Consumer) => First(Consumer).kind = "reply"
         /\ ~ Idle(Dsp) => First(Dsp).kind = "log"
         /\ ~ Idle(Worker) => First(Worker).kind \in {"reply", "log", "letgo"}
<1>1. \A x, y : Head(<<x>>) = x /\ Head(<<x, y>>) = x
  OBVIOUS
<1>2. Reply(1).kind = "reply" /\ Log.kind = "log" /\ LetGo.kind = "letgo"
  BY DEF Reply, Log, LetGo, Plain
<1>3. ~ Idle(Consumer) => First(Consumer).kind = "reply"
  BY <1>1, <1>2 DEF RInv, Roles, Idle, First
<1>4. ~ Idle(Dsp) => First(Dsp).kind = "log"
  BY <1>1, <1>2 DEF RInv, Roles, Idle, First
<1>5. ~ Idle(Worker) => First(Worker).kind \in {"reply", "log", "letgo"}
  BY <1>1, <1>2 DEF RInv, Roles, Jobs, Idle, First
<1>6. QED
  BY <1>3, <1>4, <1>5

\* Whom a thread waits for is further: in its reply before one that has
\* still to begin one, and so on up to the threads that wait for mtxWorker.
LEMMA WaitingDescends == RInv => Descends
<1> SUFFICES ASSUME RInv, NEW t \in Thread, NEW u \in Thread, WaitsFor(t, u)
             PROVE  Level(u) < Level(t)
  BY DEF Descends
<1> USE DEF At, First, Idle
<1>1. CASE At(t, "ready", "reply") /\ mtxTransmit = u
  <2>1. Level(t) = 1
    BY <1>1 DEF Level
  <2>2. InReply(u)
    BY <1>1 DEF RInv, IInv, Owners
  <2>3. Level(u) = 0
    BY <2>2 DEF Level, InReply
  <2>4. QED
    BY <2>1, <2>3
<1>2. CASE At(t, "ready", "log") /\ u = Consumer
  <2>1. Level(t) = 2
    BY <1>2 DEF Level
  <2>2. pc[u] # "join"
    BY <1>2, FirstOfRole DEF RInv, IInv, Places
  <2>3. Level(u) \in {0, 1}
    BY <1>2, <2>2, FirstOfRole DEF Level
  <2>4. QED
    BY <2>1, <2>3
<1>3. CASE At(t, "ready", "letgo") /\ u = Dsp
  <2>1. Level(t) = 3
    BY <1>3 DEF Level
  <2>2. pc[u] # "join"
    BY <1>3, FirstOfRole DEF RInv, IInv, Places
  <2>3. Level(u) \in {0, 2}
    BY <1>3, <2>2, FirstOfRole DEF Level
  <2>4. QED
    BY <2>1, <2>3
<1>4. CASE At(t, "join", "job") /\ u = Worker
  <2>1. Level(t) = 4
    BY <1>4 DEF Level
  <2>2. pc[u] # "join"
    BY <1>4, FirstOfRole DEF RInv, IInv, Places
  <2>3. Level(u) \in {0, 1, 2, 3}
    BY <1>4, <2>2, FirstOfRole DEF Level
  <2>4. QED
    BY <2>1, <2>3
<1>5. CASE At(t, "ready", "job") /\ mtxWorker = u
  <2>1. Level(t) = 5
    BY <1>5 DEF Level
  <2>2. pc[u] = "join"
    BY <1>5 DEF RInv, IInv, Owners
  <2>3. Level(u) \in {0, 4}
    BY <2>2 DEF Level
  <2>4. QED
    BY <2>1, <2>3
<1>6. QED
  BY <1>1, <1>2, <1>3, <1>4, <1>5 DEF WaitsFor

LEMMA DescentHasNoCircle == Descends => NoCircle
<1> SUFFICES ASSUME Descends, NEW S \in (SUBSET Thread) \ {{}}
             PROVE  \E t \in S : \A u \in S : ~ WaitsFor(t, u)
  BY Zenon DEF NoCircle
<1> S \subseteq Thread /\ S # {}
  OBVIOUS
<1>1. \A t \in S : Level(t) \in 0 .. 5
  BY DEF Level
<1>2. \E t \in S : \A u \in S : Level(t) <= Level(u)
  <2> DEFINE Has(k) == \E t \in S : Level(t) = k
  <2>1. PICK k \in 0 .. 5 : Has(k) /\ \A j \in 0 .. 5 : Has(j) => k <= j
    <3>1. Has(0) \/ Has(1) \/ Has(2) \/ Has(3) \/ Has(4) \/ Has(5)
      BY <1>1
    <3> HIDE DEF Has
    <3>2. QED
      BY <3>1
  <2>2. QED
    BY <1>1, <2>1
<1>3. PICK t \in S : \A u \in S : Level(t) <= Level(u)
  BY <1>2
<1>4. \A u \in S : ~ WaitsFor(t, u)
  BY <1>1, <1>3 DEF Descends
<1>5. QED
  BY <1>4

\* NoCircularWait: unless the DSP thread loads patches itself, the mutexes of
\* the replies and of the worker, the log pipe, the join with the worker and
\* its wait for the DSP thread never close a circle.
THEOREM NoCircularWait == Dsp \notin Others => (Spec => []NoCircle)
BY RolesInvariance, WaitingDescends, DescentHasNoCircle, PTL

\* A thread with something to do takes its step, waits for the host or waits
\* for another thread that has something to do, or for the consumer's loop.
LEMMA StepsOrWaits ==
  ASSUME RInv, NEW t \in Thread, ~ Idle(t)
  PROVE  \/ MayStep(t)
         \/ pc[t] \in {"wait", "rx"}
         \/ \E u \in Thread : WaitsFor(t, u) /\ ~ Idle(u)
         \/ Idle(Consumer) /\ pipe > 0
<1>1. /\ pc[t] \in {"ready", "reset", "rx", "send", "wait", "sent", "failed", "join"}
      /\ First(t).kind \in {"reply", "log", "job", "letgo", "data", "resume"}
      /\ Consumer \in Thread /\ Dsp \in Thread /\ Worker \in Thread
  BY FirstTyped DEF RInv, IInv, TypeOK, Op, Thread
<1>2. CASE pc[t] \in {"wait", "rx"}
  BY <1>2
<1>3. CASE pc[t] \in {"send", "sent", "failed", "reset"}
  BY <1>3 DEF MayStep, At, RInv, IInv, Places, First
<1>4. CASE pc[t] = "join"
  <2>1. At(t, "join", "job")
    BY <1>4 DEF At, RInv, IInv, Places, First
  <2>2. QED
    BY <1>1, <2>1 DEF MayStep, WaitsFor
<1>5. CASE pc[t] = "ready"
  <2>1. CASE First(t).kind = "reply"
    <3>1. At(t, "ready", "reply")
      BY <1>5, <2>1 DEF At, First
    <3>2. mtxTransmit = NoThread \/ (mtxTransmit \in Thread /\ ~ Idle(mtxTransmit))
      BY DEF RInv, IInv, TypeOK, Owners, InReply
    <3>3. QED
      BY <3>1, <3>2 DEF MayStep, WaitsFor
  <2>2. CASE First(t).kind = "log"
    <3>1. At(t, "ready", "log")
      BY <1>5, <2>2 DEF At, First
    <3>2. suspended \/ pipe < PipeSize \/ (~ suspended /\ pipe = PipeSize /\ pipe > 0)
      BY ConnectionAssumption DEF RInv, IInv, TypeOK
    <3>3. QED
      BY <1>1, <3>1, <3>2 DEF MayStep, WaitsFor
  <2>3. CASE First(t).kind = "letgo"
    <3>1. At(t, "ready", "letgo")
      BY <1>5, <2>3 DEF At, First
    <3>2. QED
      BY <1>1, <3>1 DEF MayStep, WaitsFor
  <2>4. CASE First(t).kind = "job"
    <3>1. At(t, "ready", "job")
      BY <1>5, <2>4 DEF At, First
    <3>2. mtxWorker = NoThread \/ (mtxWorker \in Thread /\ ~ Idle(mtxWorker))
      BY DEF RInv, IInv, TypeOK, Owners, Places
    <3>3. QED
      BY <3>1, <3>2 DEF MayStep, WaitsFor
  <2>5. CASE First(t).kind \in {"data", "resume"}
    BY <1>5, <2>5 DEF MayStep, At, First
  <2>6. QED
    BY <1>1, <2>1, <2>2, <2>3, <2>4, <2>5
<1>6. QED
  BY <1>1, <1>2, <1>3, <1>4, <1>5

\* NoDeadlock: as long as a thread has something to do, somebody can go on,
\* or the host is awaited.
THEOREM NoDeadlock == Dsp \notin Others => (Spec => []SomebodyRuns)
<1>1. RInv /\ NoCircle => SomebodyRuns
  <2> SUFFICES ASSUME RInv, NoCircle, NEW s \in Thread, ~ Idle(s)
               PROVE  \/ \E t \in Thread : MayStep(t) \/ pc[t] \in {"wait", "rx"}
                      \/ Idle(Consumer) /\ pipe > 0
    BY DEF SomebodyRuns
  <2> DEFINE S == {t \in Thread : ~ Idle(t)}
  <2>1. PICK t \in S : \A u \in S : ~ WaitsFor(t, u)
    <3>1. S \in SUBSET Thread /\ s \in S
      OBVIOUS
    <3>2. QED
      BY <3>1 DEF NoCircle
  <2>2. QED
    BY <2>1, StepsOrWaits
<1>2. QED
  BY RolesInvariance, NoCircularWait, <1>1, PTL

===========================================================================
