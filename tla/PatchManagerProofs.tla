------------------------ MODULE PatchManagerProofs ------------------------
(***************************************************************************)
(* Proofs about PatchManager for any number of slots and calling threads.  *)
(*                                                                         *)
(* IInv is inductive.  Its parts: the worker steps that work on a slot     *)
(* know it (SlotKnown); whoever is between Lock and Unlock owns the mutex, *)
(* and a worker exists exactly while the owner joins it (OneCall); what    *)
(* each worker step may assume of its slot (Loading, Stopping); what the   *)
(* status of a slot says about it when no worker is in charge (Settled);   *)
(* and the heap holds at least the images the slots point to (ImageCount). *)
(*                                                                         *)
(* At the end: PatchManager implements PatchLifecycle, and a menu's load   *)
(* meeting a stop is its only deadlock.                                    *)
(***************************************************************************)
EXTENDS PatchManager, FiniteSetTheorems, TLAPS

USE PatchAssumption DEF Slot, NoSlot, Thread

InCall(t) == pc[t] \in {"spawn", "join", "unlock"}

SlotKnown == wpc \notin {"none", "exit", "resolve", "alloc"} => wslot \in Slot

OneCall ==
  /\ wpc # "none" => mtxWorker # NoThread
  /\ \A t \in Thread : InCall(t) <=> mtxWorker = t
  /\ \A t \in Thread : pc[t] = "join" <=> mtxWorker = t /\ wpc # "none"

Loading ==
  /\ wpc \in {"elf", "instance", "init", "publish"} =>
       /\ status[wslot] = "STOPPED"
       /\ \A u \in Slot : u < wslot => status[u] = "RUNNING"
  /\ wpc \in {"instance", "init", "publish"} => elf[wslot] = "image"
  /\ wpc \in {"elf", "instance"} => obj[wslot] \in {"null", "dangling"}
  /\ wpc = "init" => obj[wslot] = "raw"
  /\ wpc = "publish" => obj[wslot] = "live"
  /\ wpc = "ui" => status[0] = "RUNNING"

Stopping ==
  /\ wpc = "poll" => status[wslot] # "RUNNING"
  /\ wpc \in {"dispose", "free", "reset", "unload"} => status[wslot] = "STOPPED"
  /\ wpc \in {"poll", "dispose"} => obj[wslot] = "live"
  /\ wpc = "free" => obj[wslot] = "disposed"
  /\ wpc \in {"reset", "unload"} => obj[wslot] \in {"null", "dangling"}

InCharge(s) ==
  s = wslot /\ wpc \in {"init", "publish", "poll", "dispose", "free"}

Settled ==
  \A s \in Slot :
    /\ status[s] = "RUNNING" => obj[s] = "live" /\ elf[s] = "image"
    /\ status[s] = "STOPPING" => s = wslot /\ wpc = "poll"
    /\ status[s] = "STOPPED" /\ ~ InCharge(s) => obj[s] \in {"null", "dangling"}

Images == {s \in Slot : elf[s] = "image"}

ImageCount == Cardinality(Images) <= images

SlotInv == SlotKnown /\ OneCall /\ Loading /\ Stopping /\ Settled

IInv == TypeOK /\ SlotInv /\ ImageCount

---------------------------------------------------------------------------
(* The image count: Images is finite, and an image more or less changes    *)
(* its cardinality by at most one.                                         *)

LEMMA ImagesFinite == IsFiniteSet(Images)
<1>1. IsFiniteSet(Slot)
  BY FS_Interval
<1>2. Images \subseteq Slot
  BY DEF Images
<1>3. QED
  BY <1>1, <1>2, FS_Subset

LEMMA ImagesWith ==
  ASSUME TypeOK, wslot \in Slot, elf' = [elf EXCEPT ![wslot] = "image"]
  PROVE  Cardinality(Images') <= Cardinality(Images) + 1
<1>1. Images' = Images \cup {wslot}
  BY DEF Images, TypeOK
<1>2. Cardinality(Images) \in Nat
  BY ImagesFinite, FS_CardinalityType
<1>3. Cardinality(Images \cup {wslot}) =
        IF wslot \in Images THEN Cardinality(Images) ELSE Cardinality(Images) + 1
  BY ImagesFinite, FS_AddElement
<1>4. QED
  BY <1>1, <1>2, <1>3

LEMMA ImagesWithout ==
  ASSUME TypeOK, wslot \in Slot, elf' = [elf EXCEPT ![wslot] = "null"]
  PROVE  Cardinality(Images') =
           IF elf[wslot] = "image" THEN Cardinality(Images) - 1
                                   ELSE Cardinality(Images)
<1>1. Images' = Images \ {wslot}
  BY DEF Images, TypeOK
<1>2. wslot \in Images <=> elf[wslot] = "image"
  BY DEF Images
<1>3. QED
  BY <1>1, <1>2, ImagesFinite, FS_RemoveElement, FS_CardinalityType

LEMMA ImageCountKept ==
  ASSUME TypeOK, ImageCount, wslot \in Slot,
         \/ UNCHANGED <<elf, images>>
         \/ /\ elf' = [elf EXCEPT ![wslot] = "image"]
            /\ images' = images + 1
         \/ /\ elf' = [elf EXCEPT ![wslot] = "null"]
            /\ \/ images' = images
               \/ elf[wslot] = "image" /\ images' = images - 1
  PROVE  ImageCount' /\ images' \in Nat
<1>1. Cardinality(Images) \in Nat /\ Cardinality(Images') \in Nat
  <2>1. IsFiniteSet(Images')
    <3>1. IsFiniteSet(Slot) /\ Images' \subseteq Slot
      BY FS_Interval DEF Images
    <3>2. QED
      BY <3>1, FS_Subset
  <2>2. QED
    BY <2>1, ImagesFinite, FS_CardinalityType
<1>2. CASE UNCHANGED <<elf, images>>
  <2>1. Images' = Images
    BY <1>2 DEF Images
  <2>2. QED
    BY <1>2, <2>1 DEF ImageCount, TypeOK
<1>3. CASE elf' = [elf EXCEPT ![wslot] = "image"] /\ images' = images + 1
  BY <1>1, <1>3, ImagesWith DEF ImageCount, TypeOK
<1>4. CASE elf' = [elf EXCEPT ![wslot] = "null"] /\ images' = images
  BY <1>1, <1>4, ImagesWithout DEF ImageCount, TypeOK
<1>5. CASE /\ elf' = [elf EXCEPT ![wslot] = "null"]
           /\ elf[wslot] = "image" /\ images' = images - 1
  BY <1>1, <1>5, ImagesWithout DEF ImageCount, TypeOK
<1>6. QED
  BY <1>2, <1>3, <1>4, <1>5

---------------------------------------------------------------------------
(* The calls.  They leave the slots alone; Spawn and Join move the worker. *)

LEMMA CallTypes ==
  ASSUME TypeOK, NEW t \in Thread, Call(t) \/ Lock(t) \/ Proceed(t)
  PROVE  TypeOK'
<1> DEFINE Steps == {"idle", "scan", "lock", "spawn", "join", "unlock"}
<1>1. UNCHANGED <<status, obj, elf, images>>
  BY DEF Call, Load, Stop, StopAll, Lock, Proceed, Scan, Spawn, Join, Unlock, slotVars
<1>2. ASSUME NEW x \in Steps, pc' = [pc EXCEPT ![t] = x]
      PROVE  pc' \in [Thread -> Steps]
  BY <1>2 DEF TypeOK
<1> HIDE DEF Steps
<1>3. ASSUME pc' \in [Thread -> Steps], mtxWorker' \in Thread \cup {NoThread},
             job' \in [Thread -> 0 .. NSlots], scan' \in [Thread -> 0 .. NSlots],
             wpc' \in {"none", "exit"} \cup LoadSteps \cup StopSteps, wslot' \in 0 .. NSlots
      PROVE  TypeOK'
  BY <1>1, <1>3 DEF TypeOK, Steps
<1>4. mtxWorker \in Thread \cup {NoThread} /\ wslot \in 0 .. NSlots
      /\ job \in [Thread -> 0 .. NSlots] /\ scan \in [Thread -> 0 .. NSlots]
      /\ wpc \in {"none", "exit"} \cup LoadSteps \cup StopSteps
  BY DEF TypeOK
<1>5. /\ "idle" \in Steps /\ "scan" \in Steps /\ "lock" \in Steps
      /\ "spawn" \in Steps /\ "join" \in Steps /\ "unlock" \in Steps
  BY DEF Steps
<1>6. CASE Load(t)
  BY <1>2, <1>3, <1>4, <1>5, <1>6 DEF Load, GoTo, workerVars
<1>7. CASE StopAll(t)
  <2>1. scan' \in [Thread -> 0 .. NSlots]
    BY <1>4, <1>7, PatchAssumption DEF StopAll
  <2> QED
    BY <1>2, <1>3, <1>4, <1>5, <1>7, <2>1 DEF StopAll, GoTo, workerVars
<1>8. ASSUME NEW s \in Slot, Stop(t, s)
      PROVE  TypeOK'
  <2>1. job' \in [Thread -> 0 .. NSlots]
    BY <1>4, <1>8, PatchAssumption DEF Stop, Slot
  <2> QED
    BY <1>2, <1>3, <1>4, <1>5, <1>8, <2>1 DEF Stop, GoTo, workerVars
<1>9. CASE Lock(t)
  BY <1>2, <1>3, <1>4, <1>5, <1>9 DEF Lock, GoTo, workerVars
<1>10. CASE Scan(t)
  <2>1. UNCHANGED <<mtxWorker, wpc, wslot>>
    BY <1>10 DEF Scan, workerVars
  <2>2. /\ \/ pc' = [pc EXCEPT ![t] = "idle"]
           \/ pc' = [pc EXCEPT ![t] = "lock"]
           \/ pc' = [pc EXCEPT ![t] = "scan"]
        /\ \/ scan' = scan
           \/ scan[t] \in Slot /\ scan' = [scan EXCEPT ![t] = scan[t] + 1]
        /\ \/ job' = job
           \/ scan[t] \in Slot /\ job' = [job EXCEPT ![t] = scan[t]]
    BY <1>10 DEF Scan, GoTo
  <2>3. pc' \in [Thread -> Steps]
    BY <1>2, <1>5, <2>2
  <2>4. scan[t] \in Slot => scan[t] \in 0 .. NSlots /\ scan[t] + 1 \in 0 .. NSlots
    BY PatchAssumption DEF Slot
  <2>5. scan' \in [Thread -> 0 .. NSlots]
    BY <1>4, <2>2, <2>4
  <2>6. job' \in [Thread -> 0 .. NSlots]
    BY <1>4, <2>2, <2>4
  <2> QED
    BY <1>3, <1>4, <2>1, <2>3, <2>5, <2>6
<1>11. CASE Spawn(t)
  <2>1. wpc' \in {"none", "exit"} \cup LoadSteps \cup StopSteps /\ wslot' \in 0 .. NSlots
    BY <1>4, <1>11 DEF Spawn, LoadSteps, StopSteps
  <2> QED
    BY <1>2, <1>3, <1>4, <1>5, <1>11, <2>1 DEF Spawn, GoTo
<1>12. CASE Join(t)
  <2>1. wpc' \in {"none", "exit"} \cup LoadSteps \cup StopSteps /\ wslot' \in 0 .. NSlots
    BY <1>12, PatchAssumption DEF Join, NoSlot
  <2> QED
    BY <1>2, <1>3, <1>4, <1>5, <1>12, <2>1 DEF Join, GoTo
<1>13. CASE Unlock(t)
  <2>1. job' \in [Thread -> 0 .. NSlots]
    BY <1>4, <1>13, PatchAssumption DEF Unlock, NoSlot
  <2>2. pc' = [pc EXCEPT ![t] = "idle"] \/ pc' = [pc EXCEPT ![t] = "scan"]
    BY <1>13 DEF Unlock, GoTo
  <2> QED
    BY <1>2, <1>3, <1>4, <1>5, <1>13, <2>1, <2>2 DEF Unlock, workerVars
<1> QED
  BY <1>6, <1>7, <1>8, <1>9, <1>10, <1>11, <1>12, <1>13 DEF Call, Proceed

LEMMA CallKeepsIInv ==
  ASSUME IInv, NEW t \in Thread, Call(t) \/ Lock(t) \/ Proceed(t)
  PROVE  IInv'
<1> USE DEF IInv, SlotInv, TypeOK, GoTo, slotVars, workerVars, LoadSteps, StopSteps
<1>1. UNCHANGED slotVars
  BY DEF Call, Load, Stop, StopAll, Lock, Proceed, Scan, Spawn, Join, Unlock
<1>2. ImageCount'
  BY <1>1 DEF ImageCount, Images
<1>3. TypeOK'
  BY CallTypes
<1>4. OneCall'
  <2> USE DEF OneCall, InCall
  <2>1. CASE Call(t)
    <3>1. UNCHANGED <<mtxWorker, wpc>> /\ pc[t] = "idle"
          /\ (pc' = [pc EXCEPT ![t] = "lock"] \/ pc' = [pc EXCEPT ![t] = "scan"])
      BY <2>1 DEF Call, Load, Stop, StopAll
    <3> QED
      BY <3>1
  <2>2. CASE Lock(t)
    BY <2>2 DEF Lock
  <2>3. CASE Scan(t)
    BY <2>3 DEF Scan
  <2>4. CASE Spawn(t)
    BY <2>4 DEF Spawn
  <2>5. CASE Join(t)
    BY <2>5 DEF Join
  <2>6. CASE Unlock(t)
    BY <2>6 DEF Unlock
  <2>7. QED
    BY <2>1, <2>2, <2>3, <2>4, <2>5, <2>6 DEF Proceed
<1>5. (SlotKnown /\ Loading /\ Stopping /\ Settled)'
  <2> USE DEF SlotKnown, Loading, Stopping, Settled, InCharge
  <2>1. CASE UNCHANGED workerVars
    BY <1>1, <2>1
  <2>2. CASE Spawn(t)
    <3>1. wpc = "none"
      BY <2>2 DEF Spawn, OneCall, InCall
    <3>2. wpc' \in {"resolve", "request"} /\ (wpc' = "request" => wslot' \in Slot)
      BY <2>2 DEF Spawn
    <3>3. QED
      BY <1>1, <3>1, <3>2
  <2>3. CASE Join(t)
    BY <1>1, <2>3 DEF Join
  <2>4. QED
    BY <2>1, <2>2, <2>3 DEF Call, Load, Stop, StopAll, Lock, Proceed, Scan, Unlock
<1>6. QED
  BY <1>2, <1>3, <1>4, <1>5

---------------------------------------------------------------------------
(* The steps of threadLoadPatch.                                           *)

LEMMA AllocTypes ==
  ASSUME TypeOK, AllocPatch
  PROVE  TypeOK'
<1>1. /\ UNCHANGED <<status, obj, elf, images, callVars>>
      /\ wpc' \in {"elf", "exit"}
      /\ wslot' = wslot \/ wslot' \in Slot
  BY DEF AllocPatch, WorkerAt, slotVars
<1>2. QED
  BY <1>1 DEF TypeOK, callVars, LoadSteps, StopSteps

\* load_elf either adds an image, or leaves a slot that has one as it was, or
\* leaves a slot without an image.
LEMMA LoadElfOutcome ==
  ASSUME TypeOK, SlotKnown, LoadElf
  PROVE  /\ wslot \in Slot
         /\ \/ /\ wpc' = "instance" /\ images < MaxImages /\ images' = images + 1
               /\ elf' = [elf EXCEPT ![wslot] = "image"]
            \/ /\ wpc' = "instance" /\ elf[wslot] = "image"
               /\ UNCHANGED <<elf, images>>
            \/ /\ wpc' = "exit" /\ images' = images
               /\ elf' = [elf EXCEPT ![wslot] = "null"]
<1>1. wslot \in Slot
  BY DEF SlotKnown, LoadElf
<1>2. ASSUME NEW e \in {"null", elf[wslot]}, elf' = [elf EXCEPT ![wslot] = e]
      PROVE  \/ e = "image" /\ elf[wslot] = "image" /\ elf' = elf
             \/ e = "null" /\ elf' = [elf EXCEPT ![wslot] = "null"]
  <2>1. elf[wslot] \in {"null", "image"}
    BY <1>1 DEF TypeOK
  <2>2. CASE e = "null"
    BY <1>2, <2>2
  <2>3. CASE e = "image"
    <3>1. elf[wslot] = "image" /\ elf' = [elf EXCEPT ![wslot] = elf[wslot]]
      BY <1>2, <2>3
    <3>2. elf' = elf
      BY <1>1, <3>1 DEF TypeOK
    <3>3. QED
      BY <2>3, <3>1, <3>2
  <2>4. QED
    BY <2>1, <2>2, <2>3
<1>3. QED
  BY <1>1, <1>2 DEF LoadElf

LEMMA LoadKeepsIInv ==
  ASSUME IInv, LoadWorker
  PROVE  IInv'
<1> USE DEF IInv, SlotInv, TypeOK, WorkerAt, callVars, slotVars, LoadSteps, StopSteps,
            SlotKnown, Loading, Stopping, Settled, InCharge
<1>1. OneCall'
  BY DEF OneCall, InCall, LoadWorker, Resolve, AllocPatch, LoadElf, CreateInstance, InitInstance, Publish, UiInitPatch
<1>2. ASSUME Resolve
      PROVE  IInv'
  <2>1. ImageCount'
    BY <1>2 DEF Resolve, ImageCount, Images
  <2>2. TypeOK'
    BY <1>2 DEF Resolve
  <2>3. (SlotKnown /\ Loading /\ Stopping /\ Settled)'
    BY <1>2 DEF Resolve
  <2>4. QED
    BY <1>1, <2>1, <2>2, <2>3
<1>3. ASSUME AllocPatch
      PROVE  IInv'
  <2>1. ImageCount'
    <3>1. UNCHANGED <<elf, images>>
      BY <1>3 DEF AllocPatch
    <3> QED
      BY <3>1 DEF ImageCount, Images
  <2>2. CASE \A s \in Slot : ~ IsFree(s)
    BY <1>1, <1>3, <2>1, <2>2 DEF AllocPatch
  <2>3. ASSUME NEW s \in Slot, IsFree(s), \A u \in Slot : u < s => ~ IsFree(u),
               wpc = "alloc", wpc' = "elf", wslot' = s,
               UNCHANGED <<status, obj, elf, images, callVars>>
        PROVE  IInv'
    <3>1. TypeOK' /\ SlotKnown'
      BY <1>3, <2>3, AllocTypes
    <3>2. \A u \in Slot : u < s => status[u] = "RUNNING"
      BY <2>3 DEF IsFree
    <3>3. obj[s] \in {"null", "dangling"} /\ status[s] = "STOPPED"
      BY <2>3 DEF IsFree
    <3>4. Loading' /\ Stopping' /\ Settled'
      BY <2>3, <3>2, <3>3
    <3>5. QED
      BY <1>1, <2>1, <3>1, <3>4
  <2>4. QED
    BY <1>3, <2>2, <2>3 DEF AllocPatch
<1>4. ASSUME LoadElf
      PROVE  IInv'
  <2>1. ImageCount' /\ images' \in Nat
    BY <1>4, LoadElfOutcome, ImageCountKept
  <2>0. /\ wslot \in Slot /\ wpc = "elf" /\ wpc' \in {"instance", "exit"}
        /\ UNCHANGED <<wslot, status, obj, mtxWorker, pc, job, scan>>
    <3>1. wslot \in Slot /\ wpc' \in {"instance", "exit"}
      BY <1>4, LoadElfOutcome
    <3>2. QED
      BY <1>4, <3>1 DEF LoadElf
  <2>2. /\ elf' \in [Slot -> {"null", "image"}] /\ images' \in 0 .. MaxImages
        /\ wpc' = "instance" => elf'[wslot] = "image"
        /\ \A u \in Slot : u # wslot => elf'[u] = elf[u]
    <3>1. CASE /\ images < MaxImages /\ images' = images + 1
               /\ elf' = [elf EXCEPT ![wslot] = "image"]
      BY <2>0, <2>1, <3>1
    <3>2. CASE elf[wslot] = "image" /\ UNCHANGED <<elf, images>>
      BY <3>2
    <3>3. CASE /\ wpc' = "exit" /\ images' = images
               /\ elf' = [elf EXCEPT ![wslot] = "null"]
      BY <2>0, <3>3
    <3>4. QED
      BY <1>4, LoadElfOutcome, <3>1, <3>2, <3>3
  <2>3. TypeOK'
    BY <2>0, <2>2
  <2>4. (SlotKnown /\ Loading /\ Stopping)'
    BY <2>0, <2>2
  <2>5. Settled'
    <3>1. \A u \in Slot : status[u] = "RUNNING" => u # wslot
      BY <2>0
    <3>2. QED
      BY <2>0, <2>2, <3>1
  <2>6. QED
    BY <1>1, <2>1, <2>3, <2>4, <2>5
<1>5. ASSUME CreateInstance
      PROVE  IInv'
  <2>1. ImageCount'
    BY <1>5 DEF CreateInstance, ImageCount, Images
  <2>2. TypeOK'
    BY <1>5 DEF CreateInstance
  <2>3. (SlotKnown /\ Loading /\ Stopping /\ Settled)'
    BY <1>5 DEF CreateInstance
  <2>4. QED
    BY <1>1, <2>1, <2>2, <2>3
<1>6. ASSUME InitInstance
      PROVE  IInv'
  <2>1. ImageCount'
    BY <1>6 DEF InitInstance, ImageCount, Images
  <2>2. TypeOK'
    BY <1>6 DEF InitInstance
  <2>3. (SlotKnown /\ Loading /\ Stopping /\ Settled)'
    BY <1>6 DEF InitInstance
  <2>4. QED
    BY <1>1, <2>1, <2>2, <2>3
<1>7. ASSUME Publish
      PROVE  IInv'
  <2>1. ImageCount'
    BY <1>7 DEF Publish, ImageCount, Images
  <2>2. TypeOK'
    BY <1>7 DEF Publish
  <2>3. (SlotKnown /\ Loading /\ Stopping /\ Settled)'
    BY <1>7 DEF Publish
  <2>4. QED
    BY <1>1, <2>1, <2>2, <2>3
<1>8. ASSUME UiInitPatch
      PROVE  IInv'
  <2>1. ImageCount'
    BY <1>8 DEF UiInitPatch, ImageCount, Images
  <2>2. TypeOK'
    BY <1>8 DEF UiInitPatch
  <2>3. (SlotKnown /\ Loading /\ Stopping /\ Settled)'
    BY <1>8 DEF UiInitPatch
  <2>4. QED
    BY <1>1, <2>1, <2>2, <2>3
<1>9. QED
  BY <1>2, <1>3, <1>4, <1>5, <1>6, <1>7, <1>8 DEF LoadWorker

---------------------------------------------------------------------------
(* The steps of threadStopPatch.                                           *)

LEMMA StopKeepsIInv ==
  ASSUME IInv, StopWorker
  PROVE  IInv'
<1> USE DEF IInv, SlotInv, TypeOK, WorkerAt, callVars, slotVars, LoadSteps, StopSteps,
            SlotKnown, Loading, Stopping, Settled, InCharge
<1>1. OneCall'
  BY DEF OneCall, InCall, StopWorker, StopRequest, StopPoll, Dispose, Free, Reset, Unload
<1>2. ASSUME StopRequest
      PROVE  IInv'
  <2>1. ImageCount'
    BY <1>2 DEF StopRequest, ImageCount, Images
  <2>2. TypeOK'
    BY <1>2 DEF StopRequest
  <2>3. (SlotKnown /\ Loading /\ Stopping /\ Settled)'
    BY <1>2 DEF StopRequest
  <2>4. QED
    BY <1>1, <2>1, <2>2, <2>3
<1>3. ASSUME StopPoll
      PROVE  IInv'
  <2>1. ImageCount'
    BY <1>3 DEF StopPoll, ImageCount, Images
  <2>2. TypeOK'
    BY <1>3 DEF StopPoll
  <2>3. (SlotKnown /\ Loading /\ Stopping /\ Settled)'
    BY <1>3 DEF StopPoll
  <2>4. QED
    BY <1>1, <2>1, <2>2, <2>3
<1>4. ASSUME Dispose
      PROVE  IInv'
  <2>1. ImageCount'
    BY <1>4 DEF Dispose, ImageCount, Images
  <2>2. TypeOK'
    BY <1>4 DEF Dispose
  <2>3. (SlotKnown /\ Loading /\ Stopping /\ Settled)'
    BY <1>4 DEF Dispose
  <2>4. QED
    BY <1>1, <2>1, <2>2, <2>3
<1>5. ASSUME Free
      PROVE  IInv'
  <2>1. ImageCount'
    BY <1>5 DEF Free, ImageCount, Images
  <2>2. TypeOK'
    BY <1>5 DEF Free
  <2>3. (SlotKnown /\ Loading /\ Stopping /\ Settled)'
    BY <1>5 DEF Free
  <2>4. QED
    BY <1>1, <2>1, <2>2, <2>3
<1>6. ASSUME Reset
      PROVE  IInv'
  <2>1. ImageCount'
    BY <1>6 DEF Reset, ImageCount, Images
  <2>2. TypeOK'
    BY <1>6 DEF Reset
  <2>3. (SlotKnown /\ Loading /\ Stopping /\ Settled)'
    BY <1>6 DEF Reset
  <2>4. QED
    BY <1>1, <2>1, <2>2, <2>3
<1>7. ASSUME Unload
      PROVE  IInv'
  <2>1. ImageCount' /\ images' \in Nat
    BY <1>7, ImageCountKept DEF Unload, ImageCount, Images
  <2>2. TypeOK'
    BY <1>7, <2>1 DEF Unload
  <2>3. (SlotKnown /\ Loading /\ Stopping /\ Settled)'
    BY <1>7 DEF Unload
  <2>4. QED
    BY <1>1, <2>1, <2>2, <2>3
<1>8. QED
  BY <1>2, <1>3, <1>4, <1>5, <1>6, <1>7 DEF StopWorker

---------------------------------------------------------------------------
(* The DSP cycle, and the invariant.                                       *)

LEMMA DspKeepsIInv ==
  ASSUME IInv, DspCycle
  PROVE  IInv'
<1> USE DEF IInv, SlotInv, TypeOK, DspCycle, Retire, callVars, workerVars
<1>1. \A s \in Slot : /\ (status[s] = "STOPPING" => status'[s] = "STOPPED")
                      /\ (status[s] # "STOPPING" => status'[s] = status[s])
  OBVIOUS
<1>2. TypeOK' /\ OneCall' /\ SlotKnown' /\ ImageCount'
  BY DEF OneCall, InCall, SlotKnown, ImageCount, Images
<1>3. Loading' /\ Stopping' /\ Settled'
  BY <1>1 DEF SlotKnown, Loading, Stopping, Settled, InCharge
<1>4. QED
  BY <1>2, <1>3

LEMMA InitIInv == Init => IInv
<1> SUFFICES ASSUME Init PROVE IInv
  OBVIOUS
<1>1. Images = {}
  BY DEF Init, Images
<1>2. ImageCount
  BY <1>1, FS_EmptySet DEF ImageCount, Init
<1>3. TypeOK
  <2>1. MaxImages \in Nat /\ NSlots \in Nat \ {0}
    BY PatchAssumption DEF PatchAssumption
  <2>2. images \in 0 .. MaxImages /\ wslot \in 0 .. NSlots
    BY <2>1 DEF Init
  <2>3. job \in [Thread -> 0 .. NSlots] /\ scan \in [Thread -> 0 .. NSlots]
    BY <2>1 DEF Init
  <2>4. QED
    BY <2>2, <2>3 DEF Init, TypeOK
<1>4. SlotKnown /\ OneCall
  BY DEF Init, SlotKnown, OneCall, InCall
<1>5. Loading /\ Stopping /\ Settled
  BY DEF Init, Loading, Stopping, Settled
<1>6. QED
  BY <1>2, <1>3, <1>4, <1>5 DEF IInv, SlotInv

LEMMA NextIInv == IInv /\ [Next]_vars => IInv'
<1> SUFFICES ASSUME IInv, [Next]_vars PROVE IInv'
  OBVIOUS
<1>1. ASSUME NEW t \in Thread, Call(t) \/ Lock(t) \/ Proceed(t)
      PROVE  IInv'
  BY <1>1, CallKeepsIInv
<1>2. CASE Worker
  BY <1>2, LoadKeepsIInv, StopKeepsIInv DEF Worker
<1>3. CASE DspCycle
  BY <1>3, DspKeepsIInv
<1>4. CASE UNCHANGED vars
  BY <1>4 DEF vars, slotVars, callVars, workerVars, IInv, SlotInv, TypeOK, SlotKnown,
              OneCall, InCall, Loading, Stopping, Settled, InCharge, ImageCount, Images
<1>5. QED
  BY <1>1, <1>2, <1>3, <1>4 DEF Next

THEOREM Invariance == Spec => []IInv
BY InitIInv, NextIInv, PTL DEF Spec

\* The types of the patch manager's state.
THEOREM Types == Spec => []TypeOK
<1>1. IInv => TypeOK
  BY DEF IInv
<1>2. QED
  BY <1>1, Invariance, PTL

\* At the moment a thread creates a worker in waThreadWorker the stack is
\* free: the thread holds the mutex, and a worker's owner is joining it.
THEOREM StackFree == Spec => []WorkerStackFree
<1>1. IInv => WorkerStackFree
  BY DEF IInv, SlotInv, OneCall, InCall, WorkerStackFree
<1>2. QED
  BY <1>1, Invariance, PTL

\* A RUNNING slot, the ones ThreadDSP plays, has a live instance and its code.
THEOREM PlaysLive == Spec => []DspPlaysLive
<1>1. IInv => DspPlaysLive
  BY DEF IInv, SlotInv, Settled, DspPlaysLive
<1>2. QED
  BY <1>1, Invariance, PTL

\* An allocated instance belongs to a patch that plays or to the worker.
THEOREM NoInstanceLost == Spec => []InstanceHasOwner
<1>1. IInv => InstanceHasOwner
  BY DEF IInv, SlotInv, TypeOK, Settled, InCharge, InstanceHasOwner
<1>2. QED
  BY <1>1, Invariance, PTL

\* ui_init_patch, which asks for the patch in slot 0 after a load of any slot,
\* finds a live one: loads fill the lowest free slot.
THEOREM UiFindsPatch == Spec => []UiInitFindsPatch
<1>1. IInv => UiInitFindsPatch
  BY DEF IInv, SlotInv, Loading, Settled, UiInitFindsPatch
<1>2. QED
  BY <1>1, Invariance, PTL

---------------------------------------------------------------------------
(* The handshake of a stop.                                                *)

\* Only Dispose and InitInstance change an instance that is live, and the
\* latter starts from a raw one: a live instance goes only once the DSP
\* thread has moved its slot to STOPPED.
THEOREM LetGoFirst == Spec => TakenDownAfterLetGo
<1> DEFINE Kept == \A s \in Slot :
                     obj[s] = "live" /\ obj'[s] # "live" => status[s] = "STOPPED"
<1>1. IInv /\ [Next]_vars => [Kept]_vars
  <2> SUFFICES ASSUME IInv, [Next]_vars PROVE Kept
    OBVIOUS
  <2> USE DEF IInv, TypeOK, SlotInv, SlotKnown, Loading, Stopping, WorkerAt, slotVars
  <2>1. CASE UNCHANGED obj
    BY <2>1
  <2>2. CASE CreateInstance
    BY <2>2 DEF CreateInstance
  <2>3. CASE InitInstance
    BY <2>3 DEF InitInstance
  <2>4. CASE Dispose
    BY <2>4 DEF Dispose
  <2>5. CASE Free
    BY <2>5 DEF Free
  <2>6. CASE Reset
    BY <2>6 DEF Reset
  <2>7. ASSUME NEW t \in Thread, Call(t) \/ Lock(t) \/ Proceed(t)
        PROVE  UNCHANGED obj
    BY <2>7 DEF Call, Load, Stop, StopAll, Lock, Proceed, Scan, Spawn, Join, Unlock
  <2>8. CASE Resolve \/ AllocPatch \/ LoadElf \/ Publish \/ UiInitPatch
               \/ StopRequest \/ StopPoll \/ Unload \/ DspCycle \/ UNCHANGED vars
    <3>1. UNCHANGED obj
      BY <2>8 DEF Resolve, AllocPatch, LoadElf, Publish, UiInitPatch, StopRequest,
                  StopPoll, Unload, DspCycle, vars
    <3>2. QED
      BY <3>1
  <2>9. QED
    BY <2>1, <2>2, <2>3, <2>4, <2>5, <2>6, <2>7, <2>8
       DEF Next, Worker, LoadWorker, StopWorker
<1>2. QED
  BY <1>1, Invariance, PTL DEF Spec, TakenDownAfterLetGo

---------------------------------------------------------------------------
(* The images.                                                             *)

\* With patches that start, an image belongs to a patch that plays or to the
\* worker between load_elf and unload_elf.
HasImage(s) ==
  elf[s] = "image" =>
    \/ status[s] # "STOPPED"
    \/ s = wslot /\ wpc \in {"instance", "init", "publish", "poll", "dispose",
                             "free", "reset", "unload"}

NoneKept == ~ BadPatches => \A s \in Slot : HasImage(s)

LEMMA NoneKeptHolds == Spec => []NoneKept
<1>1. Init => NoneKept
  BY DEF Init, NoneKept, HasImage
<1>2. IInv /\ NoneKept /\ [Next]_vars => NoneKept'
  <2> SUFFICES ASSUME IInv, [Next]_vars, ~ BadPatches, NEW s \in Slot, HasImage(s)
               PROVE  HasImage(s)'
    BY DEF NoneKept
  <2> USE DEF HasImage, IInv, TypeOK, SlotInv, SlotKnown, Loading, Stopping, WorkerAt,
              slotVars, callVars, workerVars
  <2>1. ASSUME NEW t \in Thread, Call(t) \/ Lock(t) \/ Proceed(t)
        PROVE  HasImage(s)'
    <3>1. CASE Spawn(t)
      BY <3>1 DEF Spawn, GoTo, OneCall, InCall
    <3>2. CASE Join(t)
      BY <3>2 DEF Join, GoTo
    <3>3. CASE UNCHANGED <<slotVars, workerVars>>
      BY <3>3
    <3>4. QED
      BY <2>1, <3>1, <3>2, <3>3 DEF Call, Load, Stop, StopAll, Lock, Proceed, Scan, Unlock
  <2>2. CASE Resolve \/ AllocPatch
    BY <2>2 DEF Resolve, AllocPatch
  <2>3. CASE LoadElf
    BY <2>3, LoadElfOutcome DEF LoadElf
  <2>4. CASE CreateInstance \/ InitInstance
    BY <2>4 DEF CreateInstance, InitInstance
  <2>5. CASE Publish \/ UiInitPatch
    BY <2>5 DEF Publish, UiInitPatch
  <2>6. CASE StopRequest \/ StopPoll \/ Dispose \/ Free
    BY <2>6 DEF StopRequest, StopPoll, Dispose, Free
  <2>7. CASE Reset \/ Unload
    BY <2>7 DEF Reset, Unload
  <2>8. CASE DspCycle
    BY <2>8 DEF DspCycle, Retire, Settled
  <2>9. CASE UNCHANGED vars
    BY <2>9 DEF vars
  <2>10. QED
    BY <2>1, <2>2, <2>3, <2>4, <2>5, <2>6, <2>7, <2>8, <2>9
       DEF Next, Worker, LoadWorker, StopWorker
<1>3. QED
  BY <1>1, <1>2, Invariance, PTL DEF Spec

LEMMA SizesNat ==
  ASSUME IInv
  PROVE  images \in Nat /\ Cardinality(Images) \in Nat
BY ImagesFinite, FS_CardinalityType DEF IInv, TypeOK

LEMMA ImagesPlus ==
  ASSUME TypeOK, wslot \in Slot, elf[wslot] # "image",
         elf' = [elf EXCEPT ![wslot] = "image"]
  PROVE  Cardinality(Images') = Cardinality(Images) + 1
<1>1. Images' = Images \cup {wslot} /\ wslot \notin Images
  BY DEF Images, TypeOK
<1>2. QED
  BY <1>1, ImagesFinite, FS_AddElement

\* An image is lost only where a load overwrites the handle that a patch which
\* did not start left in its slot: load_elf adds an image and a handle, stops
\* drop both.
THEOREM ImagesAccountedFor == Spec => NoImageLost
<1> DEFINE Accounted == Lost' > Lost => BadPatches /\ wpc = "elf" /\ elf[wslot] = "image"
<1>1. IInv /\ NoneKept /\ [Next]_vars => [Accounted]_vars
  <2> SUFFICES ASSUME IInv, NoneKept, [Next]_vars, Lost' > Lost
               PROVE  BadPatches /\ wpc = "elf" /\ elf[wslot] = "image"
    BY DEF Accounted
  <2>0. /\ Lost = images - Cardinality(Images)
        /\ Lost' = images' - Cardinality(Images')
    BY DEF Lost, Images
  <2>1. CASE UNCHANGED <<elf, images>>
    <3>1. Lost' = Lost
      BY <2>1 DEF Lost
    <3>2. Cardinality(Images) \in Nat /\ images \in Nat
      BY ImagesFinite, FS_CardinalityType DEF IInv, TypeOK
    <3>3. QED
      BY <2>0, <3>1, <3>2
  <2>2. CASE LoadElf
    <3>1. wslot \in Slot /\ wpc = "elf" /\ status[wslot] = "STOPPED"
      BY <2>2 DEF LoadElf, IInv, SlotInv, SlotKnown, Loading
    <3>2. CASE elf[wslot] = "image"
      BY <3>1, <3>2 DEF NoneKept, HasImage
    <3>3. CASE elf[wslot] # "image"
      <4>1. CASE images' = images + 1 /\ elf' = [elf EXCEPT ![wslot] = "image"]
        <5>1. Cardinality(Images') = Cardinality(Images) + 1
          BY <3>1, <3>3, <4>1, ImagesPlus DEF IInv
        <5>2. QED
          BY <2>0, <4>1, <5>1, SizesNat DEF IInv, TypeOK
      <4>2. CASE images' = images /\ elf' = [elf EXCEPT ![wslot] = "null"]
        <5>1. Cardinality(Images') = Cardinality(Images)
          BY <3>1, <3>3, <4>2, ImagesWithout DEF IInv
        <5>2. QED
          BY <2>0, <4>2, <5>1, SizesNat DEF IInv, TypeOK
      <4>3. QED
        BY <2>2, <3>3, <4>1, <4>2, LoadElfOutcome DEF IInv, SlotInv
    <3>4. QED
      BY <3>2, <3>3
  <2>3. CASE Unload
    <3>1. wslot \in Slot /\ elf' = [elf EXCEPT ![wslot] = "null"]
      BY <2>3 DEF Unload, WorkerAt, IInv, SlotInv, SlotKnown
    <3>2. images' = IF elf[wslot] = "image" THEN images - 1 ELSE images
      BY <2>3 DEF Unload
    <3>3. Cardinality(Images') = IF elf[wslot] = "image" THEN Cardinality(Images) - 1
                                                         ELSE Cardinality(Images)
      BY <3>1, ImagesWithout DEF IInv
    <3>4. QED
      BY <2>0, <3>2, <3>3, SizesNat DEF IInv, TypeOK
  <2>4. QED
    <3>1. UNCHANGED <<elf, images>> \/ LoadElf \/ Unload
      BY DEF Next, vars, slotVars, Call, Load, Stop, StopAll, Lock, Proceed, Scan, Spawn,
             Join, Unlock, Worker, LoadWorker, StopWorker, Resolve, AllocPatch,
             CreateInstance, InitInstance, Publish, UiInitPatch, StopRequest, StopPoll,
             Dispose, Free, Reset, DspCycle
    <3>2. QED
      BY <2>1, <2>2, <2>3, <3>1
<1>2. QED
  BY <1>1, Invariance, NoneKeptHolds, PTL DEF Spec, NoImageLost

---------------------------------------------------------------------------
(* The initial states map to empty slots, and under IInv every step maps   *)
(* to a step of the lifecycle of one slot, or to a stutter.                *)

USE DEF Slot, Lifecycle!Slot

LoadPhase == {"elf", "instance", "init", "publish"}
ReleasePhase == {"poll", "dispose", "free", "reset", "unload"}

LoadsIn(s) == s = wslot /\ wpc \in LoadPhase
ReleasesIn(s) == s = wslot /\ wpc \in ReleasePhase

LifeIs ==
  \A s \in Slot :
    /\ LoadsIn(s) => life[s] = "loading"
    /\ status[s] = "RUNNING" => life[s] = "playing"
    /\ status[s] = "STOPPING" => life[s] = "fading"
    /\ status[s] = "STOPPED" /\ ReleasesIn(s) => life[s] = "releasing"
    /\ status[s] = "STOPPED" /\ ~ LoadsIn(s) /\ ~ ReleasesIn(s) => life[s] = "empty"

\* What life says of a slot, one stage at a time; IInv makes the cases of its
\* definition exclusive.
LEMMA LifeStages == IInv => LifeIs
<1> SUFFICES ASSUME IInv, NEW s \in Slot
             PROVE  LifeIs!(s)
  BY DEF LifeIs
<1>1. LoadsIn(s) => status[s] = "STOPPED"
  BY DEF LoadsIn, LoadPhase, IInv, SlotInv, Loading
<1>2. QED
  BY <1>1 DEF life, LoadPhase, ReleasePhase, LoadsIn, ReleasesIn

LEMMA LifeStagesNext == IInv' => LifeIs'
BY LifeStages, PTL

LEMMA LifeDomain == life = [s \in Slot |-> life[s]] /\ life' = [s \in Slot |-> life'[s]]
BY DEF life

\* A step that leaves the status of the slots and the phase of the worker alone
\* is a stutter.
LEMMA LifeSame ==
  ASSUME IInv, IInv', UNCHANGED status,
         \A s \in Slot : LoadsIn(s)' <=> LoadsIn(s),
         \A s \in Slot : ReleasesIn(s)' <=> ReleasesIn(s)
  PROVE  UNCHANGED life
<1>1. LifeIs /\ LifeIs'
  BY LifeStages, LifeStagesNext
<1>2. ASSUME NEW s \in Slot
      PROVE  life'[s] = life[s]
  <2>1. status[s] \in {"RUNNING", "STOPPED", "STOPPING"}
    BY DEF IInv, TypeOK
  <2>2. QED
    BY <1>1, <2>1 DEF LifeIs
<1>3. QED
  BY <1>2, LifeDomain

\* A step that disturbs one slot moves it through the lifecycle.
LEMMA LifeMoves ==
  ASSUME IInv, IInv', NEW c \in Slot, NEW from, NEW to,
         life[c] = from, life'[c] = to,
         \A s \in Slot \ {c} : /\ status'[s] = status[s]
                               /\ LoadsIn(s)' <=> LoadsIn(s)
                               /\ ReleasesIn(s)' <=> ReleasesIn(s)
  PROVE  Lifecycle!Becomes(c, from, to)
<1>1. LifeIs /\ LifeIs'
  BY LifeStages, LifeStagesNext
<1>2. ASSUME NEW s \in Slot \ {c}
      PROVE  life'[s] = life[s]
  <2>1. status[s] \in {"RUNNING", "STOPPED", "STOPPING"}
    BY DEF IInv, TypeOK
  <2>2. QED
    BY <1>1, <1>2, <2>1 DEF LifeIs
<1>3. life' = [life EXCEPT ![c] = to]
  BY <1>2, LifeDomain
<1>4. QED
  BY <1>3 DEF Lifecycle!Becomes

\* No slot is in transition while the worker neither fills nor releases one:
\* a STOPPING slot is one the worker polls.
LEMMA QuietBetweenPhases ==
  ASSUME IInv, wpc \notin LoadPhase \cup ReleasePhase
  PROVE  Lifecycle!Quiet
<1>1. ASSUME NEW s \in Slot
      PROVE  life[s] \in {"playing", "empty"}
  <2>1. status[s] \in {"RUNNING", "STOPPED"}
    BY DEF IInv, TypeOK, SlotInv, Settled, ReleasePhase
  <2>2. QED
    BY <2>1, LifeStages DEF LifeIs, LoadsIn, ReleasesIn
<1>2. QED
  BY <1>1 DEF Lifecycle!Quiet, Lifecycle!InTransition

---------------------------------------------------------------------------
(* The steps of a load.                                                    *)

LEMMA AllocMaps ==
  ASSUME IInv, IInv', AllocPatch
  PROVE  [Lifecycle!Next]_life
<1> USE DEF WorkerAt, LoadsIn, ReleasesIn, LoadPhase, ReleasePhase
<1>1. CASE \A s \in Slot : ~ IsFree(s)
  BY <1>1, LifeSame DEF AllocPatch, slotVars
<1>2. ASSUME NEW s \in Slot, IsFree(s), \A u \in Slot : u < s => ~ IsFree(u),
             wpc = "alloc", wpc' = "elf", wslot' = s, UNCHANGED status
      PROVE  Lifecycle!BeginLoad(s)
  <2>1. Lifecycle!Quiet
    BY <1>2, QuietBetweenPhases
  <2>2. \A u \in Slot : u < s => life[u] # "empty"
    <3>1. \A u \in Slot : u < s => status[u] \in {"RUNNING", "STOPPING"}
      BY <1>2 DEF IsFree, IInv, TypeOK
    <3>2. QED
      BY <3>1, LifeStages DEF LifeIs
  <2>3. life[s] = "empty" /\ life'[s] = "loading"
    BY <1>2, LifeStages, LifeStagesNext DEF LifeIs, IsFree
  <2>4. Lifecycle!Becomes(s, "empty", "loading")
    BY <1>2, <2>3, LifeMoves
  <2>5. QED
    BY <2>1, <2>2, <2>4 DEF Lifecycle!BeginLoad
<1>3. QED
  BY <1>1, <1>2 DEF AllocPatch, slotVars, Lifecycle!Next

\* A load that gives up.
LEMMA GivingUpMaps ==
  ASSUME IInv, IInv', wpc \in LoadPhase, wpc' = "exit", UNCHANGED <<status, wslot>>
  PROVE  Lifecycle!Next
<1> USE DEF LoadsIn, ReleasesIn, LoadPhase, ReleasePhase
<1>1. wslot \in Slot /\ status[wslot] = "STOPPED"
  BY DEF IInv, SlotInv, SlotKnown, Loading
<1>2. life[wslot] = "loading" /\ life'[wslot] = "empty"
  BY <1>1, LifeStages, LifeStagesNext DEF LifeIs
<1>3. Lifecycle!Becomes(wslot, "loading", "empty")
  BY <1>1, <1>2, LifeMoves
<1>4. QED
  BY <1>1, <1>3 DEF Lifecycle!Next, Lifecycle!FailLoad

LEMMA PublishMaps ==
  ASSUME IInv, IInv', Publish
  PROVE  Lifecycle!Next
<1> USE DEF WorkerAt, LoadsIn, ReleasesIn, LoadPhase, ReleasePhase
<1>1. wslot \in Slot
  BY DEF IInv, SlotInv, SlotKnown, Publish
<1>2. life[wslot] = "loading" /\ life'[wslot] = "playing"
  <2>1. status'[wslot] = "RUNNING"
    BY <1>1 DEF Publish, IInv, TypeOK
  <2>2. QED
    BY <1>1, <2>1, LifeStages, LifeStagesNext DEF LifeIs, Publish
<1>3. Lifecycle!Becomes(wslot, "loading", "playing")
  BY <1>1, <1>2, LifeMoves DEF Publish, IInv, TypeOK
<1>4. QED
  BY <1>1, <1>3 DEF Lifecycle!Next, Lifecycle!FinishLoad

LEMMA LoadMaps ==
  ASSUME IInv, IInv', LoadWorker
  PROVE  [Lifecycle!Next]_life
<1> USE DEF WorkerAt, slotVars
<1>1. CASE Resolve \/ UiInitPatch
  <2>1. UNCHANGED <<status, wslot>>
        /\ wpc \notin LoadPhase \cup ReleasePhase
        /\ wpc' \notin LoadPhase \cup ReleasePhase
    BY <1>1 DEF Resolve, UiInitPatch, LoadPhase, ReleasePhase
  <2>2. QED
    BY <2>1, LifeSame DEF LoadsIn, ReleasesIn
<1>2. CASE LoadElf \/ CreateInstance \/ InitInstance
  <2>1. UNCHANGED <<status, wslot>> /\ wpc \in LoadPhase
        /\ wpc' \in (LoadPhase \cup {"exit"})
    BY <1>2 DEF LoadElf, CreateInstance, InitInstance, LoadPhase
  <2>2. CASE wpc' \in LoadPhase
    BY <2>1, <2>2, LifeSame DEF LoadsIn, ReleasesIn, LoadPhase, ReleasePhase
  <2>3. QED
    BY <2>1, <2>2, GivingUpMaps
<1>3. QED
  BY <1>1, <1>2, AllocMaps, PublishMaps DEF LoadWorker

---------------------------------------------------------------------------
(* The steps of a stop, and the DSP cycle.                                 *)

LEMMA StopRequestMaps ==
  ASSUME IInv, IInv', StopRequest
  PROVE  [Lifecycle!Next]_life
<1> USE DEF LoadsIn, ReleasesIn, LoadPhase, ReleasePhase
<1>1. wslot \in Slot
  BY DEF IInv, SlotInv, SlotKnown, StopRequest
<1>2. CASE status[wslot] = "RUNNING"
  <2>1. life[wslot] = "playing" /\ life'[wslot] = "fading"
    <3>1. status'[wslot] = "STOPPING"
      BY <1>1, <1>2 DEF StopRequest, IInv, TypeOK
    <3>2. QED
      BY <1>1, <1>2, <3>1, LifeStages, LifeStagesNext DEF LifeIs
  <2>2. Lifecycle!Becomes(wslot, "playing", "fading")
    BY <1>1, <1>2, <2>1, LifeMoves DEF StopRequest, IInv, TypeOK
  <2>3. Lifecycle!Quiet
    BY QuietBetweenPhases DEF StopRequest
  <2>4. QED
    BY <1>1, <2>2, <2>3 DEF Lifecycle!Next, Lifecycle!BeginStop
<1>3. CASE status[wslot] # "RUNNING"
  BY <1>3, LifeSame DEF StopRequest
<1>4. QED
  BY <1>2, <1>3

LEMMA UnloadMaps ==
  ASSUME IInv, IInv', Unload
  PROVE  Lifecycle!Next
<1> USE DEF WorkerAt, LoadsIn, ReleasesIn, LoadPhase, ReleasePhase
<1>1. wslot \in Slot /\ status[wslot] = "STOPPED" /\ status'[wslot] = "STOPPED"
  BY DEF IInv, TypeOK, SlotInv, SlotKnown, Stopping, Unload
<1>2. life[wslot] = "releasing" /\ life'[wslot] = "empty"
  BY <1>1, LifeStages, LifeStagesNext DEF LifeIs, Unload
<1>3. Lifecycle!Becomes(wslot, "releasing", "empty")
  BY <1>1, <1>2, LifeMoves DEF Unload, IInv, TypeOK
<1>4. QED
  BY <1>1, <1>3 DEF Lifecycle!Next, Lifecycle!FinishStop

LEMMA StopMaps ==
  ASSUME IInv, IInv', StopWorker
  PROVE  [Lifecycle!Next]_life
<1> USE DEF WorkerAt, slotVars
<1>1. CASE StopPoll \/ Dispose \/ Free \/ Reset
  <2>1. UNCHANGED wslot /\ wpc \in ReleasePhase /\ wpc' \in ReleasePhase
    BY <1>1 DEF StopPoll, Dispose, Free, Reset, ReleasePhase
  <2>2. UNCHANGED status
    <3>1. ASSUME Reset
          PROVE  UNCHANGED status
      <4>1. wslot \in Slot /\ status[wslot] = "STOPPED"
        BY <3>1 DEF Reset, IInv, SlotInv, SlotKnown, Stopping
      <4>2. status' = [status EXCEPT ![wslot] = status[wslot]]
        BY <3>1, <4>1 DEF Reset
      <4>3. QED
        BY <4>1, <4>2 DEF IInv, TypeOK
    <3>2. QED
      BY <1>1, <3>1 DEF StopPoll, Dispose, Free
  <2>3. QED
    BY <2>1, <2>2, LifeSame DEF LoadsIn, ReleasesIn, LoadPhase, ReleasePhase
<1>2. QED
  BY <1>1, StopRequestMaps, UnloadMaps DEF StopWorker

LEMMA DspMaps ==
  ASSUME IInv, IInv', DspCycle
  PROVE  [Lifecycle!Next]_life
<1> USE DEF LoadsIn, ReleasesIn, LoadPhase, ReleasePhase
<1>1. UNCHANGED <<wpc, wslot>>
  BY DEF DspCycle, workerVars
<1>2. \A s \in Slot : status'[s] = IF status[s] = "STOPPING" THEN "STOPPED" ELSE status[s]
  BY DEF DspCycle, Retire
<1>3. CASE wpc = "poll" /\ status[wslot] = "STOPPING"
  <2>1. wslot \in Slot /\ \A s \in Slot \ {wslot} : status'[s] = status[s]
    BY <1>2, <1>3 DEF IInv, SlotInv, SlotKnown, Settled
  <2>2. life[wslot] = "fading" /\ life'[wslot] = "releasing"
    BY <1>1, <1>2, <1>3, <2>1, LifeStages, LifeStagesNext DEF LifeIs
  <2>3. Lifecycle!Becomes(wslot, "fading", "releasing")
    BY <1>1, <2>1, <2>2, LifeMoves
  <2>4. QED
    BY <2>1, <2>3 DEF Lifecycle!Next, Lifecycle!LetGo
<1>4. CASE ~ (wpc = "poll" /\ status[wslot] = "STOPPING")
  <2>1. UNCHANGED status
    BY <1>2, <1>4 DEF DspCycle, IInv, TypeOK, SlotInv, Settled
  <2>2. QED
    BY <1>1, <2>1, LifeSame
<1>5. QED
  BY <1>3, <1>4

---------------------------------------------------------------------------
(* The calls, and the theorem.                                             *)

LEMMA CallMaps ==
  ASSUME IInv, IInv', NEW t \in Thread, Call(t) \/ Lock(t) \/ Proceed(t)
  PROVE  UNCHANGED life
<1>1. UNCHANGED status
  BY DEF Call, Load, Stop, StopAll, Lock, Proceed, Scan, Spawn, Join, Unlock, slotVars
<1>2. UNCHANGED <<wpc, wslot>>
      \/ /\ wpc \notin LoadPhase \cup ReleasePhase
         /\ wpc' \notin LoadPhase \cup ReleasePhase
  <2>1. pc[t] = "spawn" => wpc = "none"
    BY DEF IInv, SlotInv, OneCall, InCall
  <2>2. QED
    BY <2>1 DEF Call, Load, Stop, StopAll, Lock, Proceed, Scan, Spawn, Join, Unlock,
                GoTo, workerVars, LoadPhase, ReleasePhase
<1>3. QED
  BY <1>1, <1>2, LifeSame DEF LoadsIn, ReleasesIn

LEMMA InitMaps == Init => Lifecycle!Init
<1> SUFFICES ASSUME Init PROVE Lifecycle!Init
  OBVIOUS
<1>1. ASSUME NEW s \in Slot
      PROVE  life[s] = "empty"
  <2>1. status[s] = "STOPPED" /\ wpc = "none"
    BY DEF Init
  <2>2. LoadsIn(s) = FALSE /\ ReleasesIn(s) = FALSE
    BY <2>1 DEF LoadsIn, ReleasesIn, LoadPhase, ReleasePhase
  <2>3. QED
    BY <2>1, <2>2, InitIInv, LifeStages DEF LifeIs
<1>2. QED
  BY <1>1, LifeDomain DEF Lifecycle!Init

LEMMA StepMaps == IInv /\ IInv' /\ [Next]_vars => [Lifecycle!Next]_life
<1> SUFFICES ASSUME IInv, IInv', [Next]_vars PROVE [Lifecycle!Next]_life
  OBVIOUS
<1>1. CASE UNCHANGED vars
  BY <1>1, LifeSame DEF vars, slotVars, workerVars, LoadsIn, ReleasesIn
<1>2. QED
  BY <1>1, CallMaps, LoadMaps, StopMaps, DspMaps DEF Next, Worker

\* The slots go through the lifecycle PatchLifecycle states: whatever threads
\* load and stop patches, one slot at a time is in transition, loads fill the
\* lowest empty slot and a slot fades until the DSP thread lets go of it.
THEOREM Refinement == Spec => ImplementsLifecycle
<1>1. Init /\ [][Next]_vars /\ []IInv => Lifecycle!Init /\ [][Lifecycle!Next]_life
  BY InitMaps, StepMaps, PTL
<1>2. QED
  BY <1>1, Invariance, PTL DEF Spec, ImplementsLifecycle, Lifecycle!Spec

---------------------------------------------------------------------------
(* The deadlock of a menu's load with a stop, and that it is the only one. *)

\* The next step of a call, of the worker or of the DSP thread that a stop
\* waits for can be taken.
CanGoOn ==
  \/ \E t \in Thread :
       \/ pc[t] \in {"scan", "spawn", "unlock"}
       \/ pc[t] = "lock" /\ mtxWorker = NoThread
       \/ pc[t] = "join" /\ wpc = "exit"
  \/ wpc \notin {"none", "exit", "poll"}
  \/ wpc = "poll" /\ (status[wslot] = "STOPPED" \/ pc[Dsp] = "idle")

\* While a call is under way, something moves it on.
OneDeadlock == (\E t \in Thread : pc[t] # "idle") => CanGoOn \/ DspDeadlocked

\* The DSP thread only loads, and the worker that stops a slot works for a
\* thread that stops it.
StopOwner ==
  /\ job[Dsp] = NoSlot /\ pc[Dsp] # "scan"
  /\ ~ MenuLoads => pc[Dsp] = "idle"
  /\ wpc \in StopSteps => \E t \in Thread : pc[t] = "join" /\ job[t] \in Slot

LEMMA StepKeepsStopOwner ==
  ASSUME IInv, StopOwner, [Next]_vars
  PROVE  StopOwner'
<1> USE DEF IInv, TypeOK, GoTo, slotVars, callVars, workerVars
<1>1. ASSUME NEW t \in Thread, Call(t)
      PROVE  StopOwner'
  <2>1. pc[t] = "idle" /\ wpc' = wpc /\ \A u \in Thread : u # t => pc'[u] = pc[u] /\ job'[u] = job[u]
    BY <1>1 DEF Call, Load, Stop, StopAll
  <2>2. /\ pc'[Dsp] = pc[Dsp] \/ (t = Dsp /\ MenuLoads /\ pc'[Dsp] = "lock")
        /\ job'[Dsp] = job[Dsp]
    BY <1>1, <2>1 DEF Call, Load, Stop, StopAll
  <2>3. QED
    BY <2>1, <2>2 DEF StopOwner
<1>2. ASSUME NEW t \in Thread, Lock(t)
      PROVE  StopOwner'
  <2>1. /\ pc[t] = "lock" /\ pc'[t] = "spawn" /\ UNCHANGED <<wpc, job>>
        /\ \A u \in Thread : u # t => pc'[u] = pc[u]
    BY <1>2 DEF Lock
  <2>2. QED
    BY <2>1 DEF StopOwner
<1>3. ASSUME NEW t \in Thread, Scan(t)
      PROVE  StopOwner'
  <2>1. /\ pc[t] = "scan" /\ UNCHANGED wpc
        /\ \A u \in Thread : u # t => pc'[u] = pc[u] /\ job'[u] = job[u]
    BY <1>3 DEF Scan
  <2>2. t # Dsp
    BY <2>1 DEF StopOwner
  <2>3. QED
    BY <2>1, <2>2 DEF StopOwner
<1>4. ASSUME NEW t \in Thread, Spawn(t)
      PROVE  StopOwner'
  <2>1. /\ pc[t] = "spawn" /\ pc'[t] = "join" /\ UNCHANGED job
        /\ \A u \in Thread : u # t => pc'[u] = pc[u]
        /\ wpc' = IF job[t] = NoSlot THEN "resolve" ELSE "request"
    BY <1>4 DEF Spawn
  <2>2. job[t] \in Slot \/ job[t] = NoSlot
    OBVIOUS
  <2>3. wpc' \in StopSteps => job[t] \in Slot
    BY <2>1, <2>2 DEF StopSteps
  <2>4. QED
    BY <2>1, <2>3 DEF StopOwner
<1>5. ASSUME NEW t \in Thread, Join(t)
      PROVE  StopOwner'
  <2>1. /\ pc[t] = "join" /\ pc'[t] = "unlock" /\ UNCHANGED job /\ wpc' = "none"
        /\ \A u \in Thread : u # t => pc'[u] = pc[u]
    BY <1>5 DEF Join
  <2>2. QED
    BY <2>1 DEF StopOwner, StopSteps
<1>6. ASSUME NEW t \in Thread, Unlock(t)
      PROVE  StopOwner'
  <2>1. /\ pc[t] = "unlock" /\ UNCHANGED wpc /\ job'[t] = NoSlot
        /\ pc'[t] = IF job[t] = NoSlot THEN "idle" ELSE "scan"
        /\ \A u \in Thread : u # t => pc'[u] = pc[u] /\ job'[u] = job[u]
    BY <1>6 DEF Unlock
  <2>2. QED
    BY <2>1 DEF StopOwner
<1>7. CASE LoadWorker
  <2>1. UNCHANGED <<pc, job>> /\ wpc' \notin StopSteps
    BY <1>7 DEF LoadWorker, Resolve, AllocPatch, LoadElf, CreateInstance, InitInstance,
                Publish, UiInitPatch, WorkerAt, StopSteps
  <2>2. QED
    BY <2>1 DEF StopOwner
<1>8. CASE StopWorker
  <2>1. UNCHANGED <<pc, job>> /\ wpc \in StopSteps
    BY <1>8 DEF StopWorker, StopRequest, StopPoll, Dispose, Free, Reset, Unload, WorkerAt,
                StopSteps
  <2>2. QED
    BY <2>1 DEF StopOwner
<1>9. CASE DspCycle \/ UNCHANGED vars
  BY <1>9 DEF DspCycle, vars, StopOwner
<1>10. QED
  BY <1>1, <1>2, <1>3, <1>4, <1>5, <1>6, <1>7, <1>8, <1>9 DEF Next, Proceed, Worker

LEMMA StopOwnerHolds == Spec => []StopOwner
<1>1. Init => StopOwner
  BY DEF Init, StopOwner, StopSteps
<1>2. IInv /\ StopOwner /\ [Next]_vars => StopOwner'
  BY StepKeepsStopOwner
<1>3. QED
  BY Invariance, <1>1, <1>2, PTL DEF Spec

\* While a stop polls its slot, the DSP thread runs its cycles or is about to
\* lock mtxWorker in a menu's load.
LEMMA DspInAStop ==
  ASSUME IInv, StopOwner, wpc = "poll"
  PROVE  pc[Dsp] = "idle" \/ (pc[Dsp] = "lock" /\ MenuLoads)
<1>1. PICK t \in Thread : pc[t] = "join" /\ job[t] \in Slot
  BY DEF StopOwner, StopSteps
<1>2. t # Dsp
  BY <1>1 DEF StopOwner
<1>3. mtxWorker = t
  BY <1>1 DEF IInv, SlotInv, OneCall
<1>4. pc[Dsp] \notin {"spawn", "join", "unlock"}
  BY <1>2, <1>3 DEF IInv, SlotInv, OneCall, InCall
<1>5. QED
  BY <1>4 DEF StopOwner, IInv, TypeOK

\* A call under way goes on, or the DSP thread waits for the lock of a stop
\* that waits for the DSP thread: there is no other deadlock among callers,
\* mtxWorker, worker and DSP thread.
THEOREM OnlyOneDeadlock == Spec => []OneDeadlock
<1>1. IInv /\ StopOwner => OneDeadlock
  <2> SUFFICES ASSUME IInv, StopOwner, NEW t \in Thread, pc[t] # "idle"
               PROVE  CanGoOn \/ DspDeadlocked
    BY DEF OneDeadlock
  <2>1. pc[t] \in {"idle", "scan", "lock", "spawn", "join", "unlock"}
    BY DEF IInv, TypeOK
  <2>2. CASE pc[t] \in {"scan", "spawn", "unlock"}
    BY <2>2 DEF CanGoOn
  <2>3. CASE wpc # "none"
    <3>1. CASE wpc = "exit"
      <4>1. PICK u \in Thread : mtxWorker = u
        BY <3>1 DEF IInv, TypeOK, SlotInv, OneCall
      <4>2. pc[u] = "join"
        BY <3>1, <4>1 DEF IInv, SlotInv, OneCall
      <4>3. QED
        BY <3>1, <4>2 DEF CanGoOn
    <3>2. CASE wpc = "poll"
      <4>1. wslot \in Slot /\ status[wslot] \in {"STOPPING", "STOPPED"}
        BY <3>2 DEF IInv, TypeOK, SlotInv, SlotKnown, Stopping
      <4>2. QED
        BY <3>2, <4>1, DspInAStop DEF CanGoOn, DspDeadlocked
    <3>3. CASE wpc \notin {"exit", "poll"}
      BY <2>3, <3>3 DEF CanGoOn
    <3>4. QED
      BY <3>1, <3>2, <3>3
  <2>4. CASE pc[t] = "join"
    BY <2>3, <2>4 DEF IInv, SlotInv, OneCall
  <2>5. CASE pc[t] = "lock" /\ wpc = "none"
    <3>1. CASE mtxWorker = NoThread
      BY <2>5, <3>1 DEF CanGoOn
    <3>2. CASE mtxWorker # NoThread
      <4>1. PICK u \in Thread : mtxWorker = u
        BY <3>2 DEF IInv, TypeOK
      <4>2. InCall(u) /\ pc[u] # "join"
        BY <2>5, <4>1 DEF IInv, SlotInv, OneCall
      <4>3. QED
        BY <4>2 DEF InCall, CanGoOn
    <3>3. QED
      BY <3>1, <3>2
  <2>6. QED
    BY <2>1, <2>2, <2>3, <2>4, <2>5
<1>2. QED
  BY Invariance, StopOwnerHolds, <1>1, PTL

\* As long as no menu entry loads a patch, every call goes on.
THEOREM NoDeadlockWithoutMenuLoads ==
  ~ MenuLoads => (Spec => []((\E t \in Thread : pc[t] # "idle") => CanGoOn))
<1> SUFFICES ASSUME ~ MenuLoads
             PROVE  Spec => []((\E t \in Thread : pc[t] # "idle") => CanGoOn)
  OBVIOUS
<1>1. StopOwner => ~ DspDeadlocked
  BY DEF StopOwner, DspDeadlocked
<1>2. OneDeadlock /\ ~ DspDeadlocked => ((\E t \in Thread : pc[t] # "idle") => CanGoOn)
  BY DEF OneDeadlock
<1>3. QED
  BY OnlyOneDeadlock, StopOwnerHolds, <1>1, <1>2, PTL

\* Once the DSP thread and a stop wait for each other, no thread, no worker
\* and no retry ever gets them apart.
THEOREM DeadlockLasts == Spec => [][DspDeadlocked => DspDeadlocked']_vars
<1>1. IInv /\ [Next]_vars => [DspDeadlocked => DspDeadlocked']_vars
  <2> SUFFICES ASSUME IInv, [Next]_vars, DspDeadlocked PROVE DspDeadlocked'
    OBVIOUS
  <2>1. wpc = "poll" /\ pc[Dsp] = "lock" /\ status[wslot] = "STOPPING"
    BY DEF DspDeadlocked
  <2>2. mtxWorker # NoThread /\ \A t \in Thread : pc[t] \notin {"spawn", "unlock"}
    BY <2>1 DEF IInv, SlotInv, OneCall, InCall
  <2>3. ASSUME NEW t \in Thread, Call(t) \/ Lock(t) \/ Proceed(t)
        PROVE  UNCHANGED <<status, wpc, wslot>> /\ pc'[Dsp] = pc[Dsp]
    <3>1. ~ Lock(t) /\ ~ Spawn(t) /\ ~ Join(t) /\ ~ Unlock(t)
      BY <2>1, <2>2 DEF Lock, Spawn, Join, Unlock, GoTo
    <3>2. pc[t] \in {"idle", "scan"} /\ UNCHANGED <<status, wpc, wslot>>
          /\ \A u \in Thread : u # t => pc'[u] = pc[u]
      BY <2>3, <3>1
         DEF Call, Load, Stop, StopAll, Proceed, Scan, GoTo, slotVars, workerVars, IInv, TypeOK
    <3>3. QED
      BY <2>1, <3>2
  <2>4. ~ LoadWorker /\ ~ StopWorker /\ ~ DspCycle
    <3>1. ~ LoadWorker
      BY <2>1 DEF LoadWorker, Resolve, AllocPatch, LoadElf, CreateInstance, InitInstance,
                  Publish, UiInitPatch, WorkerAt
    <3>2. ~ StopWorker
      BY <2>1 DEF StopWorker, StopRequest, StopPoll, Dispose, Free, Reset, Unload, WorkerAt
    <3>3. ~ DspCycle
      BY <2>1 DEF DspCycle
    <3>4. QED
      BY <3>1, <3>2, <3>3
  <2>5. UNCHANGED <<status, wpc, wslot>> /\ pc'[Dsp] = pc[Dsp]
    BY <2>3, <2>4 DEF Next, Worker, vars, slotVars, callVars, workerVars
  <2>6. QED
    BY <2>5 DEF DspDeadlocked
<1>2. QED
  BY Invariance, <1>1, PTL DEF Spec

===========================================================================
