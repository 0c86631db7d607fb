--------------------------- MODULE PatchManager ---------------------------
(***************************************************************************)
(* The patch manager of firmware/patch.c: n_patch_slots slots, the DSP     *)
(* thread that plays the RUNNING ones, and the threads that load and stop  *)
(* patches.  Each load or stop runs in a short-lived worker thread whose   *)
(* stack, waThreadWorker, is static; mtxWorker serialises its users.       *)
(*                                                                         *)
(* ThreadDSP (HIGHPRIO-2) runs above every other thread of the model       *)
(* (NORMALPRIO), so one compute cycle is one step.  The others, the worker *)
(* included, switch only where they block; the model lets them switch      *)
(* between any two steps, so that no property depends on which calls of    *)
(* the libraries block.                                                    *)
(*                                                                         *)
(* Left out: the audio data, the error string, the names of patches, the   *)
(* patch list sent to the host and patch_callback (every caller in src/    *)
(* passes 0).  Init is the state start_dsp_thread leaves behind.           *)
(***************************************************************************)
EXTENDS Integers, FiniteSets

CONSTANTS
  NSlots,      \* n_patch_slots
  Callers,     \* the NORMALPRIO threads that load and stop patches
  Dsp,         \* the DSP thread, which also runs the menu's event handlers
  NoThread,    \* mtxWorker has no owner
  MaxImages,   \* how many patch images the executable heap (sram1) can hold
  MenuLoads,   \* may a menu entry, i.e. the DSP thread, load a patch?
  BadPatches   \* may an image load and then fail to start?

ASSUME PatchAssumption ==
  /\ NSlots \in Nat \ {0}
  /\ Dsp \notin Callers
  /\ NoThread \notin Callers \cup {Dsp}
  /\ MaxImages \in Nat
  /\ MenuLoads \in BOOLEAN
  /\ BadPatches \in BOOLEAN

Slot == 0 .. NSlots - 1
NoSlot == NSlots                   \* where a slot is not (yet) known
Thread == Callers \cup {Dsp}

VARIABLES
  status,    \* patch->patchStatus; STARTFAILED is never assigned
  obj,       \* what patch->patchobject points to
  elf,       \* what patch->elf points to
  images,    \* images allocated in the executable heap
  mtxWorker, \* the owner of mtxWorker
  pc,        \* where each thread is in patch_load or patch_stop
  job,       \* the slot a thread is stopping, NoSlot when it is loading
  scan,      \* the next slot patch_stop(0) looks at, NoSlot outside that loop
  wpc,       \* where the worker thread is, "none" if there is none
  wslot      \* the slot the worker works on

slotVars   == <<status, obj, elf, images>>
callVars   == <<mtxWorker, pc, job, scan>>
workerVars == <<wpc, wslot>>
vars       == <<slotVars, callVars, workerVars>>

LoadSteps == {"resolve", "alloc", "elf", "instance", "init", "publish", "ui"}
StopSteps == {"request", "poll", "dispose", "free", "reset", "unload"}

TypeOK ==
  /\ status \in [Slot -> {"RUNNING", "STOPPED", "STOPPING"}]
  /\ obj \in [Slot -> {"null", "raw", "live", "disposed", "dangling"}]
  /\ elf \in [Slot -> {"null", "image"}]
  /\ images \in 0 .. MaxImages
  /\ mtxWorker \in Thread \cup {NoThread}
  /\ pc \in [Thread -> {"idle", "scan", "lock", "spawn", "join", "unlock"}]
  /\ job \in [Thread -> 0 .. NSlots]
  /\ scan \in [Thread -> 0 .. NSlots]
  /\ wpc \in {"none", "exit"} \cup LoadSteps \cup StopSteps
  /\ wslot \in 0 .. NSlots

Init ==
  /\ status = [s \in Slot |-> "STOPPED"]
  /\ obj = [s \in Slot |-> "null"]
  /\ elf = [s \in Slot |-> "null"]
  /\ images = 0
  /\ mtxWorker = NoThread
  /\ pc = [t \in Thread |-> "idle"]
  /\ job = [t \in Thread |-> NoSlot]
  /\ scan = [t \in Thread |-> NoSlot]
  /\ wpc = "none"
  /\ wslot = NoSlot

---------------------------------------------------------------------------
(* The threads that call patch_load and patch_stop.                        *)

GoTo(t, from, to) ==
  /\ pc[t] = from
  /\ pc' = [pc EXCEPT ![t] = to]

\* patch_load, patch_loadIndex and patch_loadStartSD up to the lock; in the
\* DSP thread only from a menu's event handler.
Load(t) ==
  /\ t = Dsp => MenuLoads
  /\ GoTo(t, "idle", "lock")
  /\ UNCHANGED <<mtxWorker, job, scan, slotVars, workerVars>>

\* patch_stop(patch) up to the lock: no check of the slot's status.
Stop(t, s) ==
  /\ t # Dsp
  /\ GoTo(t, "idle", "lock")
  /\ job' = [job EXCEPT ![t] = s]
  /\ UNCHANGED <<mtxWorker, scan, slotVars, workerVars>>

\* patch_stop(0) enters its loop over the slots.
StopAll(t) ==
  /\ t # Dsp
  /\ GoTo(t, "idle", "scan")
  /\ scan' = [scan EXCEPT ![t] = 0]
  /\ UNCHANGED <<mtxWorker, job, slotVars, workerVars>>

\* One turn of that loop.  The status is read without the lock.
Scan(t) ==
  /\ \/ /\ scan[t] = NoSlot
        /\ GoTo(t, "scan", "idle")
        /\ UNCHANGED <<scan, job>>
     \/ /\ scan[t] \in Slot /\ status[scan[t]] = "RUNNING"
        /\ GoTo(t, "scan", "lock")
        /\ scan' = [scan EXCEPT ![t] = @ + 1]
        /\ job' = [job EXCEPT ![t] = scan[t]]
     \/ /\ scan[t] \in Slot /\ status[scan[t]] # "RUNNING"
        /\ GoTo(t, "scan", "scan")
        /\ scan' = [scan EXCEPT ![t] = @ + 1]
        /\ UNCHANGED job
  /\ UNCHANGED <<mtxWorker, slotVars, workerVars>>

\* Faulty: no exclusion between two calls.
LockWithoutMutex(t) ==
  /\ GoTo(t, "lock", "spawn")
  /\ mtxWorker' = t
  /\ UNCHANGED <<job, scan, slotVars, workerVars>>

Lock(t) ==
  /\ mtxWorker = NoThread
  /\ GoTo(t, "lock", "spawn")
  /\ mtxWorker' = t
  /\ UNCHANGED <<job, scan, slotVars, workerVars>>

\* chThdCreateStatic on waThreadWorker.
Spawn(t) ==
  /\ GoTo(t, "spawn", "join")
  /\ wpc' = IF job[t] = NoSlot THEN "resolve" ELSE "request"
  /\ wslot' = job[t]
  /\ UNCHANGED <<mtxWorker, job, scan, slotVars>>

\* chThdWait returns once the worker has exited.
Join(t) ==
  /\ wpc = "exit"
  /\ GoTo(t, "join", "unlock")
  /\ wpc' = "none"
  /\ wslot' = NoSlot
  /\ UNCHANGED <<mtxWorker, job, scan, slotVars>>

\* A stop made by patch_stop(0) goes back to its loop.
Unlock(t) ==
  /\ GoTo(t, "unlock", IF job[t] = NoSlot THEN "idle" ELSE "scan")
  /\ mtxWorker' = NoThread
  /\ job' = [job EXCEPT ![t] = NoSlot]
  /\ UNCHANGED <<scan, slotVars, workerVars>>

---------------------------------------------------------------------------
(* threadLoadPatch                                                         *)

WorkerAt(from, to) == wpc = from /\ wpc' = to

\* The name, or the line of the patch bank that an index stands for.
Resolve ==
  /\ WorkerAt("resolve", "alloc") \/ WorkerAt("resolve", "exit")
  /\ UNCHANGED <<wslot, slotVars, callVars>>

\* allocPatch takes the first slot that is free.
IsFree(s) == status[s] = "STOPPED"

\* Faulty: any free slot will do.
AllocAnyPatch ==
  \/ \E s \in Slot :
       /\ IsFree(s)
       /\ WorkerAt("alloc", "elf")
       /\ wslot' = s
       /\ UNCHANGED <<slotVars, callVars>>
  \/ /\ \A s \in Slot : ~ IsFree(s)
     /\ WorkerAt("alloc", "exit")
     /\ UNCHANGED <<wslot, slotVars, callVars>>

AllocPatch ==
  \/ \E s \in Slot :
       /\ IsFree(s)
       /\ \A u \in Slot : u < s => ~ IsFree(u)
       /\ WorkerAt("alloc", "elf")
       /\ wslot' = s
       /\ UNCHANGED <<slotVars, callVars>>
  \/ /\ \A s \in Slot : ~ IsFree(s)
     /\ WorkerAt("alloc", "exit")
     /\ UNCHANGED <<wslot, slotVars, callVars>>

\* load_elf.  The loader is not under src/: when it fails it may or may not
\* clear patch->elf, which is the only thing the caller then looks at.
LoadElf ==
  /\ wpc = "elf"
  /\ \/ /\ images < MaxImages
        /\ wpc' = "instance"
        /\ elf' = [elf EXCEPT ![wslot] = "image"]
        /\ images' = images + 1
     \/ \E e \in {"null", elf[wslot]} :
          /\ wpc' = IF e = "image" THEN "instance" ELSE "exit"
          /\ elf' = [elf EXCEPT ![wslot] = e]
          /\ UNCHANGED images
  /\ UNCHANGED <<wslot, status, obj, callVars>>

\* From getInstanceSize to the ax_malloc of the instance.
CreateInstance ==
  /\ \/ /\ WorkerAt("instance", "init")
        /\ obj' = [obj EXCEPT ![wslot] = "raw"]
     \/ /\ BadPatches
        /\ WorkerAt("instance", "exit")
        /\ \/ obj' = obj                            \* no getInstanceSize
           \/ obj' = [obj EXCEPT ![wslot] = "null"] \* out of memory
  /\ UNCHANGED <<wslot, status, elf, images, callVars>>

\* Faulty: a failed start is flagged STARTFAILED, the slot's unused status.
InitInstanceFlagged ==
  /\ \/ /\ WorkerAt("init", "publish")
        /\ obj' = [obj EXCEPT ![wslot] = "live"]
        /\ UNCHANGED status
     \/ /\ BadPatches
        /\ WorkerAt("init", "exit")
        /\ obj' = [obj EXCEPT ![wslot] = "dangling"]
        /\ status' = [status EXCEPT ![wslot] = "STARTFAILED"]
  /\ UNCHANGED <<wslot, elf, images, callVars>>

\* Faulty: the instance is freed and then started all the same.
InitInstanceIgnored ==
  /\ WorkerAt("init", "publish")
  /\ \E r \in {"live"} \cup (IF BadPatches THEN {"dangling"} ELSE {}) :
       obj' = [obj EXCEPT ![wslot] = r]
  /\ UNCHANGED <<wslot, status, elf, images, callVars>>

\* Faulty: the instance of a patch that does not start is not freed.
InitInstanceLeaks ==
  /\ \/ /\ WorkerAt("init", "publish")
        /\ obj' = [obj EXCEPT ![wslot] = "live"]
     \/ BadPatches /\ WorkerAt("init", "exit") /\ UNCHANGED obj
  /\ UNCHANGED <<wslot, status, elf, images, callVars>>

\* initInstance; when it is missing or fails the instance is freed, the
\* image and the pointer to the instance stay.
InitInstance ==
  /\ \/ /\ WorkerAt("init", "publish")
        /\ obj' = [obj EXCEPT ![wslot] = "live"]
     \/ /\ BadPatches
        /\ WorkerAt("init", "exit")
        /\ obj' = [obj EXCEPT ![wslot] = "dangling"]
  /\ UNCHANGED <<wslot, status, elf, images, callVars>>

Publish ==
  /\ WorkerAt("publish", "ui")
  /\ status' = [status EXCEPT ![wslot] = "RUNNING"]
  /\ UNCHANGED <<wslot, obj, elf, images, callVars>>

\* ui_init_patch: whatever slot was loaded, the menus get slot 0.
UiInitPatch ==
  /\ WorkerAt("ui", "exit")
  /\ UNCHANGED <<wslot, slotVars, callVars>>

---------------------------------------------------------------------------
(* threadStopPatch                                                         *)

StopRequest ==
  /\ wpc = "request"
  /\ IF status[wslot] = "RUNNING"
     THEN wpc' = "poll" /\ status' = [status EXCEPT ![wslot] = "STOPPING"]
     ELSE wpc' = "exit" /\ UNCHANGED status
  /\ UNCHANGED <<wslot, obj, elf, images, callVars>>

\* Faulty: does not wait for the DSP thread.
StopWithoutPoll ==
  /\ WorkerAt("poll", "dispose")
  /\ UNCHANGED <<wslot, slotVars, callVars>>

\* The loop that sleeps a millisecond between two looks at the status.
StopPoll ==
  /\ WorkerAt("poll", "dispose")
  /\ status[wslot] = "STOPPED"
  /\ UNCHANGED <<wslot, slotVars, callVars>>

Dispose ==
  /\ WorkerAt("dispose", "free")
  /\ obj' = [obj EXCEPT ![wslot] = "disposed"]
  /\ UNCHANGED <<wslot, status, elf, images, callVars>>

Free ==
  /\ WorkerAt("free", "reset")
  /\ obj' = [obj EXCEPT ![wslot] = "dangling"]
  /\ UNCHANGED <<wslot, status, elf, images, callVars>>

\* ui_deinit_patch, of which UserInterface has more, and InitPatch0.
Reset ==
  /\ WorkerAt("reset", "unload")
  /\ status' = [status EXCEPT ![wslot] = "STOPPED"]
  /\ obj' = [obj EXCEPT ![wslot] = "null"]
  /\ UNCHANGED <<wslot, elf, images, callVars>>

\* Faulty: forgets the image instead of unloading it.
UnloadForgotten ==
  /\ WorkerAt("unload", "exit")
  /\ elf' = [elf EXCEPT ![wslot] = "null"]
  /\ status' = [status EXCEPT ![wslot] = "STOPPED"]
  /\ UNCHANGED <<wslot, obj, images, callVars>>

Unload ==
  /\ WorkerAt("unload", "exit")
  /\ elf' = [elf EXCEPT ![wslot] = "null"]
  /\ images' = IF elf[wslot] = "image" THEN images - 1 ELSE images
  /\ status' = [status EXCEPT ![wslot] = "STOPPED"]
  /\ UNCHANGED <<wslot, obj, callVars>>

---------------------------------------------------------------------------
(* One compute cycle of ThreadDSP: RUNNING slots are played, STOPPING      *)
(* ones become STOPPED.  It does not run while a menu handler is inside    *)
(* patch_load.                                                             *)

\* Faulty: the DSP thread skips a STOPPING patch without answering.
RetireNever(st) == st

Retire(st) == IF st = "STOPPING" THEN "STOPPED" ELSE st

DspCycle ==
  /\ pc[Dsp] = "idle"
  /\ status' = [s \in Slot |-> Retire(status[s])]
  /\ UNCHANGED <<obj, elf, images, callVars, workerVars>>

Call(t) == Load(t) \/ StopAll(t) \/ \E s \in Slot : Stop(t, s)

Proceed(t) == Scan(t) \/ Spawn(t) \/ Join(t) \/ Unlock(t)

LoadWorker ==
  Resolve \/ AllocPatch \/ LoadElf \/ CreateInstance \/ InitInstance
    \/ Publish \/ UiInitPatch

StopWorker == StopRequest \/ StopPoll \/ Dispose \/ Free \/ Reset \/ Unload

Worker == LoadWorker \/ StopWorker

Next ==
  \/ \E t \in Thread : Call(t) \/ Lock(t) \/ Proceed(t)
  \/ Worker
  \/ DspCycle

Spec == Init /\ [][Next]_vars

(***************************************************************************)
(* Every thread gets the processor: the DSP thread, above all the others,  *)
(* sleeps after an overrun "keeping cooperative with lower priority        *)
(* threads".  chMtxUnlock hands the mutex to the first waiter, so a        *)
(* waiter that keeps seeing the mutex change hands gets it in the end.     *)
(* Nobody is obliged to make a call.                                       *)
(***************************************************************************)
Fairness ==
  /\ WF_vars(DspCycle)
  /\ WF_vars(Worker)
  /\ \A t \in Thread : WF_vars(Proceed(t)) /\ SF_vars(Lock(t))

FairSpec == Spec /\ Fairness

---------------------------------------------------------------------------
(* Properties.                                                             *)

\* When a thread is about to create a worker in waThreadWorker, no earlier
\* worker still uses that stack, whatever the other callers do.
WorkerStackFree == \A t \in Thread : pc[t] = "spawn" => wpc = "none"

\* What the DSP thread plays in its next cycle is an initialised instance
\* whose code is still loaded: loads publish a patch last, stops withdraw it
\* first, and a failed load never leaves its slot RUNNING.
DspPlaysLive ==
  \A s \in Slot : status[s] = "RUNNING" => obj[s] = "live" /\ elf[s] = "image"

\* Every instance that was allocated and not freed belongs to a patch that
\* plays or to the worker in charge of its slot: no sequence of loads, failed
\* loads and racing stops leaks the instance or overwrites its pointer.
InstanceHasOwner ==
  \A s \in Slot :
    obj[s] \in {"raw", "live", "disposed"} =>
      \/ status[s] = "RUNNING"
      \/ s = wslot /\ wpc \in {"init", "publish", "poll", "dispose", "free"}

\* ui_init_patch asks the patch in slot 0 for its parameters although any
\* slot may have been loaded: slot 0 then holds a live patch.
UiInitFindsPatch == wpc = "ui" => obj[0] = "live"

\* An instance that played is taken down only after the DSP thread itself
\* has moved its slot from STOPPING to STOPPED.
TakenDownAfterLetGo ==
  [][\A s \in Slot : obj[s] = "live" /\ obj'[s] # "live" => status[s] = "STOPPED"]_vars

\* Images in the executable heap that no slot can unload any more.
Lost == images - Cardinality({s \in Slot : elf[s] = "image"})

\* An image is lost in one way only: a patch that did not start kept its
\* image, and the next load of its slot overwrites the handle.  No stop,
\* whatever it races with, loses one.
NoImageLost ==
  [][Lost' > Lost => BadPatches /\ wpc = "elf" /\ elf[wslot] = "image"]_vars

\* Every patch_load and patch_stop returns.
CallsReturn == \A t \in Thread : pc[t] # "idle" ~> pc[t] = "idle"

\* The DSP thread waits for mtxWorker while the worker waits for the DSP
\* thread to let go of a slot.
DspDeadlocked ==
  pc[Dsp] = "lock" /\ wpc = "poll" /\ status[wslot] = "STOPPING"

\* Whatever threads call, loads from a menu included, a call that does not
\* return is stuck behind that one deadlock.
OnlyDspDeadlockBlocks ==
  \A t \in Thread : pc[t] # "idle" ~> pc[t] = "idle" \/ DspDeadlocked

---------------------------------------------------------------------------
(* The slots as PatchLifecycle sees them.                                  *)

life ==
  [s \in Slot |->
     CASE s = wslot /\ wpc \in {"elf", "instance", "init", "publish"} -> "loading"
       [] status[s] = "RUNNING" -> "playing"
       [] status[s] = "STOPPING" -> "fading"
       [] s = wslot /\ status[s] = "STOPPED"
            /\ wpc \in {"poll", "dispose", "free", "reset", "unload"} -> "releasing"
       [] OTHER -> "empty"]

Lifecycle == INSTANCE PatchLifecycle

\* The threads, the lock and the DSP cycle together implement the lifecycle.
ImplementsLifecycle == Lifecycle!Spec

===========================================================================
