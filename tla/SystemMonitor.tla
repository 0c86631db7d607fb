--------------------------- MODULE SystemMonitor ---------------------------
(***************************************************************************)
(* Booting the board, and the thread that watches the card switch:         *)
(* firmware/main.c, sysmon.c, sdcard.c and the calls of patch.c they make. *)
(* main mounts the card, starts the monitor, later the DSP thread, and     *)
(* then loads a first patch.  The monitor counts the samples of the switch *)
(* and mounts, unmounts, starts and stops.  The menu that lists patches    *)
(* (the thread ui2) mounts the card too.  A board that crashed keeps an    *)
(* exception dump over the reset; an error reported at run time is marked  *)
(* as a dump as well, without a reset.                                     *)
(*                                                                         *)
(* All three threads have one priority and CH_CFG_TIME_QUANTUM is 0: they  *)
(* switch where they block, and no step of the model has a blocking call   *)
(* in its middle.  A patch call is reduced to the lock, the static worker  *)
(* thread and the status of the slots; PatchManager has the rest.          *)
(***************************************************************************)
EXTENDS Integers, FiniteSets

CONSTANT NSlots                            \* n_patch_slots

ASSUME NSlotsAssumption == NSlots \in Nat \ {0}

Slot == 0 .. NSlots - 1
NoSlot == NSlots                           \* no patch: the calls return 0
Start == NSlots + 1                        \* the job of loading /start.elf
Flash == NSlots + 2                        \* the job of loading from flash
Caller == {"main", "sysmon"}               \* threads that call patch.c
Mounter == Caller \cup {"ui2"}             \* threads that mount the card

VARIABLES
  card,       \* is a card in the slot?  The switch reads nothing else
  connected,  \* the SD driver is connected
  fs_ready,   \* fs_ready
  hpc,        \* where each thread is in InsertHandler, "out" if it is not
  retries,    \* retries of sdcard_init
  pc,         \* where main and the monitor are
  sdtmr,      \* the monitor's counter
  job,        \* what a patch call loads, or the slot it stops
  slot,       \* the slot a load works on, NoSlot if it failed
  mtxWorker,  \* the owner of mtxWorker, "none" if there is none
  status,     \* patchStatus of the slots
  dsp,        \* has start_dsp_thread run?
  listing,    \* is ui2 in init of the menu that lists patches?
  dump,       \* is the exception dump marked valid?
  kept,       \* history: the dump has been there since the reset
  touched,    \* history: the switch moved after the monitor's first look
  early,      \* history: a patch call began before start_dsp_thread
  overlap,    \* history: two threads were inside InsertHandler at once
  sight       \* history: what the monitor saw since the card was mounted

cardVars  == <<card, touched>>
mountVars == <<connected, fs_ready, hpc, overlap, retries>>
dumpVars  == <<dump, kept>>
callVars  == <<job, slot, mtxWorker, status, early>>
seenVars  == <<sdtmr, sight>>
vars == <<cardVars, mountVars, listing, pc, callVars, dsp, dumpVars, seenVars>>

CallSteps == {"lock", "mount", "load", "publish", "stop", "poll", "unlock"}
MainSteps == {"init", "peripherals", "remount", "dsp", "check", "flash", "idle"}
MonitorSteps == {"off", "look", "sample", "mounted", "scan", "unmount"}
WorkSteps == CallSteps \ {"lock", "unlock"}

TypeOK ==
  /\ card \in BOOLEAN /\ connected \in BOOLEAN /\ fs_ready \in BOOLEAN
  /\ dsp \in BOOLEAN /\ listing \in BOOLEAN /\ dump \in BOOLEAN /\ kept \in BOOLEAN
  /\ touched \in BOOLEAN /\ early \in BOOLEAN /\ overlap \in BOOLEAN
  /\ hpc \in [Mounter -> {"out", "connect", "mount"}]
  /\ retries \in 0 .. 3
  /\ pc \in [Caller -> CallSteps \cup MainSteps \cup MonitorSteps]
  /\ sdtmr \in {-5} \cup -2 .. 5
  /\ job \in [Caller -> 0 .. Flash]
  /\ slot \in [Caller -> 0 .. NSlots]
  /\ mtxWorker \in Caller \cup {"none"}
  /\ status \in [Slot -> {"RUNNING", "STOPPED", "STOPPING"}]
  /\ sight \in {"unseen", "seen", "missed", "gone"}

\* Static data is zero, and RUNNING is 0.  main is in sdcard_init.
AllOut     == [t \in Mounter |-> IF t = "main" THEN "connect" ELSE "out"]
AtReset    == [main |-> "init", sysmon |-> "off"]
NoJob      == [t \in Caller |-> NoSlot]
AllRunning == [s \in Slot |-> "RUNNING"]

Init ==
  /\ card \in BOOLEAN /\ dump \in BOOLEAN /\ kept = dump /\ listing = FALSE
  /\ connected = FALSE /\ fs_ready = FALSE /\ retries = 3 /\ hpc = AllOut
  /\ pc = AtReset /\ sdtmr = 0 /\ sight = "unseen"
  /\ job = NoJob /\ slot = NoJob /\ mtxWorker = "none" /\ status = AllRunning
  /\ dsp = FALSE /\ touched = FALSE /\ early = FALSE /\ overlap = FALSE

---------------------------------------------------------------------------
(* The card.  A contact that bounces is a card that goes and comes back.   *)

MoveSwitch(in) ==
  /\ card # in
  /\ card' = in
  /\ touched' = (touched \/ pc["sysmon"] \notin {"off", "look"})
  /\ UNCHANGED <<mountVars, pc, callVars, dsp, listing, dumpVars, seenVars>>

---------------------------------------------------------------------------
(* sdcard.c                                                                *)

EnterHandler(t) ==
  /\ hpc' = [hpc EXCEPT ![t] = "connect"]
  /\ overlap' = (overlap \/ \E u \in Mounter \ {t} : hpc[u] # "out")

InsertHandler(t) ==
  /\ EnterHandler(t)
  /\ fs_ready' = FALSE
  /\ connected' = (connected /\ ~ fs_ready)

\* Faulty: a mounted card is mounted once more.
AttemptMountAlways(t) == EnterHandler(t) /\ UNCHANGED <<connected, fs_ready>>

AttemptMount(t) ==
  IF fs_ready
  THEN UNCHANGED <<hpc, overlap, connected, fs_ready>>
  ELSE EnterHandler(t) /\ UNCHANGED <<connected, fs_ready>>

Leaves(t) == hpc' = [hpc EXCEPT ![t] = "out"]

\* sdcConnect
Connect(t) ==
  /\ hpc[t] = "connect"
  /\ \/ card /\ connected' = TRUE /\ hpc' = [hpc EXCEPT ![t] = "mount"]
     \/ connected' = FALSE /\ Leaves(t)
  /\ UNCHANGED <<fs_ready, overlap, retries, cardVars, pc, callVars, dsp, listing,
                 dumpVars, seenVars>>

\* f_mount
Mount(t) ==
  /\ hpc[t] = "mount"
  /\ Leaves(t)
  /\ \/ /\ card /\ connected
        /\ fs_ready' = TRUE /\ sight' = "unseen"
        /\ UNCHANGED connected
     \/ /\ connected' = FALSE
        /\ UNCHANGED <<fs_ready, sight>>
  /\ UNCHANGED <<overlap, retries, cardVars, pc, callVars, dsp, listing, dumpVars, sdtmr>>

\* The board's threads run.
Booted == pc["main"] \notin {"init", "peripherals"}

\* init of loadpatch_menu.c, when its node is entered.
ListPatches ==
  /\ Booted /\ ~ listing /\ hpc["ui2"] = "out"
  /\ listing' = TRUE
  /\ AttemptMount("ui2")
  /\ UNCHANGED <<retries, cardVars, pc, callVars, dsp, dumpVars, seenVars>>

\* The rest of it: a root directory that does not open is an exception.
OpenRoot ==
  /\ listing /\ hpc["ui2"] = "out"
  /\ listing' = FALSE
  /\ UNCHANGED dump \/ (fs_ready /\ dump' = TRUE)
  /\ UNCHANGED <<cardVars, mountVars, pc, callVars, dsp, kept, seenVars>>

---------------------------------------------------------------------------
(* Steps of main and the monitor.                                          *)

At(t, at) == pc[t] = at /\ hpc[t] = "out"
GoTo(t, to) == pc' = [pc EXCEPT ![t] = to]
Calls(t, j) == GoTo(t, "lock") /\ job' = [job EXCEPT ![t] = j]

\* Where a call returns to.
Returns(t) ==
  IF t = "main"
  THEN IF job[t] = Start /\ slot[t] = NoSlot THEN "flash" ELSE "idle"
  ELSE IF job[t] = Start THEN "sample" ELSE "scan"

BeginCall == early' = (early \/ ~ dsp)

\* Faulty: nothing serialises the callers.
LockWithoutMutex(t) ==
  /\ At(t, "lock")
  /\ mtxWorker' = t
  /\ GoTo(t, IF job[t] \in Slot THEN "stop" ELSE "mount")
  /\ BeginCall
  /\ UNCHANGED <<cardVars, mountVars, job, slot, status, dsp, listing, dumpVars, seenVars>>

\* chMtxLock, then chThdCreateStatic in waThreadWorker.
Lock(t) ==
  /\ At(t, "lock") /\ mtxWorker = "none"
  /\ mtxWorker' = t
  /\ GoTo(t, IF job[t] \in Slot THEN "stop" ELSE "mount")
  /\ BeginCall
  /\ UNCHANGED <<cardVars, mountVars, job, slot, status, dsp, listing, dumpVars, seenVars>>

\* threadLoadPatch mounts the card, whatever the patch comes from.
WorkerMount(t) ==
  /\ At(t, "mount") /\ GoTo(t, "load") /\ AttemptMount(t)
  /\ UNCHANGED <<retries, cardVars, callVars, dsp, listing, dumpVars, seenVars>>

\* allocPatch, load_elf and the second mount.
LoadElf(t) ==
  /\ At(t, "load")
  /\ \/ \E s \in Slot :
          /\ status[s] = "STOPPED" /\ \A u \in Slot : u < s => status[u] # "STOPPED"
          /\ job[t] = Flash \/ (fs_ready /\ card)
          /\ GoTo(t, "publish") /\ slot' = [slot EXCEPT ![t] = s]
          /\ AttemptMount(t)
     \/ /\ GoTo(t, "unlock") /\ slot' = [slot EXCEPT ![t] = NoSlot]
        /\ UNCHANGED <<connected, fs_ready, hpc, overlap>>
  /\ UNCHANGED <<retries, cardVars, job, mtxWorker, status, early, dsp, listing,
                 dumpVars, seenVars>>

\* The instance starts, or its start fails.
Publish(t) ==
  /\ At(t, "publish") /\ GoTo(t, "unlock")
  /\ \/ status' = [status EXCEPT ![slot[t]] = "RUNNING"] /\ UNCHANGED slot
     \/ slot' = [slot EXCEPT ![t] = NoSlot] /\ UNCHANGED status
  /\ UNCHANGED <<cardVars, mountVars, job, mtxWorker, early, dsp, listing, dumpVars, seenVars>>

\* threadStopPatch
StopRequest(t) ==
  /\ At(t, "stop")
  /\ \/ /\ status[job[t]] = "RUNNING"
        /\ status' = [status EXCEPT ![job[t]] = "STOPPING"]
        /\ GoTo(t, "poll")
     \/ status[job[t]] # "RUNNING" /\ GoTo(t, "unlock") /\ UNCHANGED status
  /\ UNCHANGED <<cardVars, mountVars, job, slot, mtxWorker, early, dsp, listing,
                 dumpVars, seenVars>>

StopPoll(t) ==
  /\ At(t, "poll") /\ status[job[t]] = "STOPPED" /\ GoTo(t, "unlock")
  /\ UNCHANGED <<cardVars, mountVars, callVars, dsp, listing, dumpVars, seenVars>>

Unlock(t) ==
  /\ At(t, "unlock") /\ GoTo(t, Returns(t))
  /\ mtxWorker' = "none"
  /\ job' = [job EXCEPT ![t] = IF @ \in Slot THEN @ + 1 ELSE NoSlot]
  /\ slot' = [slot EXCEPT ![t] = NoSlot]
  /\ UNCHANGED <<cardVars, mountVars, status, early, dsp, listing, dumpVars, seenVars>>

\* ThreadDSP, as far as the status of a slot goes.
DspCycle ==
  /\ dsp
  /\ status' = [s \in Slot |-> IF status[s] = "STOPPING" THEN "STOPPED" ELSE status[s]]
  /\ UNCHANGED <<cardVars, mountVars, pc, job, slot, mtxWorker, early, dsp, listing,
                 dumpVars, seenVars>>

---------------------------------------------------------------------------
(* main.c                                                                  *)

\* f_getfree after the first InsertHandler, then up to three retries.
GetFree ==
  /\ At("main", "init")
  /\ \/ fs_ready /\ card /\ connected /\ GoTo("main", "peripherals") /\ retries' = 0
        /\ UNCHANGED <<hpc, overlap, connected, fs_ready>>
     \/ retries > 0 /\ retries' = retries - 1 /\ InsertHandler("main")
        /\ UNCHANGED pc
     \/ retries = 0 /\ GoTo("main", "peripherals")
        /\ UNCHANGED <<hpc, overlap, connected, fs_ready, retries>>
  /\ UNCHANGED <<cardVars, callVars, dsp, listing, dumpVars, seenVars>>

\* sysmon_init to MY_USBH_Init: the monitor, the host connection and ui2 start.
Peripherals ==
  /\ At("main", "peripherals")
  /\ pc' = [main |-> "remount", sysmon |-> "look"]
  /\ UNCHANGED <<cardVars, mountVars, callVars, dsp, listing, dumpVars, seenVars>>

Remount ==
  /\ At("main", "remount") /\ GoTo("main", "dsp")
  /\ AttemptMount("main")
  /\ UNCHANGED <<retries, cardVars, callVars, dsp, listing, dumpVars, seenVars>>

\* start_dsp_thread initialises the mutex and the slots, whoever uses them.
StartDsp ==
  /\ At("main", "dsp") /\ GoTo("main", "check")
  /\ dsp' = TRUE
  /\ mtxWorker' = "none"
  /\ status' = [s \in Slot |-> "STOPPED"]
  /\ UNCHANGED <<cardVars, mountVars, job, slot, early, listing, dumpVars, seenVars>>

\* Faulty: boots a patch whatever happened before.
CheckNothing ==
  /\ At("main", "check")
  /\ \/ fs_ready /\ Calls("main", Start)
     \/ ~ fs_ready /\ GoTo("main", "flash") /\ UNCHANGED job
     \/ GoTo("main", "idle") /\ UNCHANGED job
  /\ UNCHANGED <<cardVars, mountVars, slot, mtxWorker, status, early, dsp, listing,
                 dumpVars, seenVars>>

\* exception_check and button S2, then patch_loadStartSD.
Check ==
  /\ At("main", "check")
  /\ \/ ~ dump /\ fs_ready /\ Calls("main", Start)
     \/ ~ dump /\ ~ fs_ready /\ GoTo("main", "flash") /\ UNCHANGED job
     \/ GoTo("main", "idle") /\ UNCHANGED job       \* a dump, or S2 is pressed
  /\ UNCHANGED <<cardVars, mountVars, slot, mtxWorker, status, early, dsp, listing,
                 dumpVars, seenVars>>

LoadFlash ==
  /\ At("main", "flash") /\ Calls("main", Flash)
  /\ UNCHANGED <<cardVars, mountVars, slot, mtxWorker, status, early, dsp, listing,
                 dumpVars, seenVars>>

Main == GetFree \/ Peripherals \/ Remount \/ StartDsp \/ Check \/ LoadFlash

---------------------------------------------------------------------------
(* sysmon.c                                                                *)

\* Faulty: the counter starts in the middle, as for a card just put in.
LookAfresh ==
  /\ At("sysmon", "look") /\ GoTo("sysmon", "sample")
  /\ sdtmr' = 0
  /\ sight' = IF card /\ fs_ready THEN "seen" ELSE sight
  /\ UNCHANGED <<cardVars, mountVars, callVars, dsp, listing, dumpVars>>

Look ==
  /\ At("sysmon", "look") /\ GoTo("sysmon", "sample")
  /\ sdtmr' = IF card THEN 5 ELSE -5
  /\ sight' = IF card /\ fs_ready THEN "seen" ELSE sight
  /\ UNCHANGED <<cardVars, mountVars, callVars, dsp, listing, dumpVars>>

\* Faulty: the counter is not kept below six.
CountOn(n, in) ==
  IF in THEN IF n + 1 < 0 THEN 0 ELSE n + 1
  ELSE IF n - 1 > 0 THEN 0 ELSE IF n - 1 < -2 THEN -2 ELSE n - 1

\* Faulty: a present counter is counted down step by step.
CountSlowly(n, in) ==
  IF in THEN IF n + 1 < 0 THEN 0 ELSE IF n + 1 > 5 THEN 5 ELSE n + 1
  ELSE IF n - 1 < -2 THEN -2 ELSE n - 1

Count(n, in) ==
  IF in THEN IF n + 1 < 0 THEN 0 ELSE IF n + 1 > 5 THEN 5 ELSE n + 1
  ELSE IF n - 1 > 0 THEN 0 ELSE IF n - 1 < -2 THEN -2 ELSE n - 1

\* What a sample adds to what the monitor saw of a mounted card.
See(in) ==
  IF in THEN IF fs_ready THEN "seen" ELSE sight
  ELSE CASE sight = "unseen" -> "unseen"
         [] sight = "seen" -> "missed"
         [] sight \in {"missed", "gone"} -> "gone"

Sample ==
  /\ At("sysmon", "sample")
  /\ sdtmr' = Count(sdtmr, card)
  /\ sight' = See(card)
  /\ IF card
     THEN IF sdtmr' = 4
          THEN GoTo("sysmon", "mounted") /\ AttemptMount("sysmon") /\ UNCHANGED job
          ELSE UNCHANGED <<pc, job, connected, fs_ready, hpc, overlap>>
     ELSE /\ IF sdtmr' = -1
             THEN GoTo("sysmon", "scan") /\ job' = [job EXCEPT !["sysmon"] = 0]
             ELSE UNCHANGED <<pc, job>>
          /\ UNCHANGED <<connected, fs_ready, hpc, overlap>>
  /\ UNCHANGED <<cardVars, retries, slot, mtxWorker, status, early, dsp, listing, dumpVars>>

\* patch_loadStartSD, or the overload pattern of the LEDs.
Mounted ==
  /\ At("sysmon", "mounted")
  /\ IF fs_ready THEN Calls("sysmon", Start)
     ELSE GoTo("sysmon", "sample") /\ UNCHANGED job
  /\ UNCHANGED <<cardVars, mountVars, slot, mtxWorker, status, early, dsp, listing,
                 dumpVars, seenVars>>

\* The loop of patch_stop(0).
Scan ==
  /\ At("sysmon", "scan")
  /\ IF job["sysmon"] = NoSlot THEN GoTo("sysmon", "unmount") /\ UNCHANGED job
     ELSE IF status[job["sysmon"]] = "RUNNING"
          THEN GoTo("sysmon", "lock") /\ UNCHANGED job
          ELSE UNCHANGED pc /\ job' = [job EXCEPT !["sysmon"] = @ + 1]
  /\ UNCHANGED <<cardVars, mountVars, slot, mtxWorker, status, early, dsp, listing,
                 dumpVars, seenVars>>

\* Faulty: disconnects and leaves fs_ready.
UnmountHalf ==
  /\ At("sysmon", "unmount") /\ GoTo("sysmon", "sample")
  /\ connected' = FALSE
  /\ UNCHANGED <<fs_ready, hpc, overlap, retries, cardVars, callVars, dsp, listing,
                 dumpVars, seenVars>>

\* RemoveHandler
Unmount ==
  /\ At("sysmon", "unmount") /\ GoTo("sysmon", "sample")
  /\ connected' = FALSE
  /\ fs_ready' = FALSE
  /\ sight' = "unseen"
  /\ UNCHANGED <<hpc, overlap, retries, cardVars, callVars, dsp, listing, dumpVars, sdtmr>>

Monitor == Look \/ Sample \/ Mounted \/ Scan \/ Unmount

---------------------------------------------------------------------------
(* exceptions.c: the dump in the backup memory.                            *)

\* exception_checkandreport, when the host asks.
ReportDump ==
  /\ Booted /\ dump
  /\ dump' = FALSE /\ kept' = FALSE
  /\ UNCHANGED <<cardVars, mountVars, listing, pc, callVars, dsp, seenVars>>

\* A full MIDI buffer, the patch bank, a map that cannot be stored, a patch:
\* reported as an exception, by any other thread, and no reset follows.
ReportError ==
  /\ Booted
  /\ dump' = TRUE
  /\ UNCHANGED <<cardVars, mountVars, listing, pc, callVars, dsp, kept, seenVars>>

Restart(d) ==
  /\ dump' = d /\ kept' = d /\ listing' = FALSE /\ UNCHANGED card
  /\ connected' = FALSE /\ fs_ready' = FALSE /\ retries' = 3 /\ hpc' = AllOut
  /\ pc' = AtReset /\ sdtmr' = 0 /\ sight' = "unseen"
  /\ job' = NoJob /\ slot' = NoJob /\ mtxWorker' = "none" /\ status' = AllRunning
  /\ dsp' = FALSE /\ touched' = FALSE /\ early' = FALSE /\ overlap' = FALSE

\* A fault, a halt, the watchdog or a brown-out, or a plain reset of a board
\* whose dump is unread: reset with a dump.
Crash == Restart(TRUE)

\* Without power the backup memory is lost; or a plain reset, and no dump.
PowerOn == Restart(FALSE)

---------------------------------------------------------------------------

Proceed(t) ==
  WorkerMount(t) \/ LoadElf(t) \/ Publish(t) \/ StopRequest(t) \/ StopPoll(t) \/ Unlock(t)

Handler(t) == Connect(t) \/ Mount(t)

Outside ==
  \/ \E in \in BOOLEAN : MoveSwitch(in)
  \/ ReportDump \/ ReportError \/ Crash \/ PowerOn

Next ==
  \/ Main \/ Monitor \/ ListPatches \/ OpenRoot \/ DspCycle \/ Outside
  \/ \E t \in Caller : Lock(t) \/ Proceed(t)
  \/ \E t \in Mounter : Handler(t)

Spec == Init /\ [][Next]_vars

(***************************************************************************)
(* Each thread runs when it is ready, and chMtxUnlock hands the mutex to   *)
(* the first waiter.  Nobody is obliged to touch the card or to crash.     *)
(***************************************************************************)
Fairness ==
  /\ WF_vars(Main) /\ WF_vars(Monitor) /\ WF_vars(DspCycle)
  /\ \A t \in Caller : WF_vars(Proceed(t)) /\ SF_vars(Lock(t))
  /\ \A t \in Mounter : WF_vars(Handler(t))

FairSpec == Spec /\ Fairness

---------------------------------------------------------------------------
(* Properties.                                                             *)

\* As long as the switch does not move, the monitor leaves the card and the
\* patches to main: a board booted with its card in does not load /start.elf
\* twice, and no patch call is made before start_dsp_thread.
UntouchedIsQuiet ==
  ~ touched => pc["sysmon"] \in {"off", "look", "sample"} /\ ~ early

\* Nobody uses waThreadWorker while another thread's worker runs in it --
\* unless a call made before start_dsp_thread lost the mutex under its feet.
OneWorker ==
  ~ early => \A t, u \in Caller : pc[t] \in WorkSteps /\ pc[u] \in WorkSteps => t = u

\* fs_ready promises a connected card: whatever mount fails, whoever unmounts.
\* (Two threads in InsertHandler at once can break it.)
ReadyIsConnected == fs_ready /\ ~ overlap => connected

\* A mount the monitor has seen does not survive two samples without a card
\* in a row, or the patches it stops then: a card exchanged more slowly than
\* that is read anew.
AbsenceDropsMount == pc["sysmon"] = "sample" /\ fs_ready => sight # "gone"

\* A board that comes up with a dump starts no patch of its own until the dump
\* is reported or its card is moved, whatever else is reported meanwhile: a
\* patch that crashes it as it starts does not crash it again and again.
SilentAfterCrash ==
  kept /\ ~ touched => pc["main"] # "flash" /\ \A t \in Caller : pc[t] \notin CallSteps

\* A card that is gone for good is given up, if the monitor had seen it in.
\* (A stop that began before start_dsp_thread may wait for ever: its slot was
\* declared STOPPED and loaded again while the worker slept.)
CardOutIsNoticed ==
  fs_ready /\ ~ card /\ sight # "unseen" ~> ~ fs_ready \/ card \/ early

===========================================================================
