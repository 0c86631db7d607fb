------------------------ MODULE SystemMonitorProofs ------------------------
(***************************************************************************)
(* Proofs about SystemMonitor: type correctness and the safety properties  *)
(* of booting and of the card monitor, for every number of patch slots.    *)
(***************************************************************************)
EXTENDS SystemMonitor, TLAPS

Loading == pc["sysmon"] = "mounted"
             \/ (pc["sysmon"] \in CallSteps /\ job["sysmon"] = Start)

\* Who is where, and when the DSP thread runs.
BootOrder ==
  /\ pc["main"] \in CallSteps \cup MainSteps
  /\ pc["sysmon"] \in CallSteps \cup MonitorSteps
  /\ dsp <=> pc["main"] \notin {"init", "peripherals", "remount", "dsp"}
  /\ pc["sysmon"] = "off" <=> pc["main"] \in {"init", "peripherals"}
  /\ pc["main"] \in CallSteps => job["main"] \in {Start, Flash}
  /\ pc["sysmon"] \in CallSteps => job["sysmon"] \in Slot \cup {Start}
  /\ pc["sysmon"] = "scan" => job["sysmon"] \in 0 .. NSlots
  /\ \A t \in Caller : pc[t] \in {"stop", "poll"} => job[t] \in Slot
  /\ \A t \in Caller : pc[t] = "publish" => slot[t] \in Slot

\* Until the switch moves the counter rests at one of its ends.
Rests ==
  ~ touched =>
    /\ ~ early
    /\ pc["sysmon"] \in {"off", "look", "sample"}
    /\ pc["sysmon"] = "sample" =>
         (card /\ sdtmr = 5) \/ (~ card /\ sdtmr \in {-5, -2})

\* A worker runs for the owner of the mutex.
LockHeld ==
  ~ early => \A t \in Caller :
    pc[t] \in WorkSteps \cup {"unlock"} => mtxWorker = t /\ dsp

\* One thread at a time mounts, and only an unmounted card.
MountsAlone ==
  ~ overlap =>
    /\ \A t, u \in Mounter : hpc[t] # "out" /\ hpc[u] # "out" => t = u
    /\ fs_ready => connected /\ \A t \in Mounter : hpc[t] = "out"

\* What the counter tells of what the monitor saw.
Counted ==
  /\ ~ fs_ready => sight = "unseen"
  /\ pc["sysmon"] \in {"off", "look"} => sight = "unseen"
  /\ Loading => sight \in {"unseen", "seen"} /\ sdtmr = 4
  /\ pc["sysmon"] = "sample" =>
       /\ sight # "gone"
       /\ sight = "seen" => sdtmr \in 0 .. 5
       /\ sight = "missed" => sdtmr = 0

\* A dump found at the reset is still there, and main has not decided to load.
NoFirstPatch == kept => dump /\ pc["main"] \notin CallSteps \cup {"flash"}

Inv ==
  /\ TypeOK /\ BootOrder /\ Rests /\ LockHeld
  /\ MountsAlone /\ Counted /\ NoFirstPatch

---------------------------------------------------------------------------
(* One lemma for each action: it keeps every part of the invariant.        *)

USE NSlotsAssumption DEF Slot, NoSlot, Start, Flash, Caller, Mounter

\* Entering InsertHandler, or returning at once because the card is mounted.
LEMMA AttemptMountKeeps ==
  ASSUME NEW t \in Mounter, TypeOK, MountsAlone, AttemptMount(t), hpc[t] = "out"
  PROVE  /\ connected' \in BOOLEAN /\ fs_ready' \in BOOLEAN /\ overlap' \in BOOLEAN
         /\ hpc' \in [Mounter -> {"out", "connect", "mount"}]
         /\ MountsAlone'
<1> USE DEF AttemptMount, EnterHandler
<1>1. overlap' \in BOOLEAN
  BY Zenon DEF TypeOK
<1>2. connected' \in BOOLEAN /\ fs_ready' \in BOOLEAN
  BY Zenon DEF TypeOK
<1>3. hpc' \in [Mounter -> {"out", "connect", "mount"}]
  BY DEF TypeOK
<1>4. MountsAlone'
  <2>1. CASE fs_ready
    BY <2>1 DEF MountsAlone
  <2>2. CASE ~ fs_ready
    <3>1. ~ overlap' => ~ overlap /\ \A u \in Mounter \ {t} : hpc[u] = "out"
      BY <2>2, Zenon
    <3>2. hpc' = [hpc EXCEPT ![t] = "connect"] /\ ~ fs_ready'
      BY <2>2
    <3>3. \A u \in Mounter \ {t} : hpc'[u] = hpc[u]
      BY <3>2 DEF TypeOK
    <3>4. QED
      BY <3>1, <3>2, <3>3 DEF MountsAlone
  <2>3. QED
    BY <2>1, <2>2 DEF TypeOK
<1>5. QED
  BY <1>1, <1>2, <1>3, <1>4

LEMMA MoveSwitchKeeps ==
  ASSUME NEW in \in BOOLEAN, Inv, MoveSwitch(in)
  PROVE  Inv'
<1> USE DEF MoveSwitch, cardVars, mountVars, dumpVars, callVars, seenVars, CallSteps, MainSteps, MonitorSteps, WorkSteps
<1>1. TypeOK'
  BY DEF Inv, TypeOK
<1>2. BootOrder'
  BY DEF Inv, TypeOK, BootOrder
<1>3. Rests'
  BY DEF Inv, TypeOK, Rests, BootOrder
<1>4. LockHeld'
  BY DEF Inv, TypeOK, LockHeld, BootOrder, Rests
<1>5. MountsAlone'
  BY DEF Inv, TypeOK, MountsAlone, BootOrder
<1>6. Counted'
  BY DEF Inv, TypeOK, Counted, Loading, BootOrder
<1>7. NoFirstPatch'
  BY DEF Inv, TypeOK, NoFirstPatch, BootOrder
<1> QED
  BY <1>1, <1>2, <1>3, <1>4, <1>5, <1>6, <1>7 DEF Inv

LEMMA ConnectKeeps ==
  ASSUME NEW t \in Mounter, Inv, Connect(t)
  PROVE  Inv'
<1> USE DEF Connect, Leaves, cardVars, mountVars, dumpVars, callVars, seenVars, CallSteps, MainSteps, MonitorSteps, WorkSteps
<1>1. TypeOK'
  <2>1. connected' \in BOOLEAN /\ fs_ready' \in BOOLEAN /\ overlap' \in BOOLEAN
        /\ hpc' \in [Mounter -> {"out", "connect", "mount"}]
    BY DEF Inv, TypeOK
  <2>2. QED
    BY <2>1 DEF Inv, TypeOK
<1>2. BootOrder'
  BY DEF Inv, TypeOK, BootOrder
<1>3. Rests'
  BY DEF Inv, TypeOK, Rests, BootOrder
<1>4. LockHeld'
  BY DEF Inv, TypeOK, LockHeld, BootOrder, Rests
<1>5. MountsAlone'
  BY DEF Inv, TypeOK, MountsAlone, BootOrder
<1>6. Counted'
  BY DEF Inv, TypeOK, Counted, Loading, BootOrder
<1>7. NoFirstPatch'
  BY DEF Inv, TypeOK, NoFirstPatch, BootOrder
<1> QED
  BY <1>1, <1>2, <1>3, <1>4, <1>5, <1>6, <1>7 DEF Inv

LEMMA MountKeeps ==
  ASSUME NEW t \in Mounter, Inv, Mount(t)
  PROVE  Inv'
<1> USE DEF Mount, Leaves, cardVars, mountVars, dumpVars, callVars, seenVars, CallSteps, MainSteps, MonitorSteps, WorkSteps
<1>1. TypeOK'
  <2>1. connected' \in BOOLEAN /\ fs_ready' \in BOOLEAN /\ overlap' \in BOOLEAN
    BY DEF Inv, TypeOK
  <2>2. hpc' \in [Mounter -> {"out", "connect", "mount"}]
        /\ sight' \in {"unseen", "seen", "missed", "gone"}
    BY DEF Inv, TypeOK
  <2>3. QED
    BY <2>1, <2>2 DEF Inv, TypeOK
<1>2. BootOrder'
  BY DEF Inv, TypeOK, BootOrder
<1>3. Rests'
  BY DEF Inv, TypeOK, Rests, BootOrder
<1>4. LockHeld'
  BY DEF Inv, TypeOK, LockHeld, BootOrder, Rests
<1>5. MountsAlone'
  BY DEF Inv, TypeOK, MountsAlone, BootOrder
<1>6. Counted'
  BY DEF Inv, TypeOK, Counted, Loading, BootOrder
<1>7. NoFirstPatch'
  BY DEF Inv, TypeOK, NoFirstPatch, BootOrder
<1> QED
  BY <1>1, <1>2, <1>3, <1>4, <1>5, <1>6, <1>7 DEF Inv

LEMMA ListPatchesKeeps ==
  ASSUME Inv, ListPatches
  PROVE  Inv'
<1> USE DEF ListPatches, Booted, cardVars, mountVars, dumpVars, callVars, seenVars, CallSteps, MainSteps, MonitorSteps, WorkSteps
<1>0. connected' \in BOOLEAN /\ fs_ready' \in BOOLEAN /\ overlap' \in BOOLEAN
        /\ hpc' \in [Mounter -> {"out", "connect", "mount"}] /\ MountsAlone'
  BY AttemptMountKeeps DEF Inv
<1>1. TypeOK'
  BY <1>0 DEF Inv, TypeOK
<1>2. BootOrder'
  BY <1>0 DEF Inv, TypeOK, BootOrder
<1>3. Rests'
  BY <1>0 DEF Inv, TypeOK, Rests, BootOrder
<1>4. LockHeld'
  BY <1>0 DEF Inv, TypeOK, LockHeld, BootOrder, Rests
<1>5. MountsAlone'
  BY <1>0
<1>6. Counted'
  BY <1>0 DEF Inv, TypeOK, Counted, Loading, BootOrder, AttemptMount, EnterHandler
<1>7. NoFirstPatch'
  BY <1>0 DEF Inv, TypeOK, NoFirstPatch, BootOrder
<1> QED
  BY <1>1, <1>2, <1>3, <1>4, <1>5, <1>6, <1>7 DEF Inv

LEMMA LockKeeps ==
  ASSUME NEW t \in Caller, Inv, Lock(t)
  PROVE  Inv'
<1> USE DEF Lock, At, GoTo, BeginCall, cardVars, mountVars, dumpVars, callVars, seenVars, CallSteps, MainSteps, MonitorSteps, WorkSteps
<1>1. TypeOK'
  BY DEF Inv, TypeOK
<1>2. BootOrder'
  BY DEF Inv, TypeOK, BootOrder
<1>3. Rests'
  BY DEF Inv, TypeOK, Rests, BootOrder
<1>4. LockHeld'
  BY DEF Inv, TypeOK, LockHeld, BootOrder, Rests
<1>5. MountsAlone'
  BY DEF Inv, TypeOK, MountsAlone, BootOrder
<1>6. Counted'
  BY DEF Inv, TypeOK, Counted, Loading, BootOrder
<1>7. NoFirstPatch'
  BY DEF Inv, TypeOK, NoFirstPatch, BootOrder
<1> QED
  BY <1>1, <1>2, <1>3, <1>4, <1>5, <1>6, <1>7 DEF Inv

LEMMA WorkerMountKeeps ==
  ASSUME NEW t \in Caller, Inv, WorkerMount(t)
  PROVE  Inv'
<1> USE DEF WorkerMount, At, GoTo, cardVars, mountVars, dumpVars, callVars, seenVars, CallSteps, MainSteps, MonitorSteps, WorkSteps
<1>0. connected' \in BOOLEAN /\ fs_ready' \in BOOLEAN /\ overlap' \in BOOLEAN
        /\ hpc' \in [Mounter -> {"out", "connect", "mount"}] /\ MountsAlone'
  BY AttemptMountKeeps DEF Inv
<1>1. TypeOK'
  BY <1>0 DEF Inv, TypeOK
<1>2. BootOrder'
  BY <1>0 DEF Inv, TypeOK, BootOrder
<1>3. Rests'
  BY <1>0 DEF Inv, TypeOK, Rests, BootOrder
<1>4. LockHeld'
  BY <1>0 DEF Inv, TypeOK, LockHeld, BootOrder, Rests
<1>5. MountsAlone'
  BY <1>0
<1>6. Counted'
  BY <1>0 DEF Inv, TypeOK, Counted, Loading, BootOrder, AttemptMount, EnterHandler
<1>7. NoFirstPatch'
  BY <1>0 DEF Inv, TypeOK, NoFirstPatch, BootOrder
<1> QED
  BY <1>1, <1>2, <1>3, <1>4, <1>5, <1>6, <1>7 DEF Inv

LEMMA LoadElfKeeps ==
  ASSUME NEW t \in Caller, Inv, LoadElf(t)
  PROVE  Inv'
<1> USE DEF LoadElf, At, GoTo, AttemptMount, EnterHandler, cardVars, mountVars, dumpVars, callVars, seenVars, CallSteps, MainSteps, MonitorSteps, WorkSteps
<1>1. TypeOK'
  <2>1. \/ AttemptMount(t)
        \/ UNCHANGED <<connected, fs_ready, hpc, overlap>>
    BY Zenon
  <2>2. /\ connected' \in BOOLEAN /\ fs_ready' \in BOOLEAN /\ overlap' \in BOOLEAN
        /\ hpc' \in [Mounter -> {"out", "connect", "mount"}]
    BY <2>1, AttemptMountKeeps DEF Inv, TypeOK
  <2>3. pc' \in [Caller -> CallSteps \cup MainSteps \cup MonitorSteps]
        /\ slot' \in [Caller -> 0 .. NSlots]
    BY DEF Inv, TypeOK
  <2>4. QED
    BY <2>2, <2>3 DEF Inv, TypeOK
<1>2. BootOrder'
  BY DEF Inv, TypeOK, BootOrder
<1>3. Rests'
  BY DEF Inv, TypeOK, Rests, BootOrder
<1>4. LockHeld'
  BY DEF Inv, TypeOK, LockHeld, BootOrder, Rests
<1>5. MountsAlone'
  BY DEF Inv, TypeOK, MountsAlone, BootOrder
<1>6. Counted'
  BY DEF Inv, TypeOK, Counted, Loading, BootOrder
<1>7. NoFirstPatch'
  BY DEF Inv, TypeOK, NoFirstPatch, BootOrder
<1> QED
  BY <1>1, <1>2, <1>3, <1>4, <1>5, <1>6, <1>7 DEF Inv

LEMMA PublishKeeps ==
  ASSUME NEW t \in Caller, Inv, Publish(t)
  PROVE  Inv'
<1> USE DEF Publish, At, GoTo, cardVars, mountVars, dumpVars, callVars, seenVars, CallSteps, MainSteps, MonitorSteps, WorkSteps
<1>1. TypeOK'
  BY DEF Inv, TypeOK
<1>2. BootOrder'
  BY DEF Inv, TypeOK, BootOrder
<1>3. Rests'
  BY DEF Inv, TypeOK, Rests, BootOrder
<1>4. LockHeld'
  BY DEF Inv, TypeOK, LockHeld, BootOrder, Rests
<1>5. MountsAlone'
  BY DEF Inv, TypeOK, MountsAlone, BootOrder
<1>6. Counted'
  BY DEF Inv, TypeOK, Counted, Loading, BootOrder
<1>7. NoFirstPatch'
  BY DEF Inv, TypeOK, NoFirstPatch, BootOrder
<1> QED
  BY <1>1, <1>2, <1>3, <1>4, <1>5, <1>6, <1>7 DEF Inv

LEMMA StopRequestKeeps ==
  ASSUME NEW t \in Caller, Inv, StopRequest(t)
  PROVE  Inv'
<1> USE DEF StopRequest, At, GoTo, cardVars, mountVars, dumpVars, callVars, seenVars, CallSteps, MainSteps, MonitorSteps, WorkSteps
<1>1. TypeOK'
  <2>1. /\ UNCHANGED <<card, connected, fs_ready, dsp, listing, dump, kept, touched, early, overlap, hpc, retries,
                       sdtmr, job, slot, mtxWorker, sight>>
        /\ pc' = [pc EXCEPT ![t] = "poll"] \/ pc' = [pc EXCEPT ![t] = "unlock"]
        /\ status' = status \/ status' = [status EXCEPT ![job[t]] = "STOPPING"]
    BY Zenon
  <2>2. pc' \in [Caller -> CallSteps \cup MainSteps \cup MonitorSteps]
    BY <2>1 DEF Inv, TypeOK
  <2>3. status' \in [Slot -> {"RUNNING", "STOPPED", "STOPPING"}]
    BY <2>1 DEF Inv, TypeOK
  <2> HIDE DEF CallSteps, MainSteps, MonitorSteps, Slot, Caller, Mounter, Flash
  <2> QED
    BY <2>1, <2>2, <2>3 DEF Inv, TypeOK
<1>2. BootOrder'
  BY DEF Inv, TypeOK, BootOrder
<1>3. Rests'
  BY DEF Inv, TypeOK, Rests, BootOrder
<1>4. LockHeld'
  BY DEF Inv, TypeOK, LockHeld, BootOrder, Rests
<1>5. MountsAlone'
  BY DEF Inv, TypeOK, MountsAlone, BootOrder
<1>6. Counted'
  BY DEF Inv, TypeOK, Counted, Loading, BootOrder
<1>7. NoFirstPatch'
  BY DEF Inv, TypeOK, NoFirstPatch, BootOrder
<1> QED
  BY <1>1, <1>2, <1>3, <1>4, <1>5, <1>6, <1>7 DEF Inv

LEMMA StopPollKeeps ==
  ASSUME NEW t \in Caller, Inv, StopPoll(t)
  PROVE  Inv'
<1> USE DEF StopPoll, At, GoTo, cardVars, mountVars, dumpVars, callVars, seenVars, CallSteps, MainSteps, MonitorSteps, WorkSteps
<1>1. TypeOK'
  BY DEF Inv, TypeOK
<1>2. BootOrder'
  BY DEF Inv, TypeOK, BootOrder
<1>3. Rests'
  BY DEF Inv, TypeOK, Rests, BootOrder
<1>4. LockHeld'
  BY DEF Inv, TypeOK, LockHeld, BootOrder, Rests
<1>5. MountsAlone'
  BY DEF Inv, TypeOK, MountsAlone, BootOrder
<1>6. Counted'
  BY DEF Inv, TypeOK, Counted, Loading, BootOrder
<1>7. NoFirstPatch'
  BY DEF Inv, TypeOK, NoFirstPatch, BootOrder
<1> QED
  BY <1>1, <1>2, <1>3, <1>4, <1>5, <1>6, <1>7 DEF Inv

LEMMA UnlockKeeps ==
  ASSUME NEW t \in Caller, Inv, Unlock(t)
  PROVE  Inv'
<1> USE DEF Unlock, At, GoTo, Returns, cardVars, mountVars, dumpVars, callVars, seenVars, CallSteps, MainSteps, MonitorSteps, WorkSteps
<1>1. TypeOK'
  BY DEF Inv, TypeOK
<1>2. BootOrder'
  BY DEF Inv, TypeOK, BootOrder
<1>3. Rests'
  BY DEF Inv, TypeOK, Rests, BootOrder
<1>4. LockHeld'
  BY DEF Inv, TypeOK, LockHeld, BootOrder, Rests
<1>5. MountsAlone'
  BY DEF Inv, TypeOK, MountsAlone, BootOrder
<1>6. Counted'
  BY DEF Inv, TypeOK, Counted, Loading, BootOrder
<1>7. NoFirstPatch'
  BY DEF Inv, TypeOK, NoFirstPatch, BootOrder
<1> QED
  BY <1>1, <1>2, <1>3, <1>4, <1>5, <1>6, <1>7 DEF Inv

LEMMA DspCycleKeeps ==
  ASSUME Inv, DspCycle
  PROVE  Inv'
<1> USE DEF DspCycle, cardVars, mountVars, dumpVars, callVars, seenVars, CallSteps, MainSteps, MonitorSteps, WorkSteps
<1>1. TypeOK'
  BY DEF Inv, TypeOK
<1>2. BootOrder'
  BY DEF Inv, TypeOK, BootOrder
<1>3. Rests'
  BY DEF Inv, TypeOK, Rests, BootOrder
<1>4. LockHeld'
  BY DEF Inv, TypeOK, LockHeld, BootOrder, Rests
<1>5. MountsAlone'
  BY DEF Inv, TypeOK, MountsAlone, BootOrder
<1>6. Counted'
  BY DEF Inv, TypeOK, Counted, Loading, BootOrder
<1>7. NoFirstPatch'
  BY DEF Inv, TypeOK, NoFirstPatch, BootOrder
<1> QED
  BY <1>1, <1>2, <1>3, <1>4, <1>5, <1>6, <1>7 DEF Inv

LEMMA GetFreeKeeps ==
  ASSUME Inv, GetFree
  PROVE  Inv'
<1> USE DEF GetFree, At, GoTo, InsertHandler, EnterHandler, cardVars, mountVars, dumpVars, callVars, seenVars, CallSteps, MainSteps, MonitorSteps, WorkSteps
<1>1. TypeOK'
  <2>1. overlap' \in BOOLEAN
    BY Zenon DEF Inv, TypeOK
  <2>2. connected' \in BOOLEAN /\ fs_ready' \in BOOLEAN
    BY Zenon DEF Inv, TypeOK
  <2>3. hpc' \in [Mounter -> {"out", "connect", "mount"}] /\ retries' \in 0 .. 3
    BY DEF Inv, TypeOK
  <2>4. pc' \in [Caller -> CallSteps \cup MainSteps \cup MonitorSteps]
    BY DEF Inv, TypeOK
  <2>5. QED
    BY <2>1, <2>2, <2>3, <2>4 DEF Inv, TypeOK
<1>2. BootOrder'
  BY DEF Inv, TypeOK, BootOrder
<1>3. Rests'
  BY DEF Inv, TypeOK, Rests, BootOrder
<1>4. LockHeld'
  BY DEF Inv, TypeOK, LockHeld, BootOrder, Rests
<1>5. MountsAlone'
  <2>1. CASE InsertHandler("main")
    <3>1. ~ overlap' => ~ overlap /\ \A u \in Mounter \ {"main"} : hpc[u] = "out"
      BY <2>1, Zenon
    <3>2. hpc' = [hpc EXCEPT !["main"] = "connect"] /\ ~ fs_ready'
      BY <2>1
    <3>3. \A u \in Mounter \ {"main"} : hpc'[u] = hpc[u]
      BY <3>2 DEF Inv, TypeOK
    <3>4. QED
      BY <3>1, <3>2, <3>3 DEF MountsAlone
  <2>2. CASE UNCHANGED <<hpc, overlap, connected, fs_ready>>
    BY <2>2 DEF Inv, MountsAlone
  <2>3. QED
    BY <2>1, <2>2
<1>6. Counted'
  BY DEF Inv, TypeOK, Counted, Loading, BootOrder
<1>7. NoFirstPatch'
  BY DEF Inv, TypeOK, NoFirstPatch, BootOrder
<1> QED
  BY <1>1, <1>2, <1>3, <1>4, <1>5, <1>6, <1>7 DEF Inv

LEMMA PeripheralsKeeps ==
  ASSUME Inv, Peripherals
  PROVE  Inv'
<1> USE DEF Peripherals, At, cardVars, mountVars, dumpVars, callVars, seenVars, CallSteps, MainSteps, MonitorSteps, WorkSteps
<1>1. TypeOK'
  BY DEF Inv, TypeOK
<1>2. BootOrder'
  BY DEF Inv, TypeOK, BootOrder
<1>3. Rests'
  BY DEF Inv, TypeOK, Rests, BootOrder
<1>4. LockHeld'
  BY DEF Inv, TypeOK, LockHeld, BootOrder, Rests
<1>5. MountsAlone'
  BY DEF Inv, TypeOK, MountsAlone, BootOrder
<1>6. Counted'
  BY DEF Inv, TypeOK, Counted, Loading, BootOrder
<1>7. NoFirstPatch'
  BY DEF Inv, TypeOK, NoFirstPatch, BootOrder
<1> QED
  BY <1>1, <1>2, <1>3, <1>4, <1>5, <1>6, <1>7 DEF Inv

LEMMA RemountKeeps ==
  ASSUME Inv, Remount
  PROVE  Inv'
<1> USE DEF Remount, At, GoTo, cardVars, mountVars, dumpVars, callVars, seenVars, CallSteps, MainSteps, MonitorSteps, WorkSteps
<1>0. connected' \in BOOLEAN /\ fs_ready' \in BOOLEAN /\ overlap' \in BOOLEAN
        /\ hpc' \in [Mounter -> {"out", "connect", "mount"}] /\ MountsAlone'
  BY AttemptMountKeeps DEF Inv
<1>1. TypeOK'
  BY <1>0 DEF Inv, TypeOK
<1>2. BootOrder'
  BY <1>0 DEF Inv, TypeOK, BootOrder
<1>3. Rests'
  BY <1>0 DEF Inv, TypeOK, Rests, BootOrder
<1>4. LockHeld'
  BY <1>0 DEF Inv, TypeOK, LockHeld, BootOrder, Rests
<1>5. MountsAlone'
  BY <1>0
<1>6. Counted'
  BY <1>0 DEF Inv, TypeOK, Counted, Loading, BootOrder, AttemptMount, EnterHandler
<1>7. NoFirstPatch'
  BY <1>0 DEF Inv, TypeOK, NoFirstPatch, BootOrder
<1> QED
  BY <1>1, <1>2, <1>3, <1>4, <1>5, <1>6, <1>7 DEF Inv

LEMMA StartDspKeeps ==
  ASSUME Inv, StartDsp
  PROVE  Inv'
<1> USE DEF StartDsp, At, GoTo, cardVars, mountVars, dumpVars, callVars, seenVars, CallSteps, MainSteps, MonitorSteps, WorkSteps
<1>1. TypeOK'
  BY DEF Inv, TypeOK
<1>2. BootOrder'
  BY DEF Inv, TypeOK, BootOrder
<1>3. Rests'
  BY DEF Inv, TypeOK, Rests, BootOrder
<1>4. LockHeld'
  BY DEF Inv, TypeOK, LockHeld, BootOrder, Rests
<1>5. MountsAlone'
  BY DEF Inv, TypeOK, MountsAlone, BootOrder
<1>6. Counted'
  BY DEF Inv, TypeOK, Counted, Loading, BootOrder
<1>7. NoFirstPatch'
  BY DEF Inv, TypeOK, NoFirstPatch, BootOrder
<1> QED
  BY <1>1, <1>2, <1>3, <1>4, <1>5, <1>6, <1>7 DEF Inv

LEMMA CheckKeeps ==
  ASSUME Inv, Check
  PROVE  Inv'
<1> USE DEF Check, At, GoTo, Calls, cardVars, mountVars, dumpVars, callVars, seenVars, CallSteps, MainSteps, MonitorSteps, WorkSteps
<1>1. TypeOK'
  BY DEF Inv, TypeOK
<1>2. BootOrder'
  BY DEF Inv, TypeOK, BootOrder
<1>3. Rests'
  BY DEF Inv, TypeOK, Rests, BootOrder
<1>4. LockHeld'
  BY DEF Inv, TypeOK, LockHeld, BootOrder, Rests
<1>5. MountsAlone'
  BY DEF Inv, TypeOK, MountsAlone, BootOrder
<1>6. Counted'
  BY DEF Inv, TypeOK, Counted, Loading, BootOrder
<1>7. NoFirstPatch'
  BY DEF Inv, TypeOK, NoFirstPatch, BootOrder
<1> QED
  BY <1>1, <1>2, <1>3, <1>4, <1>5, <1>6, <1>7 DEF Inv

LEMMA LoadFlashKeeps ==
  ASSUME Inv, LoadFlash
  PROVE  Inv'
<1> USE DEF LoadFlash, At, GoTo, Calls, cardVars, mountVars, dumpVars, callVars, seenVars, CallSteps, MainSteps, MonitorSteps, WorkSteps
<1>1. TypeOK'
  BY DEF Inv, TypeOK
<1>2. BootOrder'
  BY DEF Inv, TypeOK, BootOrder
<1>3. Rests'
  BY DEF Inv, TypeOK, Rests, BootOrder
<1>4. LockHeld'
  BY DEF Inv, TypeOK, LockHeld, BootOrder, Rests
<1>5. MountsAlone'
  BY DEF Inv, TypeOK, MountsAlone, BootOrder
<1>6. Counted'
  BY DEF Inv, TypeOK, Counted, Loading, BootOrder
<1>7. NoFirstPatch'
  BY DEF Inv, TypeOK, NoFirstPatch, BootOrder
<1> QED
  BY <1>1, <1>2, <1>3, <1>4, <1>5, <1>6, <1>7 DEF Inv

LEMMA LookKeeps ==
  ASSUME Inv, Look
  PROVE  Inv'
<1> USE DEF Look, At, GoTo, cardVars, mountVars, dumpVars, callVars, seenVars, CallSteps, MainSteps, MonitorSteps, WorkSteps
<1>1. TypeOK'
  BY DEF Inv, TypeOK
<1>2. BootOrder'
  BY DEF Inv, TypeOK, BootOrder
<1>3. Rests'
  BY DEF Inv, TypeOK, Rests, BootOrder
<1>4. LockHeld'
  BY DEF Inv, TypeOK, LockHeld, BootOrder, Rests
<1>5. MountsAlone'
  BY DEF Inv, TypeOK, MountsAlone, BootOrder
<1>6. Counted'
  BY DEF Inv, TypeOK, Counted, Loading, BootOrder
<1>7. NoFirstPatch'
  BY DEF Inv, TypeOK, NoFirstPatch, BootOrder
<1> QED
  BY <1>1, <1>2, <1>3, <1>4, <1>5, <1>6, <1>7 DEF Inv

LEMMA SampleKeeps ==
  ASSUME Inv, Sample
  PROVE  Inv'
<1> USE DEF Sample, At, GoTo, Count, See, AttemptMount, EnterHandler, cardVars, mountVars, dumpVars, callVars, seenVars, CallSteps, MainSteps, MonitorSteps, WorkSteps
<1>0. /\ UNCHANGED <<card, dsp, listing, dump, kept, touched, early, retries, slot, mtxWorker, status>>
      /\ sdtmr' = Count(sdtmr, card) /\ sight' = See(card)
      /\ pc["sysmon"] = "sample" /\ hpc["sysmon"] = "out"
      /\ \/ pc' = pc \/ pc' = [pc EXCEPT !["sysmon"] = "mounted"]
         \/ pc' = [pc EXCEPT !["sysmon"] = "scan"]
      /\ \/ job' = job /\ (pc' = pc \/ pc' = [pc EXCEPT !["sysmon"] = "mounted"])
         \/ job' = [job EXCEPT !["sysmon"] = 0] /\ pc' = [pc EXCEPT !["sysmon"] = "scan"]
  BY DEF Sample
<1>1. TypeOK'
  <2>1. sdtmr' \in {-5} \cup -2 .. 5
    <3>1. sdtmr \in {-5} \cup -2 .. 5
      BY DEF Inv, TypeOK
    <3> QED
      BY <1>0, <3>1 DEF Count
  <2>2. sight' \in {"unseen", "seen", "missed", "gone"}
    BY <1>0 DEF See, Inv, TypeOK
  <2>3. pc' \in [Caller -> CallSteps \cup MainSteps \cup MonitorSteps]
    BY <1>0 DEF Inv, TypeOK
  <2>4. job' \in [Caller -> 0 .. Flash]
    BY <1>0 DEF Inv, TypeOK
  <2>5. /\ connected' \in BOOLEAN /\ fs_ready' \in BOOLEAN /\ overlap' \in BOOLEAN
        /\ hpc' \in [Mounter -> {"out", "connect", "mount"}]
    <3>1. CASE UNCHANGED <<connected, fs_ready, hpc, overlap>>
      BY <3>1 DEF Inv, TypeOK
    <3>2. CASE AttemptMount("sysmon")
      BY <1>0, <3>2, AttemptMountKeeps DEF Inv
    <3> QED
      BY <3>1, <3>2 DEF Sample
  <2> HIDE DEF CallSteps, MainSteps, MonitorSteps, Slot, Caller, Mounter, Flash
  <2> QED
    BY <1>0, <2>1, <2>2, <2>3, <2>4, <2>5 DEF Inv, TypeOK
<1>2. BootOrder'
  <2>1. pc'["main"] = pc["main"] /\ slot' = slot /\ dsp' = dsp /\ job'["main"] = job["main"]
        /\ pc'["sysmon"] \in {"sample", "mounted", "scan"}
        /\ (pc'["sysmon"] = "scan" => job'["sysmon"] = 0 \/ job' = job)
    BY <1>0 DEF Inv, TypeOK
  <2>2. pc'["sysmon"] = "scan" => job'["sysmon"] = 0
    BY <1>0 DEF Inv, TypeOK
  <2> QED
    BY <1>0, <2>1, <2>2 DEF Inv, BootOrder
<1>3. Rests'
  <2>1. SUFFICES ASSUME ~ touched
                 PROVE  /\ ~ early' /\ pc' = pc
                        /\ (card /\ sdtmr' = 5) \/ (~ card /\ sdtmr' \in {-5, -2})
    BY <1>0 DEF Rests
  <2>2. ~ early /\ ((card /\ sdtmr = 5) \/ (~ card /\ sdtmr \in {-5, -2}))
    BY <1>0, <2>1 DEF Inv, Rests
  <2>3. CASE card /\ sdtmr = 5
    <3>1. sdtmr' = 5
      BY <1>0, <2>3
    <3>2. pc' = pc
      BY <2>3, <3>1
    <3> QED
      BY <1>0, <2>2, <2>3, <3>1, <3>2
  <2>4. CASE ~ card /\ sdtmr \in {-5, -2}
    <3>1. sdtmr' = -2
      BY <1>0, <2>4
    <3>2. pc' = pc
      BY <2>4, <3>1
    <3> QED
      BY <1>0, <2>2, <2>4, <3>1, <3>2
  <2> QED
    BY <2>2, <2>3, <2>4
<1>4. LockHeld'
  BY DEF Inv, TypeOK, LockHeld, BootOrder, Rests
<1>5. MountsAlone'
  BY DEF Inv, TypeOK, MountsAlone, BootOrder
<1>6. Counted'
  <2>1. fs_ready' = fs_ready /\ At("sysmon", "sample")
    BY Zenon
  <2>6. CASE card
    <3>1. sight' \in {"unseen", "seen"} /\ (~ fs_ready => sight' = "unseen")
      <4>1. fs_ready => sight' = "seen"
        BY <2>6
      <4>2. ~ fs_ready => sight' = sight
        BY <2>6
      <4>3. QED
        BY <4>1, <4>2 DEF Inv, Counted
    <3>2. sdtmr' \in 0 .. 5
      BY <2>6 DEF Inv, TypeOK
    <3>3. CASE sdtmr' = 4
      <4>1. pc' = [pc EXCEPT !["sysmon"] = "mounted"]
        BY <2>6, <3>3
      <4>2. QED
        BY <2>1, <3>1, <3>3, <4>1 DEF Inv, TypeOK, Counted, Loading
    <3>4. CASE sdtmr' # 4
      <4>1. pc' = pc /\ pc["sysmon"] = "sample"
        BY <2>6, <3>4
      <4>2. QED
        BY <2>1, <3>1, <3>2, <4>1 DEF Counted, Loading
    <3>5. QED
      BY <3>3, <3>4
  <2>4. CASE ~ card
    <3>1. /\ sdtmr' = -1 => pc' = [pc EXCEPT !["sysmon"] = "scan"]
          /\ sdtmr' # -1 => pc' = pc
          /\ sdtmr \in {0, 1} => sdtmr' = sdtmr - 1
          /\ sdtmr \in 0 .. 5 => sdtmr' \in {-1, 0}
      BY <2>4
    <3>2. /\ sight \in {"unseen", "seen", "missed"}
          /\ sight = "unseen" => sight' = "unseen"
          /\ sight = "seen" => sight' = "missed" /\ sdtmr' \in {-1, 0}
          /\ sight = "missed" => sight' = "gone" /\ sdtmr' = -1
          /\ ~ fs_ready => sight = "unseen"
      BY <2>1, <2>4, <3>1 DEF Inv, TypeOK, Counted
    <3>3. pc'["sysmon"] = IF sdtmr' = -1 THEN "scan" ELSE "sample"
      BY <2>1, <3>1 DEF Inv, TypeOK
    <3> QED
      BY <2>1, <3>2, <3>3 DEF Counted, Loading
  <2>5. QED
    BY <2>4, <2>6
<1>7. NoFirstPatch'
  BY DEF Inv, TypeOK, NoFirstPatch, BootOrder
<1> QED
  BY <1>1, <1>2, <1>3, <1>4, <1>5, <1>6, <1>7 DEF Inv

LEMMA MountedKeeps ==
  ASSUME Inv, Mounted
  PROVE  Inv'
<1> USE DEF Mounted, At, GoTo, Calls, cardVars, mountVars, dumpVars, callVars, seenVars, CallSteps, MainSteps, MonitorSteps, WorkSteps
<1>1. TypeOK'
  BY DEF Inv, TypeOK
<1>2. BootOrder'
  BY DEF Inv, TypeOK, BootOrder
<1>3. Rests'
  BY DEF Inv, TypeOK, Rests, BootOrder
<1>4. LockHeld'
  BY DEF Inv, TypeOK, LockHeld, BootOrder, Rests
<1>5. MountsAlone'
  BY DEF Inv, TypeOK, MountsAlone, BootOrder
<1>6. Counted'
  BY DEF Inv, TypeOK, Counted, Loading, BootOrder
<1>7. NoFirstPatch'
  BY DEF Inv, TypeOK, NoFirstPatch, BootOrder
<1> QED
  BY <1>1, <1>2, <1>3, <1>4, <1>5, <1>6, <1>7 DEF Inv

LEMMA ScanKeeps ==
  ASSUME Inv, Scan
  PROVE  Inv'
<1> USE DEF Scan, At, GoTo, cardVars, mountVars, dumpVars, callVars, seenVars, CallSteps, MainSteps, MonitorSteps, WorkSteps
<1>1. TypeOK'
  <2>1. job' \in [Caller -> 0 .. Flash]
    <3>1. CASE job["sysmon"] = NoSlot \/ status[job["sysmon"]] = "RUNNING"
      BY <3>1 DEF Inv, TypeOK
    <3>2. CASE job' = [job EXCEPT !["sysmon"] = @ + 1] /\ job["sysmon"] # NoSlot
      <4>1. job["sysmon"] \in 0 .. NSlots
        BY DEF Inv, BootOrder
      <4>2. job["sysmon"] + 1 \in 0 .. Flash
        BY <4>1, <3>2
      <4>3. QED
        BY <4>2, <3>2 DEF Inv, TypeOK
    <3>3. QED
      BY <3>1, <3>2
  <2>2. QED
    BY <2>1 DEF Inv, TypeOK
<1>2. BootOrder'
  BY DEF Inv, TypeOK, BootOrder
<1>3. Rests'
  BY DEF Inv, TypeOK, Rests, BootOrder
<1>4. LockHeld'
  BY DEF Inv, TypeOK, LockHeld, BootOrder, Rests
<1>5. MountsAlone'
  BY DEF Inv, TypeOK, MountsAlone, BootOrder
<1>6. Counted'
  BY DEF Inv, TypeOK, Counted, Loading, BootOrder
<1>7. NoFirstPatch'
  BY DEF Inv, TypeOK, NoFirstPatch, BootOrder
<1> QED
  BY <1>1, <1>2, <1>3, <1>4, <1>5, <1>6, <1>7 DEF Inv

LEMMA UnmountKeeps ==
  ASSUME Inv, Unmount
  PROVE  Inv'
<1> USE DEF Unmount, At, GoTo, cardVars, mountVars, dumpVars, callVars, seenVars, CallSteps, MainSteps, MonitorSteps, WorkSteps
<1>1. TypeOK'
  <2>1. /\ UNCHANGED <<card, dsp, listing, dump, kept, touched, early, overlap, hpc, retries,
                       sdtmr, job, slot, mtxWorker, status>>
        /\ pc' = [pc EXCEPT !["sysmon"] = "sample"]
        /\ connected' = FALSE /\ fs_ready' = FALSE /\ sight' = "unseen"
    BY Zenon
  <2>2. pc' \in [Caller -> CallSteps \cup MainSteps \cup MonitorSteps]
    BY <2>1 DEF Inv, TypeOK
  <2> HIDE DEF CallSteps, MainSteps, MonitorSteps, Slot, Caller, Mounter, Flash, Unmount
  <2>3. /\ connected' \in BOOLEAN /\ fs_ready' \in BOOLEAN
        /\ sight' \in {"unseen", "seen", "missed", "gone"}
        /\ UNCHANGED <<card, dsp, listing, dump, kept, touched, early, overlap>>
        /\ UNCHANGED <<hpc, retries, sdtmr, job, slot, mtxWorker, status>>
    BY <2>1
  <2> QED
    BY <2>2, <2>3 DEF Inv, TypeOK
<1>2. BootOrder'
  BY DEF Inv, TypeOK, BootOrder
<1>3. Rests'
  BY DEF Inv, TypeOK, Rests, BootOrder
<1>4. LockHeld'
  BY DEF Inv, TypeOK, LockHeld, BootOrder, Rests
<1>5. MountsAlone'
  BY DEF Inv, TypeOK, MountsAlone, BootOrder
<1>6. Counted'
  BY DEF Inv, TypeOK, Counted, Loading, BootOrder
<1>7. NoFirstPatch'
  BY DEF Inv, TypeOK, NoFirstPatch, BootOrder
<1> QED
  BY <1>1, <1>2, <1>3, <1>4, <1>5, <1>6, <1>7 DEF Inv

LEMMA ReportDumpKeeps ==
  ASSUME Inv, ReportDump
  PROVE  Inv'
<1> USE DEF ReportDump, cardVars, mountVars, dumpVars, callVars, seenVars, CallSteps, MainSteps, MonitorSteps, WorkSteps
<1>1. TypeOK'
  <2>1. UNCHANGED <<card, connected, fs_ready, dsp, listing, touched, early, overlap, hpc, retries, pc,
                    sdtmr, job, slot, mtxWorker, status, sight>> /\ dump' = FALSE /\ kept' = FALSE
    BY Zenon
  <2> HIDE DEF CallSteps, MainSteps, MonitorSteps, Slot, Caller, Mounter, Flash, ReportDump
  <2>2. /\ dump' \in BOOLEAN /\ kept' \in BOOLEAN
        /\ UNCHANGED <<card, connected, fs_ready, dsp, listing, touched, early, overlap>>
        /\ UNCHANGED <<hpc, retries, pc, sdtmr, job, slot, mtxWorker, status, sight>>
    BY <2>1
  <2> QED
    BY <2>2 DEF Inv, TypeOK
<1>2. BootOrder'
  BY DEF Inv, TypeOK, BootOrder
<1>3. Rests'
  BY DEF Inv, TypeOK, Rests, BootOrder
<1>4. LockHeld'
  BY DEF Inv, TypeOK, LockHeld, BootOrder, Rests
<1>5. MountsAlone'
  BY DEF Inv, TypeOK, MountsAlone, BootOrder
<1>6. Counted'
  BY DEF Inv, TypeOK, Counted, Loading, BootOrder
<1>7. NoFirstPatch'
  BY DEF Inv, TypeOK, NoFirstPatch, BootOrder
<1> QED
  BY <1>1, <1>2, <1>3, <1>4, <1>5, <1>6, <1>7 DEF Inv

LEMMA ReportErrorKeeps ==
  ASSUME Inv, ReportError
  PROVE  Inv'
<1> USE DEF ReportError, cardVars, mountVars, dumpVars, callVars, seenVars, CallSteps, MainSteps, MonitorSteps, WorkSteps
<1>1. TypeOK'
  <2>1. UNCHANGED <<card, connected, fs_ready, dsp, listing, touched, early, overlap, hpc, retries, pc,
                    sdtmr, job, slot, mtxWorker, status, sight>> /\ dump' = TRUE /\ kept' = kept
    BY Zenon
  <2> HIDE DEF CallSteps, MainSteps, MonitorSteps, Slot, Caller, Mounter, Flash, ReportError
  <2>2. /\ dump' \in BOOLEAN /\ kept' \in BOOLEAN
        /\ UNCHANGED <<card, connected, fs_ready, dsp, listing, touched, early, overlap>>
        /\ UNCHANGED <<hpc, retries, pc, sdtmr, job, slot, mtxWorker, status, sight>>
    BY <2>1 DEF Inv, TypeOK
  <2> QED
    BY <2>2 DEF Inv, TypeOK
<1>2. BootOrder'
  BY DEF Inv, TypeOK, BootOrder
<1>3. Rests'
  BY DEF Inv, TypeOK, Rests, BootOrder
<1>4. LockHeld'
  BY DEF Inv, TypeOK, LockHeld, BootOrder, Rests
<1>5. MountsAlone'
  BY DEF Inv, TypeOK, MountsAlone, BootOrder
<1>6. Counted'
  BY DEF Inv, TypeOK, Counted, Loading, BootOrder
<1>7. NoFirstPatch'
  BY DEF Inv, TypeOK, NoFirstPatch, BootOrder
<1> QED
  BY <1>1, <1>2, <1>3, <1>4, <1>5, <1>6, <1>7 DEF Inv

LEMMA OpenRootKeeps ==
  ASSUME Inv, OpenRoot
  PROVE  Inv'
<1> USE DEF OpenRoot, cardVars, mountVars, dumpVars, callVars, seenVars, CallSteps, MainSteps, MonitorSteps, WorkSteps
<1>1. TypeOK'
  <2>1. /\ UNCHANGED <<card, connected, fs_ready, dsp, touched, early, overlap, hpc, retries, pc,
                       sdtmr, job, slot, mtxWorker, status, sight>>
        /\ listing' = FALSE /\ kept' = kept
        /\ dump' = dump \/ dump' = TRUE
    BY Zenon
  <2> HIDE DEF CallSteps, MainSteps, MonitorSteps, Slot, Caller, Mounter, Flash, OpenRoot
  <2>2. /\ dump' \in BOOLEAN /\ listing' \in BOOLEAN /\ kept' \in BOOLEAN
        /\ UNCHANGED <<card, connected, fs_ready, dsp, touched, early, overlap>>
        /\ UNCHANGED <<hpc, retries, pc, sdtmr, job, slot, mtxWorker, status, sight>>
    BY <2>1 DEF Inv, TypeOK
  <2> QED
    BY <2>2 DEF Inv, TypeOK
<1>2. BootOrder'
  BY DEF Inv, TypeOK, BootOrder
<1>3. Rests'
  BY DEF Inv, TypeOK, Rests, BootOrder
<1>4. LockHeld'
  BY DEF Inv, TypeOK, LockHeld, BootOrder, Rests
<1>5. MountsAlone'
  BY DEF Inv, TypeOK, MountsAlone, BootOrder
<1>6. Counted'
  BY DEF Inv, TypeOK, Counted, Loading, BootOrder
<1>7. NoFirstPatch'
  <2>1. kept => dump /\ pc["main"] \notin CallSteps \cup {"flash"}
    BY DEF Inv, NoFirstPatch
  <2>2. kept' = kept /\ pc' = pc
    OBVIOUS
  <2>3. CASE dump' = dump
    BY <2>1, <2>2, <2>3 DEF NoFirstPatch
  <2>4. CASE dump' = TRUE
    BY <2>1, <2>2, <2>4 DEF NoFirstPatch
  <2> QED
    BY <2>3, <2>4
<1> QED
  BY <1>1, <1>2, <1>3, <1>4, <1>5, <1>6, <1>7 DEF Inv

LEMMA RestartKeeps ==
  ASSUME NEW d \in BOOLEAN, Inv, Restart(d)
  PROVE  Inv'
<1> USE DEF Restart, AllOut, AtReset, NoJob, AllRunning, cardVars, mountVars, dumpVars, callVars, seenVars, CallSteps, MainSteps, MonitorSteps, WorkSteps
<1>1. TypeOK'
  <2>1. hpc' \in [Mounter -> {"out", "connect", "mount"}]
    OBVIOUS
  <2>2. job' \in [Caller -> 0 .. Flash] /\ slot' \in [Caller -> 0 .. NSlots]
    OBVIOUS
  <2>3. pc' \in [Caller -> CallSteps \cup MainSteps \cup MonitorSteps]
    OBVIOUS
  <2>4. status' \in [Slot -> {"RUNNING", "STOPPED", "STOPPING"}]
    OBVIOUS
  <2>5. /\ card' \in BOOLEAN /\ connected' \in BOOLEAN /\ fs_ready' \in BOOLEAN
        /\ dsp' \in BOOLEAN /\ listing' \in BOOLEAN /\ dump' \in BOOLEAN /\ kept' \in BOOLEAN
        /\ touched' \in BOOLEAN /\ early' \in BOOLEAN /\ overlap' \in BOOLEAN
    BY DEF Inv, TypeOK
  <2>6. /\ retries' \in 0 .. 3 /\ sdtmr' \in {-5} \cup -2 .. 5
        /\ mtxWorker' \in Caller \cup {"none"}
        /\ sight' \in {"unseen", "seen", "missed", "gone"}
    OBVIOUS
  <2>7. QED
    BY <2>1, <2>2, <2>3, <2>4, <2>5, <2>6, Zenon DEF TypeOK
<1>2. BootOrder'
  BY DEF Inv, TypeOK, BootOrder
<1>3. Rests'
  BY DEF Inv, TypeOK, Rests, BootOrder
<1>4. LockHeld'
  BY DEF Inv, TypeOK, LockHeld, BootOrder, Rests
<1>5. MountsAlone'
  BY DEF Inv, TypeOK, MountsAlone, BootOrder
<1>6. Counted'
  BY DEF Inv, TypeOK, Counted, Loading, BootOrder
<1>7. NoFirstPatch'
  BY DEF Inv, TypeOK, NoFirstPatch, BootOrder
<1> QED
  BY <1>1, <1>2, <1>3, <1>4, <1>5, <1>6, <1>7 DEF Inv

---------------------------------------------------------------------------
(* The specification keeps the invariant, and the invariant says it all.   *)

LEMMA InitInv == Init => Inv
<1> SUFFICES ASSUME Init PROVE Inv
  OBVIOUS
<1> USE DEF Init, AllOut, AtReset, NoJob, AllRunning, CallSteps, MainSteps, MonitorSteps, WorkSteps
<1>1. TypeOK
  <2>1. hpc \in [Mounter -> {"out", "connect", "mount"}]
    OBVIOUS
  <2>2. job \in [Caller -> 0 .. Flash] /\ slot \in [Caller -> 0 .. NSlots]
    OBVIOUS
  <2>3. pc \in [Caller -> CallSteps \cup MainSteps \cup MonitorSteps]
    OBVIOUS
  <2>4. status \in [Slot -> {"RUNNING", "STOPPED", "STOPPING"}]
    OBVIOUS
  <2>5. /\ card \in BOOLEAN /\ connected \in BOOLEAN /\ fs_ready \in BOOLEAN
        /\ dsp \in BOOLEAN /\ listing \in BOOLEAN /\ dump \in BOOLEAN /\ kept \in BOOLEAN
        /\ touched \in BOOLEAN /\ early \in BOOLEAN /\ overlap \in BOOLEAN
    OBVIOUS
  <2>6. /\ retries \in 0 .. 3 /\ sdtmr \in {-5} \cup -2 .. 5
        /\ mtxWorker \in Caller \cup {"none"}
        /\ sight \in {"unseen", "seen", "missed", "gone"}
    OBVIOUS
  <2>7. QED
    BY <2>1, <2>2, <2>3, <2>4, <2>5, <2>6, Zenon DEF TypeOK
<1>2. BootOrder /\ Rests /\ LockHeld /\ NoFirstPatch
  BY DEF BootOrder, Rests, LockHeld, NoFirstPatch
<1>3. MountsAlone /\ Counted
  BY DEF MountsAlone, Counted, Loading
<1> QED
  BY <1>1, <1>2, <1>3 DEF Inv

LEMMA StutterKeeps == Inv /\ UNCHANGED vars => Inv'
  BY DEF Inv, TypeOK, BootOrder, Rests, LockHeld, MountsAlone, Counted, Loading, NoFirstPatch,
         vars, cardVars, mountVars, dumpVars, callVars, seenVars

LEMMA StepKeeps == Inv /\ [Next]_vars => Inv'
<1> SUFFICES ASSUME Inv, [Next]_vars PROVE Inv'
  OBVIOUS
<1>1. CASE Main
  BY <1>1, GetFreeKeeps, PeripheralsKeeps, RemountKeeps, StartDspKeeps, CheckKeeps,
     LoadFlashKeeps DEF Main
<1>2. CASE Monitor
  BY <1>2, LookKeeps, SampleKeeps, MountedKeeps, ScanKeeps, UnmountKeeps DEF Monitor
<1>3. CASE ListPatches \/ OpenRoot \/ DspCycle
  BY <1>3, ListPatchesKeeps, OpenRootKeeps, DspCycleKeeps
<1>4. CASE Outside
  BY <1>4, MoveSwitchKeeps, ReportDumpKeeps, ReportErrorKeeps, RestartKeeps DEF Outside, Crash, PowerOn
<1>5. ASSUME NEW t \in Caller, Lock(t) \/ Proceed(t) PROVE Inv'
  BY <1>5, LockKeeps, WorkerMountKeeps, LoadElfKeeps, PublishKeeps, StopRequestKeeps,
     StopPollKeeps, UnlockKeeps DEF Proceed
<1>6. ASSUME NEW t \in Mounter, Handler(t) PROVE Inv'
  BY <1>6, ConnectKeeps, MountKeeps DEF Handler
<1>7. CASE UNCHANGED vars
  BY <1>7, StutterKeeps
<1> QED
  BY <1>1, <1>2, <1>3, <1>4, <1>5, <1>6, <1>7 DEF Next

\* The invariant that the properties of the monitor rest on: who holds the
\* mutex, who mounts, and what the counter of the card switch stands for.
THEOREM InvHolds == Spec => []Inv
<1> QED
  BY InitInv, StepKeeps, PTL DEF Spec

\* Every variable of main, the monitor and the mount keeps its type.
THEOREM TypeCorrect == Spec => []TypeOK
<1>1. Inv => TypeOK
  BY DEF Inv
<1> QED
  BY <1>1, InvHolds, PTL

\* Until the card is moved the monitor neither starts nor stops a patch.
THEOREM UntouchedIsQuietHolds == Spec => []UntouchedIsQuiet
<1>1. Inv => UntouchedIsQuiet
  BY DEF Inv, Rests, UntouchedIsQuiet
<1> QED
  BY <1>1, InvHolds, PTL

\* waThreadWorker has one user, but for calls made before start_dsp_thread.
THEOREM OneWorkerHolds == Spec => []OneWorker
<1>1. Inv => OneWorker
  BY DEF Inv, LockHeld, OneWorker
<1> QED
  BY <1>1, InvHolds, PTL

\* A mounted card is a connected one unless two threads mounted at once.
THEOREM ReadyIsConnectedHolds == Spec => []ReadyIsConnected
<1>1. Inv => ReadyIsConnected
  BY DEF Inv, MountsAlone, ReadyIsConnected
<1> QED
  BY <1>1, InvHolds, PTL

\* Two samples without a card end a mount that the monitor had seen.
THEOREM AbsenceDropsMountHolds == Spec => []AbsenceDropsMount
<1>1. Inv => AbsenceDropsMount
  BY DEF Inv, Counted, AbsenceDropsMount
<1> QED
  BY <1>1, InvHolds, PTL

\* A board that came up with a dump loads no patch before that is read or the
\* card moves, whatever is reported as an exception meanwhile.
THEOREM SilentAfterCrashHolds == Spec => []SilentAfterCrash
<1>1. Inv => SilentAfterCrash
  BY DEF Inv, NoFirstPatch, Rests, BootOrder, SilentAfterCrash, CallSteps, MonitorSteps
<1> QED
  BY <1>1, InvHolds, PTL

============================================================================
