--------------------------- MODULE UserInterface ---------------------------
(***************************************************************************)
(* The menus of a board with an Axoloti Control (ui.c, ui_nodes and        *)
(* menu_content): buttons and encoders queue an event, the DSP thread      *)
(* polls it after each compute cycle and moves through the menus, thread   *)
(* ui2 paints what a set of dirty flags tells it to, and the patch worker  *)
(* sends the menus home when it takes a patch away.                        *)
(*                                                                         *)
(* The Params page reads the instance of the first slot, whatever is in    *)
(* it.  Of the worker, which PatchManager has in full, this module keeps   *)
(* the order in which it changes that slot, tells the menus and waits for  *)
(* the host.                                                               *)
(***************************************************************************)
EXTENDS Integers, Sequences, SequencesExt

CONSTANTS
  StackSize,   \* menu_stack_size
  MaxEvents,   \* bound of the button events
  MaxTurns,    \* bound of the encoder steps
  MaxCalls     \* bound of the loads and stops of other threads

ASSUME UserInterfaceAssumption ==
  /\ StackSize \in Nat \ {0} /\ MaxEvents \in Nat
  /\ MaxTurns \in Nat /\ MaxCalls \in Nat

VARIABLES
  queued,   \* number of the last button event
  btn,      \* btn_event: what and which, or None
  turns,    \* steps of the encoder that moves through lists
  turn,     \* value of its enc_event: those not polled yet
  dsp,      \* where the DSP thread is
  evt,      \* the event it handles
  done,     \* history: has the last button event been handled?
  slipped,  \* history: did an interrupt queue it inside getEvent?
  stack,    \* menu_stack up to menu_stack_position
  flags,    \* events of ui2: the dirty flags
  ui2,      \* where ui2 is
  flag,     \* the flag it handles
  head,     \* the node it paints
  shown,    \* what was painted last into each part of the screen
  smeared,  \* history: parts the list of files was drawn over, not painted since
  wpc,      \* where the worker is
  zero,     \* does it work on the first slot?
  ask,      \* has it asked the DSP thread to let go of the patch?
  run0,     \* does the first slot hold a running patch?
  inst,     \* its patchobject
  rash,     \* history: was Params entered without a live instance?
  calls     \* loads and stops of other threads

inputVars == <<queued, btn, turns, turn, slipped>>
dspVars == <<dsp, evt, done>>
screenVars == <<shown, smeared>>
menuVars == <<stack, flags, screenVars, rash>>
paintVars == <<ui2, flag, head>>
workVars == <<wpc, zero, ask, run0, inst, calls>>
vars == <<inputVars, dspVars, menuVars, paintVars, workVars>>

\* The menu tree, cut down to one entry of each kind: an action is Format,
\* Write or the Load of a patch bank.
Entries ==
  [root |-> <<"load", "params", "sdcard">>, sdcard |-> <<"action">>,
   result |-> <<"done">>, load |-> <<>>, params |-> <<>>, action |-> <<>>,
   done |-> <<>>]

Node == DOMAIN Entries
IsList(n) == Entries[n] # <<>>

\* The dirty flags clearscreen and header, and those a node paints its page
\* for: initial, listnav and the usr flags.
Clear == 0
Header == 1
Page == 2
Flag == {Clear, Header, Page}
Part == {Header, Page}

Button == {"enter", "back", "down", "release"}
None == [key |-> "none", no |-> 0]
Blank == [node |-> "none", pos |-> 0]

Top == Last(stack)

TypeOK ==
  /\ queued \in 0 .. MaxEvents /\ done \in BOOLEAN /\ slipped \in BOOLEAN
  /\ btn = None \/ (btn.key \in Button /\ btn.no \in 1 .. queued)
  /\ turns \in 0 .. MaxTurns /\ turn \in -turns .. turns
  /\ dsp \in {"poll", "got", "card", "lock", "join", "format", "write"}
  /\ evt.key \in Button \cup {"none", "turnup", "turndown"}
  /\ flags \in SUBSET Flag /\ flag \in Flag /\ smeared \in SUBSET Part
  /\ ui2 \in {"wait", "paint"} /\ head \in Node
  /\ wpc \in {"idle", "alloc", "elf", "instance", "init", "tx", "poll", "free", "reset"}
  /\ inst \in {"null", "raw", "live", "dead"}
  /\ zero \in BOOLEAN /\ ask \in BOOLEAN /\ run0 \in BOOLEAN /\ rash \in BOOLEAN
  /\ calls \in 0 .. MaxCalls
  \* no access outside menu_stack, and the cursor of a list is on an entry
  /\ Len(stack) \in 1 .. StackSize
  /\ \A i \in DOMAIN stack :
       /\ stack[i].node \in Node
       /\ stack[i].pos \in 0 .. (IF IsList(stack[i].node)
                                 THEN Len(Entries[stack[i].node]) - 1 ELSE 0)

Init ==
  /\ queued = 0 /\ btn = None /\ turns = 0 /\ turn = 0 /\ slipped = FALSE
  /\ dsp = "poll" /\ evt = None /\ done = TRUE
  /\ stack = <<[node |-> "root", pos |-> 0]>> /\ flags = Flag
  /\ shown = [p \in Part |-> Blank] /\ smeared = {} /\ rash = FALSE
  /\ ui2 = "wait" /\ flag = Clear /\ head = "root"
  /\ wpc = "idle" /\ zero = FALSE /\ ask = FALSE /\ run0 = FALSE /\ inst = "null"
  /\ calls = 0

---------------------------------------------------------------------------
(* Input: queueInputEventI, from the codec interrupt (SPI link) or, behind *)
(* a lock, from the thread of the host connection, which the DSP thread    *)
(* keeps from running inside getEvent.                                     *)

\* Faulty: does not replace an event that has not been polled.
QueueUnlessPending(k) ==
  /\ queued < MaxEvents
  /\ queued' = queued + 1
  /\ btn' = IF btn = None THEN [key |-> k, no |-> queued'] ELSE btn
  /\ done' = FALSE /\ slipped' = (dsp = "got")
  /\ UNCHANGED <<turns, turn, dsp, evt, menuVars, paintVars, workVars>>

QueueButton(k) ==
  /\ queued < MaxEvents
  /\ queued' = queued + 1
  /\ btn' = [key |-> k, no |-> queued']
  /\ done' = FALSE /\ slipped' = (dsp = "got")
  /\ UNCHANGED <<turns, turn, dsp, evt, menuVars, paintVars, workVars>>

QueueTurn(d) ==
  /\ turns < MaxTurns
  /\ turns' = turns + 1 /\ turn' = turn + d
  /\ UNCHANGED <<queued, btn, slipped, dspVars, menuVars, paintVars, workVars>>

---------------------------------------------------------------------------
(* pollProcessUIEvent, in the DSP thread.                                  *)

\* getEvent, up to where it has read the event.
GetEvent ==
  /\ dsp = "poll"
  /\ btn # None \/ turn # 0
  /\ dsp' = "got"
  /\ evt' = IF btn # None THEN btn
            ELSE [key |-> IF turn > 0 THEN "turndown" ELSE "turnup", no |-> 0]
  /\ UNCHANGED <<done, inputVars, menuVars, paintVars, workVars>>

\* It then clears it: what an interrupt put there in between is lost.
ClearEvent ==
  /\ dsp = "got" /\ evt' = None
  /\ btn' = IF evt.no > 0 THEN None ELSE btn
  /\ turn' = IF evt.no > 0 THEN turn ELSE 0
  /\ done' = (done \/ evt.no = queued)
  /\ slipped' = (slipped /\ ~ done')
  /\ UNCHANGED <<queued, turns>>

\* ui_enter_node, and which flags its callers signal for it.
EnterNode(n, signals) ==
  IF Len(stack) < StackSize
  THEN /\ stack' = Append(stack, [node |-> n, pos |-> 0])
       /\ shown' = [p \in Part |-> Blank] /\ UNCHANGED smeared   \* LCD_clear
       /\ flags' = flags \cup signals
       /\ rash' = IF n = "params" THEN inst # "live" ELSE rash
  ELSE UNCHANGED menuVars

\* Faulty: list_nav_down goes one past the last entry.
MoveCursorPast(d) ==
  /\ stack' = [stack EXCEPT ![Len(stack)].pos =
                 IF @ + d \in 0 .. Len(Entries[Top.node]) THEN @ + d ELSE @]
  /\ flags' = flags \cup {Page}
  /\ UNCHANGED <<screenVars, rash>>

\* list_nav_up and list_nav_down: one entry, however far the encoder went.
MoveCursor(d) ==
  /\ stack' = [stack EXCEPT ![Len(stack)].pos =
                 IF @ + d \in 0 .. Len(Entries[Top.node]) - 1 THEN @ + d ELSE @]
  /\ flags' = flags \cup {Page}
  /\ UNCHANGED <<screenVars, rash>>

Goes == [turnup |-> -1, down |-> 1, turndown |-> 1]

\* handle_evt of the node on top; for the Params page, which parameters it
\* shows is left out, for the Load page, which file.
Handler(n, k) ==
  CASE IsList(n) /\ k \in DOMAIN Goes -> MoveCursor(Goes[k])
    [] IsList(n) /\ k = "enter" -> EnterNode(Entries[n][Top.pos + 1], Flag)
    [] n = "params" /\ k = "down" ->
         \E s \in {{}, Flag} : flags' = flags \cup s /\ UNCHANGED <<stack, screenVars, rash>>
    [] (n = "load" /\ k \in DOMAIN Goes) \/ (n = "params" /\ k \in {"turnup", "turndown"}) ->
         flags' = flags \cup {Page} /\ UNCHANGED <<stack, screenVars, rash>>
    [] OTHER -> UNCHANGED menuVars

Blocks(n, k) == n \in {"load", "action"} /\ k = "enter"

\* processUIEvent: the handler of the node on top, and then Back.
Process ==
  /\ ClearEvent
  /\ ~ Blocks(Top.node, evt.key)
  /\ dsp' = "poll"
  /\ IF evt.key = "back"
     THEN /\ stack' = IF Len(stack) > 1 THEN Front(stack) ELSE stack
          /\ flags' = Flag
          /\ UNCHANGED <<screenVars, rash>>
     ELSE Handler(Top.node, evt.key)
  /\ UNCHANGED <<paintVars, workVars>>

\* The handler of the Load page draws, in the DSP thread: files, that there
\* are none, or, when the card has fewer by now or fails, "////" from so far
\* up that it may hit the header.
DrawFiles(parts) ==
  /\ shown' = [p \in Part |-> IF p \notin parts THEN shown[p]
                             ELSE IF p = Page THEN [node |-> "load", pos |-> 0] ELSE Blank]
  /\ smeared' = (smeared \ parts) \cup {p \in parts : shown'[p].node # Top.node}
  /\ UNCHANGED <<stack, flags, rash>>

\* The handlers that wait: that of the Load page for the card, unless it has
\* no files, that of an action for f_mkfs, for patch_load or for nothing.
ProcessLong ==
  /\ ClearEvent
  /\ Blocks(Top.node, evt.key)
  /\ \/ Top.node = "load" /\ dsp' = "poll" /\ DrawFiles({Page})
     \/ Top.node = "load" /\ dsp' = "card" /\ UNCHANGED menuVars
     \/ Top.node = "action" /\ dsp' \in {"lock", "format", "write"} /\ UNCHANGED menuVars
  /\ UNCHANGED <<paintVars, workVars>>

\* refresh(TRUE) has read the card: it draws the file's name and loads it, or
\* has not found it and is done.  Neither signals a flag.
CardRead ==
  /\ dsp = "card"
  /\ \/ dsp' = "lock" /\ DrawFiles({Page})
     \/ dsp' = "poll" /\ \E parts \in SUBSET Part : DrawFiles(parts)
  /\ UNCHANGED <<evt, done, inputVars, paintVars, workVars>>

\* EnterMenuFormat enters the page of the result, on whatever is on top by
\* now.  Its caller, the handler of an action, signals no flag for it.
FormatDone ==
  /\ dsp = "format" /\ dsp' = "poll"
  /\ EnterNode("result", {})
  /\ UNCHANGED <<evt, done, inputVars, paintVars, workVars>>

---------------------------------------------------------------------------
(* ThreadUI2, which runs, as the worker does, when the DSP thread waits:    *)
(* it does not in getEvent, and never again in WritePatch.                 *)

DspWaits == dsp \notin {"got", "write"}

Lowest(S) == CHOOSE f \in S : \A g \in S : f <= g

\* Faulty: takes all the flags and handles one.
TakeAllFlags ==
  /\ ui2 = "wait" /\ flags # {} /\ DspWaits
  /\ flag' = Lowest(flags) /\ flags' = {}
  /\ ui2' = "paint" /\ head' = Top.node
  /\ UNCHANGED <<stack, screenVars, rash, inputVars, dspVars, workVars>>

\* chEvtWaitOneTimeout, one flag at a time, and a look at the node on top.
TakeFlag ==
  /\ ui2 = "wait" /\ flags # {} /\ DspWaits
  /\ flag' = Lowest(flags) /\ flags' = flags \ {flag'}
  /\ ui2' = "paint" /\ head' = Top.node
  /\ UNCHANGED <<stack, screenVars, rash, inputVars, dspVars, workVars>>

\* DisplayHeading reads the stack again, and so does the painter of a list
\* for its cursor: the stack may have changed under it.  The Load page draws
\* its files with the function its handler has, over the header if need be.
Paint ==
  /\ ui2 = "paint" /\ ui2' = "wait" /\ DspWaits
  /\ \/ /\ flag = Clear
        /\ shown' = [p \in Part |-> Blank] /\ smeared' = {}
     \/ /\ flag = Header
        /\ shown' = [shown EXCEPT ![Header] = [node |-> Top.node, pos |-> 0]]
        /\ smeared' = smeared \ {Header}
     \/ /\ flag = Page
        /\ shown' = [shown EXCEPT ![Page] = [node |-> head, pos |-> Top.pos]]
        /\ smeared' = smeared \ {Page}
     \/ /\ flag = Page /\ head = "load"
        /\ shown' = [shown EXCEPT ![Page] = [node |-> head, pos |-> Top.pos], ![Header] = Blank]
        /\ smeared' = {Header}
  /\ flag' = Clear /\ head' = "root"
  /\ UNCHANGED <<stack, flags, rash, inputVars, dspVars, workVars>>

---------------------------------------------------------------------------
(* The patch worker, the DSP thread's part in it, and who calls it.        *)

GoHome == stack' = <<Head(stack)>> /\ flags' = Flag /\ UNCHANGED <<screenVars, rash>>

\* Faulty: the menus are told to repaint, but not to go home.
StayThere == flags' = Flag /\ UNCHANGED <<stack, screenVars, rash>>

WorkerAt(from, to) == wpc = from /\ wpc' = to /\ DspWaits

\* The end of a job lets a menu handler that waits for it go on.
Return ==
  /\ dsp' = IF dsp = "join" THEN "poll" ELSE dsp
  /\ zero' = FALSE
  /\ UNCHANGED <<evt, done>>

CallLoad ==
  /\ WorkerAt("idle", "alloc")
  /\ \/ calls < MaxCalls /\ calls' = calls + 1 /\ UNCHANGED dspVars
     \/ dsp = "lock" /\ dsp' = "join" /\ UNCHANGED <<calls, evt, done>>
  /\ UNCHANGED <<zero, ask, run0, inst, inputVars, menuVars, paintVars>>

\* allocPatch: the first slot if it is free, another one or none; a load from
\* a bank that does not have the patch does not get there.
AllocPatch ==
  \/ /\ WorkerAt("alloc", "elf")
     /\ zero' = ~ run0
     /\ GoHome                                    \* ui_deinit_patch
     /\ UNCHANGED <<ask, run0, inst, calls, dspVars, inputVars, paintVars>>
  \/ /\ WorkerAt("alloc", "idle")
     /\ Return
     /\ UNCHANGED <<ask, run0, inst, calls, menuVars, inputVars, paintVars>>

\* The card has been read and, if the patch was made for another version of
\* the API, the host has taken what is logged of that.
LoadElf ==
  \/ /\ WorkerAt("elf", "instance")
     /\ UNCHANGED <<zero, ask, run0, inst, calls, dspVars, menuVars, inputVars, paintVars>>
  \/ /\ WorkerAt("elf", "idle")
     /\ Return
     /\ UNCHANGED <<ask, run0, inst, calls, menuVars, inputVars, paintVars>>

\* From ui_deinit_patch to the ax_malloc of the instance.
CreateInstance ==
  /\ GoHome
  /\ \/ /\ WorkerAt("instance", "init")
        /\ inst' = IF zero THEN "raw" ELSE inst
        /\ UNCHANGED <<zero, dspVars>>
     \/ /\ WorkerAt("instance", "idle")
        /\ inst' \in IF zero THEN {inst, "null"} ELSE {inst}
        /\ Return
  /\ UNCHANGED <<ask, run0, calls, inputVars, paintVars>>

InitInstance ==
  /\ \/ /\ WorkerAt("init", "tx")
        /\ run0' = (run0 \/ zero)
        /\ inst' = IF zero THEN "live" ELSE inst
        /\ UNCHANGED <<zero, dspVars>>
     \/ /\ WorkerAt("init", "idle")
        /\ inst' = IF zero THEN "dead" ELSE inst
        /\ Return /\ UNCHANGED run0
  /\ UNCHANGED <<ask, calls, menuVars, inputVars, paintVars>>

\* The host has taken the list of patches, and the job, a load or a stop, ends.
TxPatchList ==
  /\ WorkerAt("tx", "idle")
  /\ Return
  /\ UNCHANGED <<ask, run0, inst, calls, menuVars, inputVars, paintVars>>

StopRequest ==
  /\ WorkerAt("idle", "poll")
  /\ calls < MaxCalls /\ calls' = calls + 1
  /\ zero' \in IF run0 THEN BOOLEAN ELSE {FALSE}
  /\ ask' = TRUE
  /\ UNCHANGED <<run0, inst, dspVars, menuVars, inputVars, paintVars>>

\* A compute cycle, of a DSP thread that is not inside a menu handler.
DspCycle ==
  /\ dsp = "poll" /\ ask
  /\ ask' = FALSE
  /\ UNCHANGED <<wpc, zero, run0, inst, calls, dspVars, menuVars, inputVars, paintVars>>

\* patch_dispose and ax_free.
StopPoll ==
  /\ WorkerAt("poll", "free") /\ ~ ask
  /\ run0' = (run0 /\ ~ zero)
  /\ inst' = IF zero THEN "dead" ELSE inst
  /\ UNCHANGED <<zero, ask, calls, dspVars, menuVars, inputVars, paintVars>>

DeinitStaying ==
  /\ WorkerAt("free", "reset")
  /\ StayThere
  /\ UNCHANGED <<zero, ask, run0, inst, calls, dspVars, inputVars, paintVars>>

\* ui_deinit_patch.
Deinit ==
  /\ WorkerAt("free", "reset")
  /\ GoHome
  /\ UNCHANGED <<zero, ask, run0, inst, calls, dspVars, inputVars, paintVars>>

\* InitPatch0.
Reset ==
  /\ WorkerAt("reset", "tx")
  /\ inst' = IF zero THEN "null" ELSE inst
  /\ UNCHANGED <<zero, ask, run0, calls, dspVars, menuVars, inputVars, paintVars>>

---------------------------------------------------------------------------

Input == (\E k \in Button : QueueButton(k)) \/ (\E d \in {-1, 1} : QueueTurn(d))
Poll == GetEvent \/ Process \/ ProcessLong \/ CardRead \/ FormatDone
Ui2 == TakeFlag \/ Paint
Work == AllocPatch \/ CreateInstance \/ InitInstance \/ StopPoll \/ Deinit \/ Reset
Host == LoadElf \/ TxPatchList

Next == Input \/ Poll \/ Ui2 \/ CallLoad \/ StopRequest \/ Work \/ Host \/ DspCycle

Spec == Init /\ [][Next]_vars

\* The DSP thread and the worker run, whether ui2 does or not, and the card
\* answers or fails; chMtxLock lets the menu handler in when it is its turn.
Fairness ==
  /\ WF_vars(Poll) /\ WF_vars(Work) /\ WF_vars(DspCycle)
  /\ SF_vars(dsp = "lock" /\ CallLoad)

\* An assumption about the host: it reads what the worker logs and sends.
HostReads == WF_vars(Host)

FairSpec == Spec /\ Fairness /\ HostReads

---------------------------------------------------------------------------
(* Properties.                                                             *)

\* When ui2 has no flag left, the screen shows the node on top and its
\* cursor, in spite of what it painted while the menus moved under it -- but
\* for the result of a format, which nobody paints, and for a part that the
\* Load page drew over: its handler any page or header, from the DSP thread
\* and without a flag, its painter the header.
ScreenFollows ==
  flags = {} /\ ui2 = "wait" /\ Top.node # "result" =>
    /\ \A p \in Part \ smeared : shown[p].node = Top.node
    /\ Page \notin smeared => shown[Page].pos = Top.pos

\* The Params page, entered while the first slot holds a live patch, is left
\* before that is gone, whatever is loaded and stopped, but for the window
\* between ax_free and ui_deinit_patch.
ParamsLive ==
  (\E i \in DOMAIN stack : stack[i].node = "params") =>
    inst = "live" \/ rash \/ wpc = "free"

\* A menu handler waits for the worker, and the worker for the DSP thread.
DspDeadlocked == dsp = "lock" /\ wpc = "poll" /\ ask

\* The last button event is handled, unless an interrupt queued it inside
\* getEvent or the DSP thread is stuck in a handler: in the deadlock or, as
\* Write never returns, there -- if the host reads.
LastButtonHandled == ~ done ~> done \/ slipped \/ DspDeadlocked \/ dsp = "write"

===========================================================================
