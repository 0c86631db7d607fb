------------------------ MODULE UserInterfaceProofs ------------------------
(***************************************************************************)
(* Proofs about UserInterface: type correctness, what the screen shows,    *)
(* what the Params page reads, which button event can be lost and where    *)
(* the DSP thread can be stuck, for stacks of any size.                    *)
(***************************************************************************)
EXTENDS UserInterface, SequenceTheorems, TLAPS

Frame == [node : Node, pos : Nat]

\* The cursor of a list is on one of its entries; a leaf has none.
OnEntry(f) == f.pos \in 0 .. (IF IsList(f.node) THEN Len(Entries[f.node]) - 1 ELSE 0)

\* A stack of menus grows from the root.
StackOK(s) ==
  /\ s \in Seq(Frame) /\ Len(s) \in 1 .. StackSize
  /\ s[1].node = "root"
  /\ \A i \in DOMAIN s : OnEntry(s[i])

OnParams(s) == \E i \in DOMAIN s : s[i].node = "params"

\* A part of the screen that does not show the node on top is about to be
\* painted, or was drawn over; whoever clears the screen has both
\* parts painted afterwards.
Painted ==
  /\ shown = [p \in Part |-> shown[p]]
  /\ Clear \in flags \/ (ui2 = "paint" /\ flag = Clear) => Part \subseteq flags
  /\ Top.node # "result" =>
       /\ \/ Header \in flags
          \/ ui2 = "paint" /\ flag = Header
          \/ Header \in smeared
          \/ shown[Header].node = Top.node
       /\ \/ Page \in flags
          \/ IF ui2 = "paint" /\ flag = Page
             THEN head = Top.node
             ELSE \/ Page \in smeared
                  \/ shown[Page].node = Top.node /\ shown[Page].pos = Top.pos

\* Between the end of an instance and the next visit of the menus to their
\* root, the worker of the first slot holds a dead or raw one.
Params ==
  /\ OnParams(stack) => inst = "live" \/ rash \/ wpc = "free"
  /\ wpc = "init" /\ zero => inst = "raw"
  /\ wpc \in {"free", "reset"} /\ zero => inst = "dead"

Inv == TypeOK /\ StackOK(stack) /\ Painted /\ Params

---------------------------------------------------------------------------
(* The menu tree.                                                          *)

LEMMA Tree ==
  /\ Node = {"root", "sdcard", "result", "load", "params", "action", "done"}
  /\ Entries["root"] = <<"load", "params", "sdcard">> /\ Entries["sdcard"] = <<"action">>
  /\ Entries["result"] = <<"done">>
  /\ \A n \in {"load", "params", "action", "done"} : Entries[n] = <<>>
BY DEF Node, Entries

LEMMA Lists ==
  ASSUME NEW n \in Node
  PROVE  /\ Len(Entries[n]) \in Nat
         /\ IsList(n) => Len(Entries[n]) > 0
         /\ \A i \in 1 .. Len(Entries[n]) : Entries[n][i] \in Node
<1>1. CASE n \in {"load", "params", "action", "done"}
  BY <1>1, Tree DEF IsList
<1>2. CASE n = "root"
  BY <1>2, Tree
<1>3. CASE n \in {"sdcard", "result"}
  BY <1>3, Tree
<1>4. QED
  BY <1>1, <1>2, <1>3, Tree

---------------------------------------------------------------------------
(* What the operations of the menus do to the stack.                       *)

USE UserInterfaceAssumption

LEMMA FrontFrames ==
  ASSUME NEW s, StackOK(s)
  PROVE  /\ s \in Seq(Frame) /\ Len(s) \in Nat \ {0} /\ Len(s) \in DOMAIN s /\ 1 \in DOMAIN s
         /\ Last(s) = s[Len(s)] /\ Last(s) \in Frame /\ OnEntry(Last(s))
         /\ \A i \in DOMAIN s : i \in Nat /\ 1 <= i /\ i <= Len(s) /\ s[i] \in Frame
<1>1. s \in Seq(Frame) /\ Len(s) \in Nat \ {0}
  BY DEF StackOK
<1>2. \A i \in DOMAIN s : i \in Nat /\ 1 <= i /\ i <= Len(s) /\ s[i] \in Frame
  BY <1>1
<1>3. Len(s) \in DOMAIN s /\ 1 \in DOMAIN s
  BY <1>1
<1>4. Last(s) = s[Len(s)]
  BY DEF Last
<1>5. QED
  BY <1>1, <1>2, <1>3, <1>4 DEF StackOK

\* ui_enter_node: the node comes on top, its cursor on the first entry.
LEMMA PushedStack ==
  ASSUME NEW s, StackOK(s), Len(s) < StackSize, NEW n \in Node
  PROVE  LET t == Append(s, [node |-> n, pos |-> 0])
         IN  /\ StackOK(t) /\ Last(t).node = n /\ Last(t).pos = 0
             /\ OnParams(t) => OnParams(s) \/ n = "params"
<1> DEFINE f == [node |-> n, pos |-> 0]
           t == Append(s, f)
<1>1. f \in Frame /\ f.node = n /\ f.pos = 0 /\ OnEntry(f)
  BY Lists DEF Frame, OnEntry
<1>2. s \in Seq(Frame) /\ Len(s) \in Nat /\ 1 \in DOMAIN s
  BY FrontFrames
<1> HIDE DEF f
<1>3. /\ t \in Seq(Frame) /\ Len(t) = Len(s) + 1
      /\ \A i \in DOMAIN t : (i \in DOMAIN s /\ t[i] = s[i]) \/ t[i] = f
  BY <1>1, <1>2
<1>4. t[1] = s[1] /\ t[Len(t)] = f
  BY <1>1, <1>2
<1> HIDE DEF t
<1>5. Last(t) = f
  BY <1>4 DEF Last
<1>6. Len(t) \in 1 .. StackSize
  BY <1>2, <1>3 DEF StackOK
<1>7. \A i \in DOMAIN t : OnEntry(t[i])
  BY <1>1, <1>3 DEF StackOK
<1>8. StackOK(t)
  BY <1>3, <1>4, <1>6, <1>7 DEF StackOK
<1>9. OnParams(t) => OnParams(s) \/ n = "params"
  BY <1>1, <1>3 DEF OnParams
<1>10. QED
  BY <1>1, <1>5, <1>8, <1>9 DEF f, t

\* list_nav_up and list_nav_down: the cursor stays on the list's entries.
LEMMA MovedStack ==
  ASSUME NEW s, StackOK(s), NEW d \in {-1, 1}, IsList(Last(s).node)
  PROVE  LET t == [s EXCEPT ![Len(s)].pos =
                     IF @ + d \in 0 .. Len(Entries[Last(s).node]) - 1 THEN @ + d ELSE @]
         IN  /\ StackOK(t) /\ Last(t).node = Last(s).node
             /\ OnParams(t) => OnParams(s)
<1> DEFINE m == Len(s)
           p == IF s[m].pos + d \in 0 .. Len(Entries[Last(s).node]) - 1
                THEN s[m].pos + d ELSE s[m].pos
           f == [s[m] EXCEPT !.pos = p]
           t == [s EXCEPT ![Len(s)].pos =
                   IF @ + d \in 0 .. Len(Entries[Last(s).node]) - 1 THEN @ + d ELSE @]
<1>1. s \in Seq(Frame) /\ m \in DOMAIN s /\ m \in 1 .. Len(s) /\ s[m] \in Frame /\ Last(s) = s[m]
  BY FrontFrames
<1>2. OnEntry(s[m]) /\ s[m].node \in Node /\ s[m].pos \in Nat /\ Len(Entries[s[m].node]) \in Nat
  BY <1>1, FrontFrames, Lists DEF Frame
<1>3. p \in 0 .. Len(Entries[s[m].node]) - 1
  BY <1>1, <1>2 DEF OnEntry
<1>4. t = [s EXCEPT ![m] = f]
  BY <1>1
<1> HIDE DEF p, t
<1>5. f \in Frame /\ f.node = s[m].node /\ OnEntry(f)
  <2>1. f = [node |-> s[m].node, pos |-> p]
    BY <1>1 DEF Frame
  <2>2. p \in Nat /\ IsList(s[m].node)
    BY <1>1, <1>2, <1>3
  <2>3. f.node = s[m].node /\ f.pos = p
    BY <2>1
  <2> HIDE DEF f
  <2>4. f \in Frame
    BY <1>2, <2>1, <2>2 DEF Frame
  <2>5. OnEntry(f)
    BY <1>3, <2>2, <2>3 DEF OnEntry
  <2> QED
    BY <2>3, <2>4, <2>5
<1> HIDE DEF f
<1>6. /\ t \in Seq(Frame) /\ Len(t) = Len(s)
      /\ \A i \in 1 .. Len(s) : t[i] = IF i = m THEN f ELSE s[i]
  BY <1>1, <1>4, <1>5, ExceptSeq
<1>7. DOMAIN t = 1 .. Len(s) /\ DOMAIN s = 1 .. Len(s)
  BY <1>1, <1>6
<1>8. \A i \in DOMAIN t : OnEntry(t[i]) /\ t[i].node = s[i].node
  BY <1>5, <1>6, <1>7 DEF StackOK
<1>9. StackOK(t)
  <2>1. Len(t) \in 1 .. StackSize /\ s[1].node = "root"
    BY <1>6 DEF StackOK
  <2>2. 1 \in DOMAIN t
    BY <1>1, <1>7, FrontFrames
  <2>3. t[1].node = "root"
    BY <1>8, <2>1, <2>2
  <2>4. QED
    BY <1>6, <1>8, <2>1, <2>3 DEF StackOK
<1>10. Last(t).node = Last(s).node
  BY <1>1, <1>6, <1>7, <1>8 DEF Last
<1>11. OnParams(t) => OnParams(s)
  BY <1>7, <1>8 DEF OnParams
<1>12. QED
  BY <1>9, <1>10, <1>11 DEF t

\* nav_Back.
LEMMA PoppedStack ==
  ASSUME NEW s, StackOK(s), Len(s) > 1
  PROVE  StackOK(Front(s)) /\ (OnParams(Front(s)) => OnParams(s))
<1> DEFINE t == SubSeq(s, 1, Len(s) - 1)
<1>1. s \in Seq(Frame) /\ Len(s) \in Nat
  BY FrontFrames
<1>2. /\ t \in Seq(Frame) /\ Len(t) = Len(s) - 1
      /\ \A i \in DOMAIN t : i \in DOMAIN s /\ t[i] = s[i]
  BY <1>1
<1>3. 1 \in DOMAIN t
  BY <1>1, <1>2
<1> HIDE DEF t
<1>4. StackOK(t) /\ (OnParams(t) => OnParams(s))
  BY <1>1, <1>2, <1>3 DEF StackOK, OnParams
<1>5. QED
  BY <1>4 DEF Front, t

\* ui_deinit_patch, and any other way home.
LEMMA HomeStack ==
  ASSUME NEW s, StackOK(s)
  PROVE  StackOK(<<Head(s)>>) /\ ~ OnParams(<<Head(s)>>)
<1> DEFINE t == <<Head(s)>>
<1>1. Head(s) = s[1] /\ s[1] \in Frame /\ OnEntry(s[1]) /\ s[1].node = "root"
  BY FrontFrames DEF StackOK
<1>2. t \in Seq(Frame) /\ Len(t) = 1 /\ t[1] = s[1] /\ \A i \in DOMAIN t : t[i] = s[1]
  BY <1>1
<1> HIDE DEF t
<1>3. QED
  BY <1>1, <1>2 DEF StackOK, OnParams, t

---------------------------------------------------------------------------
(* What they do to the menus as a whole.                                   *)

MenusOK ==
  /\ flags \in SUBSET Flag /\ smeared \in SUBSET Part /\ rash \in BOOLEAN
  /\ StackOK(stack) /\ Painted
  /\ OnParams(stack) => inst = "live" \/ rash \/ wpc = "free"

LEMMA FlagSet == Flag = {0, 1, 2} /\ Part = {1, 2} /\ Clear = 0 /\ Header = 1 /\ Page = 2
BY DEF Flag, Part, Clear, Header, Page

LEMMA EnterKeeps ==
  ASSUME MenusOK, NEW n \in Node, NEW signals \in {{}, Flag},
         signals = Flag \/ n = "result", EnterNode(n, signals), UNCHANGED <<paintVars, inst, wpc>>
  PROVE  MenusOK'
<1>1. CASE Len(stack) < StackSize
  <2>1. /\ stack' = Append(stack, [node |-> n, pos |-> 0])
        /\ shown' = [p \in Part |-> Blank] /\ flags' = flags \cup signals
        /\ smeared' = smeared /\ rash' = IF n = "params" THEN inst # "live" ELSE rash
    BY <1>1 DEF EnterNode
  <2>2. StackOK(stack') /\ Last(stack').node = n /\ (OnParams(stack') => OnParams(stack) \/ n = "params")
    BY <1>1, <2>1, PushedStack DEF MenusOK
  <2>3. flags' \in SUBSET Flag /\ smeared' \in SUBSET Part /\ rash' \in BOOLEAN
    BY <2>1 DEF MenusOK
  <2>4. Painted'
    <3>1. shown' = [p \in Part |-> shown'[p]]
      BY <2>1
    <3>2. CASE signals = Flag
      BY <2>1, <2>3, <3>1, <3>2, FlagSet DEF Painted, MenusOK
    <3>3. CASE signals = {} /\ n = "result"
      <4>1. flags' = flags /\ Top'.node = "result"
        BY <2>1, <2>2, <3>3 DEF Top
      <4>2. QED
        BY <3>1, <4>1 DEF Painted, MenusOK, paintVars
    <3>4. QED
      BY <3>2, <3>3
  <2>5. OnParams(stack') => inst' = "live" \/ rash' \/ wpc' = "free"
    BY <2>1, <2>2 DEF MenusOK
  <2>6. QED
    BY <2>2, <2>3, <2>4, <2>5 DEF MenusOK
<1>2. CASE ~ (Len(stack) < StackSize)
  BY <1>2 DEF EnterNode, MenusOK, Painted, Top, menuVars, screenVars, paintVars
<1>3. QED
  BY <1>1, <1>2

LEMMA MoveKeeps ==
  ASSUME MenusOK, NEW d \in {-1, 1}, IsList(Top.node), MoveCursor(d),
         UNCHANGED <<paintVars, inst, wpc>>
  PROVE  MenusOK'
<1>1. flags' = flags \cup {Page} /\ shown' = shown /\ smeared' = smeared /\ rash' = rash
  BY DEF MoveCursor, screenVars
<1>2. StackOK(stack') /\ Last(stack').node = Last(stack).node /\ (OnParams(stack') => OnParams(stack))
  BY MovedStack DEF MoveCursor, Top, MenusOK
<1>3. Painted'
  BY <1>1, <1>2, FlagSet DEF Painted, MenusOK, Top, paintVars
<1>4. QED
  BY <1>1, <1>2, <1>3, FlagSet DEF MenusOK

\* Flags are signalled, and nothing else.
LEMMA SignalKeeps ==
  ASSUME MenusOK, NEW signals \in {{}, {Page}, Flag}, flags' = flags \cup signals,
         UNCHANGED <<stack, screenVars, rash, paintVars, inst, wpc>>
  PROVE  MenusOK'
<1>1. Painted'
  BY FlagSet DEF Painted, MenusOK, Top, screenVars, paintVars
<1>2. QED
  BY <1>1, FlagSet DEF MenusOK, screenVars

\* Everything is painted again, from whatever stack.
LEMMA RepaintKeeps ==
  ASSUME MenusOK, StackOK(stack'), flags' = Flag, UNCHANGED <<screenVars, rash, paintVars>>,
         OnParams(stack') => inst' = "live" \/ rash \/ wpc' = "free"
  PROVE  MenusOK'
BY FlagSet DEF Painted, MenusOK, screenVars

\* The Load page's handler draws: the page is right if it is on top, any other
\* part counts as drawn over from then on.
LEMMA DrawFilesKeeps ==
  ASSUME MenusOK, NEW parts \in SUBSET Part, DrawFiles(parts),
         UNCHANGED <<paintVars, inst, wpc>>
  PROVE  MenusOK'
<1>1. /\ shown' = [p \in Part |-> IF p \notin parts THEN shown[p]
                                  ELSE IF p = Page THEN [node |-> "load", pos |-> 0] ELSE Blank]
      /\ smeared' = (smeared \ parts) \cup {p \in parts : shown'[p].node # Top.node}
      /\ UNCHANGED <<stack, flags, rash>>
  BY DEF DrawFiles
<1>2. Top \in Frame /\ OnEntry(Top) /\ Top' = Top
  BY <1>1, FrontFrames DEF MenusOK, Top
<1>3. smeared' \in SUBSET Part
  BY <1>1 DEF MenusOK
<1>4. \A p \in Part : p \in parts => p \in smeared' \/ shown'[p].node = Top.node
  BY <1>1
<1>5. \A p \in Part : p \notin parts => shown'[p] = shown[p] /\ (p \in smeared' <=> p \in smeared)
  BY <1>1
<1>6. Page \in parts /\ shown'[Page].node = Top.node => shown'[Page].pos = Top.pos
  <2> SUFFICES ASSUME Page \in parts, shown'[Page].node = Top.node
               PROVE  shown'[Page].pos = Top.pos
    OBVIOUS
  <2>1. shown'[Page] = [node |-> "load", pos |-> 0]
    BY <1>1, FlagSet
  <2>2. Top.node = "load" /\ Top.pos = 0
    BY <1>2, <2>1, Tree DEF OnEntry, IsList
  <2>3. QED
    BY <2>1, <2>2
<1>7. shown' = [p \in Part |-> shown'[p]]
  BY <1>1
<1>8. Painted'
  BY <1>1, <1>2, <1>4, <1>5, <1>6, <1>7, FlagSet DEF Painted, MenusOK, paintVars
<1>9. QED
  BY <1>1, <1>3, <1>8 DEF MenusOK

LEMMA GoHomeKeeps ==
  ASSUME MenusOK, GoHome, UNCHANGED paintVars
  PROVE  MenusOK' /\ ~ OnParams(stack')
<1>1. StackOK(stack') /\ ~ OnParams(stack')
  BY HomeStack DEF GoHome, MenusOK
<1>2. QED
  BY <1>1, RepaintKeeps DEF GoHome

\* What is left of the invariant beside the menus.
Inputs ==
  /\ queued \in 0 .. MaxEvents /\ done \in BOOLEAN /\ slipped \in BOOLEAN
  /\ btn = None \/ (btn.key \in Button /\ btn.no \in 1 .. queued)
  /\ turns \in 0 .. MaxTurns /\ turn \in -turns .. turns
  /\ dsp \in {"poll", "got", "card", "lock", "join", "format", "write"}
  /\ evt.key \in Button \cup {"none", "turnup", "turndown"}

Painter == flag \in Flag /\ ui2 \in {"wait", "paint"} /\ head \in Node

Worker ==
  /\ wpc \in {"idle", "alloc", "elf", "instance", "init", "tx", "poll", "free", "reset"}
  /\ inst \in {"null", "raw", "live", "dead"}
  /\ zero \in BOOLEAN /\ ask \in BOOLEAN /\ run0 \in BOOLEAN
  /\ calls \in 0 .. MaxCalls
  /\ wpc = "init" /\ zero => inst = "raw"
  /\ wpc \in {"free", "reset"} /\ zero => inst = "dead"

LEMMA StackTypes ==
  ASSUME NEW s, StackOK(s)
  PROVE  /\ Len(s) \in 1 .. StackSize
         /\ \A i \in DOMAIN s :
              /\ s[i].node \in Node
              /\ s[i].pos \in 0 .. (IF IsList(s[i].node) THEN Len(Entries[s[i].node]) - 1 ELSE 0)
BY FrontFrames DEF StackOK, OnEntry, Frame

LEMMA Parts == Inv => MenusOK /\ Inputs /\ Painter /\ Worker
BY DEF Inv, TypeOK, MenusOK, Inputs, Painter, Worker, Params

LEMMA Whole == MenusOK /\ Inputs /\ Painter /\ Worker => Inv
<1> SUFFICES ASSUME MenusOK, Inputs, Painter, Worker PROVE Inv
  OBVIOUS
<1>1. TypeOK
  BY StackTypes DEF MenusOK, Inputs, Painter, Worker, TypeOK
<1>2. StackOK(stack) /\ Painted /\ Params
  BY DEF MenusOK, Worker, Params
<1>3. QED
  BY <1>1, <1>2 DEF Inv

LEMMA WholeAfter ==
  ASSUME MenusOK', Inputs', Painter', Worker'
  PROVE  Inv'
<1>1. TypeOK'
  BY StackTypes DEF MenusOK, Inputs, Painter, Worker, TypeOK
<1>2. StackOK(stack') /\ Painted' /\ Params'
  BY DEF MenusOK, Worker, Params
<1>3. QED
  BY <1>1, <1>2 DEF Inv

LEMMA MenusStay ==
  ASSUME MenusOK, UNCHANGED <<menuVars, paintVars, inst, wpc>>
  PROVE  MenusOK'
BY DEF MenusOK, Painted, Top, menuVars, screenVars, paintVars

---------------------------------------------------------------------------
(* One lemma for each action.                                              *)

LEMMA InputKeeps ==
  ASSUME Inv, Input
  PROVE  Inv'
<1>1. MenusOK /\ Inputs /\ Painter /\ Worker
  BY Parts
<1>2. UNCHANGED <<dsp, evt, menuVars, paintVars, workVars>>
  BY DEF Input, QueueButton, QueueTurn, dspVars
<1>3. MenusOK' /\ Painter' /\ Worker'
  BY <1>1, <1>2, MenusStay DEF Painter, Worker, paintVars, workVars
<1>4. Inputs'
  <2>1. CASE \E k \in Button : QueueButton(k)
    <3>1. PICK k \in Button : QueueButton(k)
      BY <2>1
    <3>2. queued' = queued + 1 /\ queued' \in 0 .. MaxEvents /\ turns' = turns /\ turn' = turn
          /\ done' = FALSE /\ slipped' \in BOOLEAN
      BY <1>1, <3>1 DEF QueueButton, Inputs
    <3>3. btn'.key \in Button /\ btn'.no \in 1 .. queued'
      BY <1>1, <3>1 DEF QueueButton, Inputs
    <3>4. QED
      BY <1>1, <1>2, <3>2, <3>3 DEF Inputs
  <2>2. CASE \E d \in {-1, 1} : QueueTurn(d)
    <3>1. PICK d \in {-1, 1} : QueueTurn(d)
      BY <2>2
    <3>2. turns' \in 0 .. MaxTurns /\ turn' \in -turns' .. turns'
      BY <1>1, <3>1 DEF QueueTurn, Inputs
    <3>3. UNCHANGED <<queued, btn, slipped, done, dsp, evt>>
      BY <3>1 DEF QueueTurn, dspVars
    <3>4. QED
      BY <1>1, <3>2, <3>3 DEF Inputs
  <2>3. QED
    BY <2>1, <2>2 DEF Input
<1>5. QED
  BY <1>3, <1>4, WholeAfter

LEMMA GetEventKeeps ==
  ASSUME Inv, GetEvent
  PROVE  Inv'
<1>1. MenusOK /\ Inputs /\ Painter /\ Worker
  BY Parts
<1>2. MenusOK' /\ Painter' /\ Worker'
  BY <1>1, MenusStay DEF GetEvent, Painter, Worker, paintVars, workVars
<1>3. evt'.key \in Button \cup {"none", "turnup", "turndown"}
  BY <1>1 DEF GetEvent, Inputs
<1>4. Inputs'
  BY <1>1, <1>3 DEF GetEvent, Inputs, inputVars
<1>5. QED
  BY <1>2, <1>4, WholeAfter

LEMMA ClearEventKeeps ==
  ASSUME Inputs, ClearEvent, dsp' \in {"poll", "card", "lock", "format", "write"}
  PROVE  Inputs'
<1>1. UNCHANGED <<queued, turns>> /\ evt' = None /\ evt'.key = "none"
      /\ btn' \in {None, btn} /\ turn' \in {turn, 0}
  BY DEF ClearEvent, None
<1>2. done' \in BOOLEAN /\ slipped' \in BOOLEAN
  BY DEF ClearEvent, Inputs
<1>3. btn' = None \/ (btn'.key \in Button /\ btn'.no \in 1 .. queued)
  BY <1>1 DEF Inputs
<1>4. turn' \in -turns .. turns
  BY <1>1 DEF Inputs
<1>5. QED
  BY <1>1, <1>2, <1>3, <1>4 DEF Inputs

\* The handler of the node on top moves its cursor, enters one of its
\* entries, or leaves the menus as they are.
LEMMA HandlerKeeps ==
  ASSUME MenusOK, NEW k, Handler(Top.node, k), UNCHANGED <<paintVars, inst, wpc>>
  PROVE  MenusOK'
<1>1. Top \in Frame /\ OnEntry(Top)
  BY FrontFrames DEF MenusOK, Top
<1>2. CASE IsList(Top.node) /\ k \in DOMAIN Goes
  <2>1. Goes[k] \in {-1, 1} /\ k # "enter"
    BY <1>2 DEF Goes
  <2>2. Top.node # "params" /\ Top.node # "load"
    BY <1>2, Tree DEF IsList
  <2>3. MoveCursor(Goes[k])
    BY <1>2, <2>1, <2>2 DEF Handler
  <2>4. QED
    BY <1>2, <2>1, <2>3, MoveKeeps
<1>3. CASE IsList(Top.node) /\ k = "enter"
  <2>1. Top.node \in Node /\ Top.pos + 1 \in 1 .. Len(Entries[Top.node])
    <3>1. Top.node \in Node /\ Len(Entries[Top.node]) \in Nat /\ Top.pos \in Nat
      BY <1>1, Lists DEF Frame
    <3>2. Top.pos \in 0 .. Len(Entries[Top.node]) - 1
      BY <1>1, <1>3 DEF OnEntry
    <3>3. QED
      BY <3>1, <3>2
  <2>2. Entries[Top.node][Top.pos + 1] \in Node
    BY <2>1, Lists
  <2>3. EnterNode(Entries[Top.node][Top.pos + 1], Flag)
    BY <1>3 DEF Handler, Goes
  <2>4. QED
    BY <2>2, <2>3, EnterKeeps
<1>4. CASE ~ (IsList(Top.node) /\ k \in DOMAIN Goes) /\ ~ (IsList(Top.node) /\ k = "enter")
  <2>1. \E signals \in {{}, {Page}, Flag} : flags' = flags \cup signals
                                             /\ UNCHANGED <<stack, screenVars, rash>>
    BY <1>4 DEF Handler, menuVars
  <2>2. QED
    BY <2>1, SignalKeeps
<1>5. QED
  BY <1>2, <1>3, <1>4

LEMMA ProcessKeeps ==
  ASSUME Inv, Process
  PROVE  Inv'
<1>1. MenusOK /\ Inputs /\ Painter /\ Worker
  BY Parts
<1>2. Inputs' /\ Painter' /\ Worker'
  BY <1>1, ClearEventKeeps DEF Process, Painter, Worker, paintVars, workVars
<1>3. UNCHANGED <<paintVars, inst, wpc>>
  BY DEF Process, workVars
<1>4. MenusOK'
  <2>1. CASE evt.key = "back"
    <3>1. stack' = (IF Len(stack) > 1 THEN Front(stack) ELSE stack) /\ flags' = Flag
          /\ UNCHANGED <<screenVars, rash>>
      BY <2>1 DEF Process
    <3>2. StackOK(stack') /\ (OnParams(stack') => OnParams(stack))
      BY <1>1, <3>1, PoppedStack DEF MenusOK
    <3>3. OnParams(stack') => inst' = "live" \/ rash \/ wpc' = "free"
      BY <1>1, <1>3, <3>2 DEF MenusOK
    <3>4. QED
      BY <1>1, <1>3, <3>1, <3>2, <3>3, RepaintKeeps
  <2>2. CASE evt.key # "back"
    <3>1. Handler(Top.node, evt.key)
      BY <2>2 DEF Process
    <3>2. QED
      BY <1>1, <1>3, <3>1, HandlerKeeps
  <2>3. QED
    BY <2>1, <2>2
<1>5. QED
  BY <1>2, <1>4, WholeAfter

LEMMA ProcessLongKeeps ==
  ASSUME Inv, ProcessLong
  PROVE  Inv'
<1>1. MenusOK /\ Inputs /\ Painter /\ Worker
  BY Parts
<1>2. /\ UNCHANGED <<paintVars, workVars>> /\ ClearEvent
      /\ dsp' \in {"poll", "card", "lock", "format", "write"}
      /\ DrawFiles({Page}) \/ UNCHANGED menuVars
  BY DEF ProcessLong
<1>3. Inputs' /\ Painter' /\ Worker' /\ UNCHANGED <<inst, wpc>>
  BY <1>1, <1>2, ClearEventKeeps DEF Painter, Worker, paintVars, workVars
<1>4. MenusOK'
  BY <1>1, <1>2, <1>3, DrawFilesKeeps, MenusStay, FlagSet
<1>5. QED
  BY <1>3, <1>4, WholeAfter

LEMMA CardReadKeeps ==
  ASSUME Inv, CardRead
  PROVE  Inv'
<1>1. MenusOK /\ Inputs /\ Painter /\ Worker
  BY Parts
<1>2. /\ UNCHANGED <<evt, done, inputVars, paintVars, workVars>> /\ dsp' \in {"lock", "poll"}
      /\ \E parts \in SUBSET Part : DrawFiles(parts)
  BY FlagSet DEF CardRead
<1>3. Inputs' /\ Painter' /\ Worker'
  BY <1>1, <1>2 DEF Inputs, Painter, Worker, inputVars, paintVars, workVars
<1>4. MenusOK'
  BY <1>1, <1>2, DrawFilesKeeps DEF workVars
<1>5. QED
  BY <1>3, <1>4, WholeAfter

LEMMA FormatDoneKeeps ==
  ASSUME Inv, FormatDone
  PROVE  Inv'
<1>1. MenusOK /\ Inputs /\ Painter /\ Worker
  BY Parts
<1>2. UNCHANGED <<evt, done, inputVars, paintVars, workVars>> /\ dsp' = "poll"
      /\ EnterNode("result", {})
  BY DEF FormatDone
<1>3. Inputs' /\ Painter' /\ Worker'
  BY <1>1, <1>2 DEF Inputs, Painter, Worker, inputVars, paintVars, workVars
<1>4. MenusOK'
  BY <1>1, <1>2, EnterKeeps, Tree DEF workVars
<1>5. QED
  BY <1>3, <1>4, WholeAfter

LEMMA TakeFlagKeeps ==
  ASSUME Inv, TakeFlag
  PROVE  Inv'
<1>1. MenusOK /\ Inputs /\ Painter /\ Worker
  BY Parts
<1>2. /\ ui2 = "wait" /\ flags # {} /\ flag' = Lowest(flags) /\ flags' = flags \ {flag'}
      /\ ui2' = "paint" /\ head' = Top.node
      /\ UNCHANGED <<stack, shown, smeared, rash, inputVars, dspVars, workVars>>
  BY DEF TakeFlag, screenVars
<1>3. flag' \in flags /\ (Clear \in flags => flag' = Clear) /\ flags \subseteq Flag
  <2>1. flags \in SUBSET {0, 1, 2}
    BY <1>1, FlagSet DEF MenusOK
  <2>2. \E f \in flags : \A g \in flags : f <= g
    <3>1. CASE 0 \in flags
      BY <2>1, <3>1
    <3>2. CASE 0 \notin flags /\ 1 \in flags
      BY <2>1, <3>2
    <3>3. CASE 0 \notin flags /\ 1 \notin flags
      <4>1. flags = {2}
        BY <1>2, <2>1, <3>3
      <4>2. QED
        BY <4>1
    <3>4. QED
      BY <3>1, <3>2, <3>3
  <2>3. flag' \in flags /\ \A g \in flags : flag' <= g
    BY <1>2, <2>2 DEF Lowest
  <2>4. QED
    BY <2>1, <2>3, FlagSet
<1>4. Top.node \in Node
  BY <1>1, FrontFrames DEF MenusOK, Top, Frame
<1>5. Painter' /\ Inputs' /\ Worker'
  BY <1>1, <1>2, <1>3, <1>4 DEF Painter, Inputs, Worker, inputVars, dspVars, workVars
<1>6. Painted'
  <2>1. Top' = Top
    BY <1>2 DEF Top
  <2>2. CASE flag' = Clear
    BY <1>1, <1>2, <1>3, <2>1, <2>2, FlagSet DEF Painted, MenusOK
  <2>3. CASE flag' # Clear
    BY <1>1, <1>2, <1>3, <2>1, <2>3, FlagSet DEF Painted, MenusOK
  <2>4. QED
    BY <2>2, <2>3
<1>7. MenusOK'
  BY <1>1, <1>2, <1>3, <1>6 DEF MenusOK, workVars
<1>8. QED
  BY <1>5, <1>7, WholeAfter

LEMMA PaintKeeps ==
  ASSUME Inv, Paint
  PROVE  Inv'
<1>1. MenusOK /\ Inputs /\ Painter /\ Worker
  BY Parts
<1>2. /\ ui2 = "paint" /\ ui2' = "wait" /\ flag' = Clear /\ head' = "root"
      /\ UNCHANGED <<stack, flags, rash, inputVars, dspVars, workVars>>
  BY DEF Paint
<1>3. Painter' /\ Inputs' /\ Worker'
  BY <1>1, <1>2, FlagSet, Tree DEF Painter, Inputs, Worker, inputVars, dspVars, workVars
<1>4. Top' = Top /\ shown = [p \in Part |-> shown[p]]
  BY <1>1, <1>2 DEF Top, MenusOK, Painted
<1>5. Painted' /\ smeared' \in SUBSET Part
  <2>1. CASE flag = Clear
    <3>1. shown' = [p \in Part |-> Blank] /\ smeared' = {}
      BY <2>1, FlagSet DEF Paint
    <3>2. Part \subseteq flags
      BY <1>1, <1>2, <2>1 DEF MenusOK, Painted
    <3>3. QED
      BY <1>2, <3>1, <3>2, FlagSet DEF Painted
  <2>2. CASE flag = Header
    <3>1. /\ shown' = [shown EXCEPT ![Header] = [node |-> Top.node, pos |-> 0]]
          /\ smeared' = smeared \ {Header}
      BY <2>2, FlagSet DEF Paint
    <3>2. shown' = [p \in Part |-> shown'[p]]
      BY <1>4, <3>1
    <3>3. shown'[Header].node = Top.node
      BY <1>4, <3>1, FlagSet
    <3>4. shown'[Page] = shown[Page]
      BY <1>4, <3>1, FlagSet
    <3>5. QED
      BY <1>1, <1>2, <1>4, <2>2, <3>1, <3>2, <3>3, <3>4, FlagSet DEF Painted, MenusOK
  <2>3. CASE flag = Page
    <3>1. \/ /\ shown' = [shown EXCEPT ![Page] = [node |-> head, pos |-> Top.pos]]
             /\ smeared' = smeared \ {Page}
          \/ /\ shown' = [shown EXCEPT ![Page] = [node |-> head, pos |-> Top.pos],
                                      ![Header] = Blank]
             /\ smeared' = {Header}
      BY <2>3, FlagSet DEF Paint
    <3>2. shown' = [p \in Part |-> shown'[p]]
      BY <1>4, <3>1
    <3>3. shown'[Page].node = head /\ shown'[Page].pos = Top.pos
      BY <1>4, <3>1, FlagSet
    <3>4. /\ Header \in smeared' \/ shown'[Header] = shown[Header]
          /\ Header \in smeared => Header \in smeared'
          /\ smeared' \in SUBSET Part
      BY <1>1, <1>4, <3>1, FlagSet DEF MenusOK
    <3>5. QED
      BY <1>1, <1>2, <1>4, <2>3, <3>2, <3>3, <3>4, FlagSet DEF Painted, MenusOK
  <2>4. QED
    BY <1>1, <2>1, <2>2, <2>3, FlagSet DEF Painter
<1>6. MenusOK'
  BY <1>1, <1>2, <1>5 DEF MenusOK, workVars
<1>7. QED
  BY <1>3, <1>6, WholeAfter

LEMMA CallLoadKeeps ==
  ASSUME Inv, CallLoad
  PROVE  Inv'
<1>1. MenusOK /\ Inputs /\ Painter /\ Worker
  BY Parts
<1>2. UNCHANGED <<menuVars, inputVars, paintVars>>
  BY DEF CallLoad
<1>3. Worker'
  BY <1>1 DEF CallLoad, WorkerAt, Return, Worker
<1>4. Inputs' /\ Painter'
  BY <1>1, <1>2 DEF CallLoad, Return, Inputs, Painter, inputVars, dspVars, paintVars
<1>5. OnParams(stack) => inst' = "live" \/ rash \/ wpc' = "free"
  BY <1>1 DEF CallLoad, WorkerAt, Worker, MenusOK
<1>6. MenusOK'
  BY <1>1, <1>2, <1>5 DEF MenusOK, Painted, Top, menuVars, screenVars, paintVars
<1>7. QED
  BY <1>3, <1>4, <1>6, WholeAfter

LEMMA LoadElfKeeps ==
  ASSUME Inv, LoadElf
  PROVE  Inv'
<1>1. MenusOK /\ Inputs /\ Painter /\ Worker
  BY Parts
<1>2. UNCHANGED <<menuVars, inputVars, paintVars>>
  BY DEF LoadElf
<1>3. Worker'
  BY <1>1 DEF LoadElf, WorkerAt, Return, Worker
<1>4. Inputs' /\ Painter'
  BY <1>1, <1>2 DEF LoadElf, Return, Inputs, Painter, inputVars, dspVars, paintVars
<1>5. OnParams(stack) => inst' = "live" \/ rash \/ wpc' = "free"
  BY <1>1 DEF LoadElf, WorkerAt, Worker, MenusOK
<1>6. MenusOK'
  BY <1>1, <1>2, <1>5 DEF MenusOK, Painted, Top, menuVars, screenVars, paintVars
<1>7. QED
  BY <1>3, <1>4, <1>6, WholeAfter

LEMMA TxPatchListKeeps ==
  ASSUME Inv, TxPatchList
  PROVE  Inv'
<1>1. MenusOK /\ Inputs /\ Painter /\ Worker
  BY Parts
<1>2. UNCHANGED <<menuVars, inputVars, paintVars>>
  BY DEF TxPatchList
<1>3. Worker'
  BY <1>1 DEF TxPatchList, WorkerAt, Return, Worker
<1>4. Inputs' /\ Painter'
  BY <1>1, <1>2 DEF TxPatchList, Return, Inputs, Painter, inputVars, dspVars, paintVars
<1>5. OnParams(stack) => inst' = "live" \/ rash \/ wpc' = "free"
  BY <1>1 DEF TxPatchList, WorkerAt, Worker, MenusOK
<1>6. MenusOK'
  BY <1>1, <1>2, <1>5 DEF MenusOK, Painted, Top, menuVars, screenVars, paintVars
<1>7. QED
  BY <1>3, <1>4, <1>6, WholeAfter

LEMMA StopRequestKeeps ==
  ASSUME Inv, StopRequest
  PROVE  Inv'
<1>1. MenusOK /\ Inputs /\ Painter /\ Worker
  BY Parts
<1>2. UNCHANGED <<menuVars, inputVars, paintVars>>
  BY DEF StopRequest
<1>3. Worker'
  <2>1. calls' \in 0 .. MaxCalls
    BY <1>1 DEF StopRequest, Worker
  <2>2. zero' \in BOOLEAN
    BY <1>1 DEF StopRequest, Worker
  <2>3. ask' = TRUE /\ wpc' = "poll" /\ UNCHANGED <<run0, inst>>
    BY DEF StopRequest, WorkerAt
  <2>4. QED
    BY <1>1, <2>1, <2>2, <2>3 DEF Worker
<1>4. Inputs' /\ Painter'
  BY <1>1, <1>2 DEF StopRequest, Return, Inputs, Painter, inputVars, dspVars, paintVars
<1>5. OnParams(stack) => inst' = "live" \/ rash \/ wpc' = "free"
  BY <1>1 DEF StopRequest, WorkerAt, Worker, MenusOK
<1>6. MenusOK'
  BY <1>1, <1>2, <1>5 DEF MenusOK, Painted, Top, menuVars, screenVars, paintVars
<1>7. QED
  BY <1>3, <1>4, <1>6, WholeAfter

LEMMA DspCycleKeeps ==
  ASSUME Inv, DspCycle
  PROVE  Inv'
<1>1. MenusOK /\ Inputs /\ Painter /\ Worker
  BY Parts
<1>2. UNCHANGED <<menuVars, inputVars, paintVars>>
  BY DEF DspCycle
<1>3. Worker'
  BY <1>1 DEF DspCycle, WorkerAt, Return, Worker
<1>4. Inputs' /\ Painter'
  BY <1>1, <1>2 DEF DspCycle, Return, Inputs, Painter, inputVars, dspVars, paintVars
<1>5. OnParams(stack) => inst' = "live" \/ rash \/ wpc' = "free"
  BY <1>1 DEF DspCycle, WorkerAt, Worker, MenusOK
<1>6. MenusOK'
  BY <1>1, <1>2, <1>5 DEF MenusOK, Painted, Top, menuVars, screenVars, paintVars
<1>7. QED
  BY <1>3, <1>4, <1>6, WholeAfter

LEMMA ResetKeeps ==
  ASSUME Inv, Reset
  PROVE  Inv'
<1>1. MenusOK /\ Inputs /\ Painter /\ Worker
  BY Parts
<1>2. UNCHANGED <<menuVars, inputVars, paintVars>>
  BY DEF Reset
<1>3. Worker'
  BY <1>1 DEF Reset, WorkerAt, Return, Worker
<1>4. Inputs' /\ Painter'
  BY <1>1, <1>2 DEF Reset, Return, Inputs, Painter, inputVars, dspVars, paintVars
<1>5. OnParams(stack) => inst' = "live" \/ rash \/ wpc' = "free"
  BY <1>1 DEF Reset, WorkerAt, Worker, MenusOK
<1>6. MenusOK'
  BY <1>1, <1>2, <1>5 DEF MenusOK, Painted, Top, menuVars, screenVars, paintVars
<1>7. QED
  BY <1>3, <1>4, <1>6, WholeAfter

LEMMA InitInstanceKeeps ==
  ASSUME Inv, InitInstance
  PROVE  Inv'
<1>1. MenusOK /\ Inputs /\ Painter /\ Worker
  BY Parts
<1>2. UNCHANGED <<menuVars, inputVars, paintVars>>
  BY DEF InitInstance
<1>3. Worker'
  BY <1>1 DEF InitInstance, WorkerAt, Return, Worker
<1>4. Inputs' /\ Painter'
  BY <1>1, <1>2 DEF InitInstance, Return, Inputs, Painter, inputVars, dspVars, paintVars
<1>5. OnParams(stack) => inst' = "live" \/ rash \/ wpc' = "free"
  BY <1>1 DEF InitInstance, WorkerAt, Worker, MenusOK
<1>6. MenusOK'
  BY <1>1, <1>2, <1>5 DEF MenusOK, Painted, Top, menuVars, screenVars, paintVars
<1>7. QED
  BY <1>3, <1>4, <1>6, WholeAfter

LEMMA StopPollKeeps ==
  ASSUME Inv, StopPoll
  PROVE  Inv'
<1>1. MenusOK /\ Inputs /\ Painter /\ Worker
  BY Parts
<1>2. UNCHANGED <<menuVars, inputVars, paintVars>>
  BY DEF StopPoll
<1>3. Worker'
  BY <1>1 DEF StopPoll, WorkerAt, Return, Worker
<1>4. Inputs' /\ Painter'
  BY <1>1, <1>2 DEF StopPoll, Return, Inputs, Painter, inputVars, dspVars, paintVars
<1>5. OnParams(stack) => inst' = "live" \/ rash \/ wpc' = "free"
  BY <1>1 DEF StopPoll, WorkerAt, Worker, MenusOK
<1>6. MenusOK'
  BY <1>1, <1>2, <1>5 DEF MenusOK, Painted, Top, menuVars, screenVars, paintVars
<1>7. QED
  BY <1>3, <1>4, <1>6, WholeAfter

LEMMA CreateInstanceKeeps ==
  ASSUME Inv, CreateInstance
  PROVE  Inv'
<1>1. MenusOK /\ Inputs /\ Painter /\ Worker
  BY Parts
<1>2. UNCHANGED <<inputVars, paintVars>> /\ GoHome
  BY DEF CreateInstance
<1>3. Worker'
  <2>1. UNCHANGED <<ask, run0, calls>>
    BY DEF CreateInstance
  <2>2. CASE WorkerAt("instance", "init")
    <3>1. wpc' = "init" /\ zero' = zero /\ inst' = IF zero THEN "raw" ELSE inst
      BY <2>2 DEF CreateInstance, WorkerAt
    <3>2. QED
      BY <1>1, <2>1, <3>1 DEF Worker
  <2>3. CASE WorkerAt("instance", "idle")
    <3>1. wpc' = "idle" /\ zero' = FALSE /\ inst' \in {inst, "null"}
      BY <2>3 DEF CreateInstance, WorkerAt, Return
    <3>2. QED
      BY <1>1, <2>1, <3>1 DEF Worker
  <2>4. QED
    BY <2>2, <2>3 DEF CreateInstance
<1>4. Inputs' /\ Painter'
  BY <1>1, <1>2 DEF CreateInstance, Return, Inputs, Painter, inputVars, dspVars, paintVars
<1>5. MenusOK'
  BY <1>1, <1>2, GoHomeKeeps
<1>6. QED
  BY <1>3, <1>4, <1>5, WholeAfter

LEMMA DeinitKeeps ==
  ASSUME Inv, Deinit
  PROVE  Inv'
<1>1. MenusOK /\ Inputs /\ Painter /\ Worker
  BY Parts
<1>2. UNCHANGED <<inputVars, paintVars>> /\ GoHome
  BY DEF Deinit
<1>3. Worker'
  BY <1>1 DEF Deinit, WorkerAt, Return, Worker
<1>4. Inputs' /\ Painter'
  BY <1>1, <1>2 DEF Deinit, Return, Inputs, Painter, inputVars, dspVars, paintVars
<1>5. MenusOK'
  BY <1>1, <1>2, GoHomeKeeps
<1>6. QED
  BY <1>3, <1>4, <1>5, WholeAfter

LEMMA AllocPatchKeeps ==
  ASSUME Inv, AllocPatch
  PROVE  Inv'
<1>1. MenusOK /\ Inputs /\ Painter /\ Worker
  BY Parts
<1>2. UNCHANGED <<inputVars, paintVars>>
  BY DEF AllocPatch
<1>3. Worker'
  BY <1>1 DEF AllocPatch, WorkerAt, Return, Worker
<1>4. Inputs' /\ Painter'
  BY <1>1, <1>2 DEF AllocPatch, Return, Inputs, Painter, inputVars, dspVars, paintVars
<1>5. CASE GoHome
  <2>1. MenusOK'
    BY <1>1, <1>2, <1>5, GoHomeKeeps
  <2>2. QED
    BY <1>3, <1>4, <2>1, WholeAfter
<1>6. CASE UNCHANGED menuVars
  <2>1. OnParams(stack) => inst' = "live" \/ rash \/ wpc' = "free"
    BY <1>1 DEF AllocPatch, WorkerAt, Worker, MenusOK
  <2>2. MenusOK'
    BY <1>1, <1>2, <1>6, <2>1 DEF MenusOK, Painted, Top, menuVars, screenVars, paintVars
  <2>3. QED
    BY <1>3, <1>4, <2>2, WholeAfter
<1>7. QED
  BY <1>5, <1>6 DEF AllocPatch

---------------------------------------------------------------------------
(* The theorems.                                                           *)

LEMMA InitInv == Init => Inv
<1> SUFFICES ASSUME Init PROVE Inv
  OBVIOUS
<1>1. Inputs /\ Painter /\ Worker
  <2>1. Inputs
    <3>1. evt.key = "none" /\ turn = 0 /\ turns = 0 /\ queued = 0 /\ btn = None
      BY DEF Init, None
    <3>2. queued \in 0 .. MaxEvents /\ turns \in 0 .. MaxTurns /\ turn \in -turns .. turns
      BY <3>1
    <3>3. done = TRUE /\ slipped = FALSE /\ dsp = "poll"
      BY DEF Init
    <3>4. QED
      BY <3>1, <3>2, <3>3 DEF Inputs
  <2>2. Painter
    BY FlagSet, Tree DEF Init, Painter
  <2>3. Worker
    <3>1. calls \in 0 .. MaxCalls
      BY DEF Init
    <3>2. wpc = "idle" /\ inst = "null" /\ zero = FALSE /\ ask = FALSE /\ run0 = FALSE
      BY DEF Init
    <3>3. QED
      BY <3>1, <3>2 DEF Worker
  <2>4. QED
    BY <2>1, <2>2, <2>3
<1>2. stack = <<[node |-> "root", pos |-> 0]>> /\ [node |-> "root", pos |-> 0] \in Frame
  BY Tree DEF Init, Frame
<1>3. StackOK(stack) /\ ~ OnParams(stack)
  <2> DEFINE f == [node |-> "root", pos |-> 0]
  <2>1. OnEntry(f) /\ f.node = "root"
    BY Tree DEF OnEntry, IsList
  <2> HIDE DEF f
  <2>2. stack = <<f>> /\ f \in Frame
    BY <1>2 DEF f
  <2>3. stack \in Seq(Frame) /\ Len(stack) = 1 /\ \A i \in DOMAIN stack : stack[i] = f
    BY <2>2
  <2>4. stack[1] = f
    BY <2>2
  <2>5. QED
    BY <2>1, <2>3, <2>4 DEF StackOK, OnParams
<1>4. Painted
  BY FlagSet DEF Init, Painted
<1>5. MenusOK
  BY <1>3, <1>4 DEF Init, MenusOK
<1>6. QED
  BY <1>1, <1>5, Whole

LEMMA StutterKeeps ==
  ASSUME Inv, UNCHANGED vars
  PROVE  Inv'
<1>1. MenusOK /\ Inputs /\ Painter /\ Worker
  BY Parts
<1>2. MenusOK' /\ Inputs' /\ Painter' /\ Worker'
  BY <1>1, MenusStay DEF vars, Inputs, Painter, Worker, inputVars, dspVars, paintVars, workVars
<1>3. QED
  BY <1>2, WholeAfter

LEMMA NextKeeps == Inv /\ [Next]_vars => Inv'
<1> SUFFICES ASSUME Inv, [Next]_vars PROVE Inv'
  OBVIOUS
<1>1. CASE Input
  BY <1>1, InputKeeps
<1>2. CASE Poll
  BY <1>2, GetEventKeeps, ProcessKeeps, ProcessLongKeeps, CardReadKeeps, FormatDoneKeeps DEF Poll
<1>3. CASE Ui2
  BY <1>3, TakeFlagKeeps, PaintKeeps DEF Ui2
<1>4. CASE Work \/ Host
  BY <1>4, AllocPatchKeeps, LoadElfKeeps, CreateInstanceKeeps, InitInstanceKeeps, StopPollKeeps,
     DeinitKeeps, ResetKeeps, TxPatchListKeeps DEF Work, Host
<1>5. CASE CallLoad \/ StopRequest \/ DspCycle
  BY <1>5, CallLoadKeeps, StopRequestKeeps, DspCycleKeeps
<1>6. CASE UNCHANGED vars
  BY <1>6, StutterKeeps
<1>7. QED
  BY <1>1, <1>2, <1>3, <1>4, <1>5, <1>6 DEF Next

\* Inv holds in every reachable state of the menus.
THEOREM InvHolds == Spec => []Inv
<1>1. Inv /\ [][Next]_vars => []Inv
  BY NextKeeps, PTL
<1>2. QED
  BY InitInv, <1>1, PTL DEF Spec

\* Every variable stays in its range: no handler of ui.c or ui_nodes reads or
\* writes outside menu_stack, and no cursor leaves its list.
THEOREM TypeCorrect == Spec => []TypeOK
<1>1. Inv => TypeOK
  BY DEF Inv
<1>2. QED
  BY InvHolds, <1>1, PTL

\* Once ThreadUI2 (ui.c) has handled every dirty flag, the screen shows the
\* node on top of the stack and its cursor, but for the result of a format and
\* for the parts that the Load page (loadpatch_menu.c) drew over.
THEOREM ScreenFollowsHolds == Spec => []ScreenFollows
<1>1. Inv => ScreenFollows
  <2> SUFFICES ASSUME Inv, flags = {}, ui2 = "wait", Top.node # "result"
               PROVE  /\ \A p \in Part \ smeared : shown[p].node = Top.node
                      /\ Page \notin smeared => shown[Page].pos = Top.pos
    BY DEF ScreenFollows
  <2>1. /\ Header \in smeared \/ shown[Header].node = Top.node
        /\ Page \in smeared \/ (shown[Page].node = Top.node /\ shown[Page].pos = Top.pos)
    BY DEF Inv, Painted
  <2>2. QED
    BY <2>1, FlagSet
<1>2. QED
  BY InvHolds, <1>1, PTL

\* The Params page entered with a live patch in the first slot (ui_nodes) is
\* left before the worker (patch.c) has taken that patch's menus away.
THEOREM ParamsLiveHolds == Spec => []ParamsLive
<1>1. Inv => ParamsLive
  BY DEF Inv, Params, ParamsLive, OnParams
<1>2. QED
  BY InvHolds, <1>1, PTL

---------------------------------------------------------------------------
(* Button events, and the waits of the DSP thread.                         *)

\* The last button event waits to be polled until it is handled, unless an
\* interrupt queued it inside getEvent.
ButtonKept == ~ done => slipped \/ (btn # None /\ btn.no = queued)

\* What getEvent has read is what it clears, if nothing slipped in between.
ClearsWhatItRead == dsp = "got" /\ ~ slipped => btn = IF evt.no > 0 THEN evt ELSE None

\* A handler that has mtxWorker waits for a load, and for how much of it.
Rank == [alloc |-> 5, elf |-> 4, instance |-> 3, init |-> 2, tx |-> 1]
JoinsALoad == dsp = "join" => wpc \in DOMAIN Rank

\* The worker is about to take a step that waits for nobody outside the board:
\* in a stop it may wait for the DSP thread, but not any longer.
WorkerRuns == wpc \in {"alloc", "instance", "init", "free", "reset"} \/ (wpc = "poll" /\ ~ ask)

\* What a DSP thread that is inside a menu handler waits for: the card, its
\* turn on mtxWorker, a worker that is on its way, the host that reads what
\* this worker logs and sends -- or nothing that will ever happen.
HandlerWaits ==
  dsp \notin {"poll", "got"} =>
    \/ dsp \in {"card", "format"}
    \/ dsp = "lock" /\ wpc = "idle"
    \/ dsp \in {"lock", "join"} /\ WorkerRuns
    \/ dsp \in {"lock", "join"} /\ wpc \in {"elf", "tx"}
    \/ DspDeadlocked
    \/ dsp = "write"

\* A step leaves a joined load where it is, takes it further or ends it, and
\* with it the wait of the handler.
JoinAdvances ==
  dsp = "join" =>
    \/ UNCHANGED <<dsp, wpc>>
    \/ dsp' = "join" /\ wpc' \in DOMAIN Rank /\ Rank[wpc'] < Rank[wpc]
    \/ dsp' = "poll" /\ wpc' = "idle"

\* The two traps have no exit.
Trapped == DspDeadlocked \/ dsp = "write"

LEMMA StepKeepsButton ==
  ASSUME Inv, ButtonKept, ClearsWhatItRead, [Next]_vars
  PROVE  ButtonKept' /\ ClearsWhatItRead'
<1>1. None.no = 0
  BY DEF None
<1>2. btn # None => btn.no \in Nat /\ btn.no > 0 /\ btn.no <= queued
  BY DEF Inv, TypeOK
<1>3. queued \in Nat
  BY DEF Inv, TypeOK
<1>4. ASSUME NEW k \in Button, QueueButton(k)
      PROVE  ButtonKept' /\ ClearsWhatItRead'
  <2>1. btn' = [key |-> k, no |-> queued'] /\ queued' = queued + 1
        /\ slipped' = (dsp = "got") /\ dsp' = dsp
    BY <1>4 DEF QueueButton
  <2>2. btn'.no = queued' /\ btn' # None
    BY <1>1, <1>3, <2>1
  <2>3. QED
    BY <2>1, <2>2 DEF ButtonKept, ClearsWhatItRead
<1>5. CASE GetEvent
  <2>1. UNCHANGED <<queued, btn, slipped, done>>
    BY <1>5 DEF GetEvent, inputVars
  <2>2. CASE btn # None
    <3>1. evt' = btn
      BY <1>5, <2>2 DEF GetEvent
    <3>2. evt'.no > 0
      BY <1>2, <2>2, <3>1
    <3>3. QED
      BY <2>1, <3>1, <3>2 DEF ButtonKept, ClearsWhatItRead
  <2>3. CASE btn = None
    <3>1. evt'.no = 0
      BY <1>5, <2>3 DEF GetEvent
    <3>2. QED
      BY <2>1, <2>3, <3>1 DEF ButtonKept, ClearsWhatItRead
  <2>4. QED
    BY <2>2, <2>3
<1>6. CASE Process \/ ProcessLong
  <2>1. ClearEvent /\ dsp = "got" /\ dsp' # "got"
    BY <1>6 DEF Process, ProcessLong, ClearEvent
  <2>2. ClearsWhatItRead'
    BY <2>1 DEF ClearsWhatItRead
  <2>3. /\ btn' = (IF evt.no > 0 THEN None ELSE btn) /\ done' = (done \/ evt.no = queued)
        /\ queued' = queued /\ slipped' = (slipped /\ ~ done')
    BY <2>1 DEF ClearEvent
  <2>4. (slipped => slipped' \/ done') /\ (done \/ evt.no = queued => done')
    BY ONLY <2>3, Zenon
  <2>5. ButtonKept'
    <3>1. CASE slipped \/ done
      BY ONLY <2>4, <3>1, Zenon DEF ButtonKept
    <3>2. CASE ~ slipped /\ ~ done
      <4>1. btn # None /\ btn.no = queued
        BY <3>2 DEF ButtonKept
      <4>2. evt.no = queued
        BY <1>1, <2>1, <3>2, <4>1 DEF ClearsWhatItRead
      <4>3. QED
        BY ONLY <2>4, <4>2, Zenon DEF ButtonKept
    <3>3. QED
      BY ONLY <3>1, <3>2, Zenon
  <2>6. QED
    BY <2>2, <2>5
<1>7. ASSUME UNCHANGED <<queued, btn, slipped, evt, done>>, dsp' = "got" => dsp = "got"
      PROVE  ButtonKept' /\ ClearsWhatItRead'
  BY <1>7 DEF ButtonKept, ClearsWhatItRead
<1>8. CASE CardRead \/ FormatDone \/ CallLoad \/ StopRequest \/ DspCycle \/ UNCHANGED vars
           \/ \E d \in {-1, 1} : QueueTurn(d)
  <2>1. UNCHANGED <<queued, btn, slipped, evt, done>> /\ (dsp' = "got" => dsp = "got")
    BY <1>8 DEF CardRead, FormatDone, CallLoad, StopRequest, DspCycle, QueueTurn, vars, inputVars, dspVars
  <2>2. QED
    BY <1>7, <2>1
<1>9. CASE Ui2
  <2>1. UNCHANGED <<queued, btn, slipped, evt, done>> /\ (dsp' = "got" => dsp = "got")
    BY <1>9 DEF Ui2, TakeFlag, Paint, inputVars, dspVars
  <2>2. QED
    BY <1>7, <2>1
<1>10. CASE Work \/ Host
  <2>1. UNCHANGED <<queued, btn, slipped, evt, done>> /\ (dsp' = "got" => dsp = "got")
    BY <1>10 DEF Work, Host, AllocPatch, LoadElf, CreateInstance, InitInstance, TxPatchList,
                 StopPoll, Deinit, Reset, Return, inputVars, dspVars
  <2>2. QED
    BY <1>7, <2>1
<1>11. QED
  BY <1>4, <1>5, <1>6, <1>8, <1>9, <1>10 DEF Next, Input, Poll

\* Whatever the menus, the worker and the encoder do meanwhile, the last
\* button event (ui.c) is still there to be polled until it has been handled:
\* only one that an interrupt queues between the read of btn_event and its
\* clearing is lost.
THEOREM ButtonKeptHolds == Spec => []ButtonKept
<1>1. Init => ButtonKept /\ ClearsWhatItRead
  BY DEF Init, ButtonKept, ClearsWhatItRead
<1>2. Inv /\ ButtonKept /\ ClearsWhatItRead /\ [Next]_vars => ButtonKept' /\ ClearsWhatItRead'
  BY StepKeepsButton
<1>3. QED
  BY InvHolds, <1>1, <1>2, PTL DEF Spec

LEMMA JoinSteps ==
  ASSUME JoinsALoad, [Next]_vars
  PROVE  JoinsALoad' /\ JoinAdvances
<1>1. CASE Input \/ Ui2 \/ DspCycle \/ UNCHANGED vars
  <2>1. UNCHANGED <<dsp, wpc>>
    BY <1>1 DEF Input, QueueButton, QueueTurn, Ui2, TakeFlag, Paint, DspCycle, vars,
                dspVars, workVars
  <2>2. QED
    BY <2>1 DEF JoinsALoad, JoinAdvances
<1>2. CASE Poll
  <2>1. dsp # "join" /\ dsp' # "join"
    BY <1>2 DEF Poll, GetEvent, Process, ProcessLong, ClearEvent, CardRead, FormatDone
  <2>2. QED
    BY <2>1 DEF JoinsALoad, JoinAdvances
<1>3. CASE CallLoad \/ StopRequest
  <2>1. /\ dsp # "join"
        /\ dsp' = "join" => wpc' = "alloc"
    BY <1>3 DEF CallLoad, StopRequest, WorkerAt, dspVars, JoinsALoad, Rank
  <2>2. QED
    BY <2>1 DEF JoinsALoad, JoinAdvances, Rank
<1>4. CASE Work \/ Host
  <2>1. CASE dsp # "join"
    <3>1. dsp' # "join"
      BY <1>4, <2>1 DEF Work, Host, AllocPatch, LoadElf, CreateInstance, InitInstance,
                        TxPatchList, StopPoll, Deinit, Reset, Return, dspVars
    <3>2. QED
      BY <2>1, <3>1 DEF JoinsALoad, JoinAdvances
  <2>2. CASE dsp = "join"
    <3>1. CASE StopPoll \/ Deinit \/ Reset
      BY <2>2, <3>1 DEF StopPoll, Deinit, Reset, WorkerAt, JoinsALoad, Rank
    <3>2. CASE AllocPatch \/ LoadElf \/ CreateInstance \/ InitInstance \/ TxPatchList
      <4>1. \/ dsp' = "poll" /\ wpc' = "idle"
            \/ /\ dsp' = "join"
               /\ \/ wpc = "alloc" /\ wpc' = "elf"
                  \/ wpc = "elf" /\ wpc' = "instance"
                  \/ wpc = "instance" /\ wpc' = "init"
                  \/ wpc = "init" /\ wpc' = "tx"
        BY <2>2, <3>2 DEF AllocPatch, LoadElf, CreateInstance, InitInstance, TxPatchList,
                          WorkerAt, Return, dspVars
      <4>2. QED
        BY <4>1 DEF JoinsALoad, JoinAdvances, Rank
    <3>3. QED
      BY <1>4, <3>1, <3>2 DEF Work, Host
  <2>3. QED
    BY <2>1, <2>2
<1>5. QED
  BY <1>1, <1>2, <1>3, <1>4 DEF Next

LEMMA TrapsLast ==
  ASSUME [Next]_vars, Trapped
  PROVE  Trapped'
<1>1. (dsp = "lock" /\ wpc = "poll" /\ ask) \/ dsp = "write"
  BY DEF Trapped, DspDeadlocked
<1>2. ~ Poll /\ ~ CallLoad /\ ~ StopRequest /\ ~ DspCycle
  BY <1>1 DEF Poll, GetEvent, Process, ProcessLong, ClearEvent, CardRead, FormatDone, CallLoad,
              StopRequest, DspCycle, WorkerAt, DspWaits
<1>3. ~ Work /\ ~ Host
  BY <1>1 DEF Work, Host, AllocPatch, LoadElf, CreateInstance, InitInstance, TxPatchList,
              StopPoll, Deinit, Reset, WorkerAt, DspWaits
<1>4. Input \/ Ui2 \/ UNCHANGED vars
  BY <1>2, <1>3 DEF Next
<1>5. UNCHANGED <<dsp, wpc, ask>>
  BY <1>4 DEF Input, QueueButton, QueueTurn, Ui2, TakeFlag, Paint, vars, dspVars, workVars
<1>6. QED
  BY <1>5 DEF Trapped, DspDeadlocked

\* Whenever the DSP thread is inside a menu handler (loadpatch_menu.c,
\* sdcard_menu.c), what it waits for is one of those that HandlerWaits names;
\* the load it has joined (patch.c) comes nearer to its end with each step of
\* the worker; and of the rest only two last for ever: the deadlock with a
\* stop, and Write.
THEOREM HandlerWaitsHolds ==
  Spec => []HandlerWaits /\ [][JoinAdvances]_vars /\ [][Trapped => Trapped']_vars
<1>1. Init => JoinsALoad
  BY DEF Init, JoinsALoad
<1>2. JoinsALoad /\ [Next]_vars => JoinsALoad' /\ JoinAdvances
  BY JoinSteps
<1>3. [Next]_vars => [Trapped => Trapped']_vars
  BY TrapsLast
<1>4. Inv /\ JoinsALoad => HandlerWaits
  <2> SUFFICES ASSUME Inv, JoinsALoad, dsp \notin {"poll", "got"} PROVE HandlerWaits
    BY DEF HandlerWaits
  <2>1. dsp \in {"card", "lock", "join", "format", "write"} /\ ask \in BOOLEAN
        /\ wpc \in {"idle", "alloc", "elf", "instance", "init", "tx", "poll", "free", "reset"}
    BY DEF Inv, TypeOK
  <2>2. dsp = "join" => wpc \in {"alloc", "elf", "instance", "init", "tx"}
    BY DEF JoinsALoad, Rank
  <2>3. QED
    BY <2>1, <2>2 DEF HandlerWaits, WorkerRuns, DspDeadlocked
<1>5. QED
  BY InvHolds, <1>1, <1>2, <1>3, <1>4, PTL DEF Spec

===========================================================================
