-------------------------- MODULE PatchLifecycle --------------------------
(***************************************************************************)
(* What the patch manager of firmware/patch.c promises about its slots,    *)
(* without threads, locks or heaps.  A slot is empty, being filled by a    *)
(* load, playing, fading (a stop was asked for, the DSP thread has not yet *)
(* let go of it) or being released.  At most one slot is in transition at  *)
(* a time, and only the DSP thread moves a slot out of "fading".           *)
(***************************************************************************)
EXTENDS Integers

CONSTANT NSlots                  \* n_patch_slots, a positive number

Slot == 0 .. NSlots - 1

VARIABLE life                    \* the stage each slot is in

Stage == {"empty", "loading", "playing", "fading", "releasing"}

InTransition(s) == life[s] \in {"loading", "fading", "releasing"}

Quiet == \A s \in Slot : ~ InTransition(s)

Becomes(s, from, to) ==
  /\ life[s] = from
  /\ life' = [life EXCEPT ![s] = to]

Init == life = [s \in Slot |-> "empty"]

\* A load takes the lowest slot that is empty.
BeginLoad(s) ==
  /\ Quiet
  /\ \A t \in Slot : t < s => life[t] # "empty"
  /\ Becomes(s, "empty", "loading")

FinishLoad(s) == Becomes(s, "loading", "playing")

FailLoad(s) == Becomes(s, "loading", "empty")

BeginStop(s) ==
  /\ Quiet
  /\ Becomes(s, "playing", "fading")

LetGo(s) == Becomes(s, "fading", "releasing")

FinishStop(s) == Becomes(s, "releasing", "empty")

Next ==
  \E s \in Slot :
    \/ BeginLoad(s) \/ FinishLoad(s) \/ FailLoad(s)
    \/ BeginStop(s) \/ LetGo(s) \/ FinishStop(s)

Spec == Init /\ [][Next]_life

===========================================================================
