----------------------------- MODULE MidiQueue -----------------------------
(***************************************************************************)
(* What a MIDI buffer of firmware/midi_buffer.h promises: a queue of at    *)
(* most Capacity messages with a put that never blocks and discards its    *)
(* message when the queue is full, and a get that never blocks and takes   *)
(* the oldest message.  A get takes the message out of the queue first     *)
(* (Take) and returns it later (Deliver).                                  *)
(***************************************************************************)
EXTENDS Naturals, Sequences

CONSTANTS
  Capacity,                \* how many messages the queue holds
  Producers, Consumer,     \* who calls put, who calls get
  Message, NoMessage

VARIABLES
  queue,                   \* the messages put and not yet taken
  hand,                    \* the message a get has taken and not yet returned
  got,                     \* the message the last successful get returned
  answer                   \* what the last put or get of each process returned

vars == <<queue, hand, got, answer>>

Init ==
  /\ queue = <<>>
  /\ hand = NoMessage
  /\ got = NoMessage
  /\ answer = [p \in Producers \cup {Consumer} |-> "none"]

Returns(p, r) == answer' = [answer EXCEPT ![p] = r]

Accept(p, m) ==
  /\ Len(queue) < Capacity
  /\ queue' = Append(queue, m)
  /\ Returns(p, "ok")
  /\ UNCHANGED <<hand, got>>

Discard(p) ==
  /\ Len(queue) = Capacity
  /\ Returns(p, "timeout")
  /\ UNCHANGED <<queue, hand, got>>

Take ==
  /\ hand = NoMessage
  /\ queue # <<>>
  /\ hand' = Head(queue)
  /\ queue' = Tail(queue)
  /\ UNCHANGED <<got, answer>>

Deliver ==
  /\ hand # NoMessage
  /\ got' = hand
  /\ hand' = NoMessage
  /\ Returns(Consumer, "ok")
  /\ UNCHANGED queue

FindEmpty ==
  /\ queue = <<>>
  /\ hand = NoMessage
  /\ Returns(Consumer, "timeout")
  /\ UNCHANGED <<queue, hand, got>>

Next ==
  \/ \E p \in Producers : Discard(p) \/ \E m \in Message : Accept(p, m)
  \/ Take \/ Deliver \/ FindEmpty

Spec == Init /\ [][Next]_vars

===========================================================================
