--------------------------- MODULE MCMidiDecoder ---------------------------
(* MidiDecoder on two data bytes and a status byte of each kind: note on   *)
(* and off, program change, the start and the end of a dump, time code,    *)
(* song position, tune request, clock and 255.                             *)
EXTENDS MidiDecoder

EachKind == {1, 100, 144, 128, 192, 240, 241, 242, 246, 247, 248, 255}

===========================================================================
