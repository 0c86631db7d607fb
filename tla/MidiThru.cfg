SPECIFICATION Spec
CONSTANT Byte <- EachKind
INVARIANTS
  EncoderSendsWhole
