SPECIFICATION Spec
CONSTANT Byte <- EachKind
INVARIANTS
  TypeOK
PROPERTIES
  ImplementsFraming
