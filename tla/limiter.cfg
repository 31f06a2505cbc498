SPECIFICATION Spec
CONSTANTS
  Callers = {c1, c2}
  Limit = 2
  Window = 3
  Late = 1
  Early = 1
  MaxTime = 7
INVARIANTS
  TypeOK
  RateBounded
PROPERTIES
  RefusedOnlyWhenFull
