SPECIFICATION Spec
CONSTANTS
  Threads = {t1, t2}
  Nobody = Nobody
SYMMETRY MCSymmetry
INVARIANTS
  TypeOK
  NoCircularWait
