SPECIFICATION Spec
CONSTANTS
  t1 = t1
  t2 = t2
  Callers = {c1, c2}
  Tenants = {t1}
  MaxVersion = 1
  Timelines <- OneChange
  Cleaner = Cleaner
  Garbage = Garbage
  Blank = Blank
  Nil = Nil
SYMMETRY Interchangeable
INVARIANTS TypeOK AdmittedWasListed DeniedWasAbsent
PROPERTIES KeepsThePromise
