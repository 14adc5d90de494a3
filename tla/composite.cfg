SPECIFICATION Spec
CONSTANTS
  sat = sat
  Own = Own
  Empty = Empty
  Callers = {c1, c2}
  Namespaces = {Own, sat}
  MaxVersion = 2
  Timelines <- Changes
  Garbage = Garbage
  Blank = Blank
  Nil = Nil
SYMMETRY Interchangeable
INVARIANTS TypeOK AdmittedWasMember AnsweredVerdictIsFresh
PROPERTIES StepsBackOnlyUnderOverlap KeepsThePromise
