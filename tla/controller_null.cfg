SPECIFICATION Spec
CONSTANTS
  t1 = t1
  t2 = t2
  sat = sat
  svc = svc
  Own = Own
  Callers = {c1}
  Tenants = {t1, t2}
  Namespaces = {Own, sat}
  Services = {svc}
  Incoming <- MCIncoming
  Absent = Absent
  Null = Null
  Other = Other
  Empty = Empty
  NoBody = NoBody
  Unreadable = Unreadable
  NoContext = NoContext
  Nil = Nil
INVARIANTS NullClassifierIsAnswered
