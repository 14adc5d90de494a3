SPECIFICATION FairSpec
CONSTANTS
  t1 = t1
  t2 = t2
  Callers = {c1}
  Tenants = {t1, t2}
  MaxVersion = 2
  Timelines <- TwoChanges
  Cleaner = Cleaner
  Garbage = Garbage
  Blank = Blank
  Nil = Nil
PROPERTIES DeletedTenantForgotten
