SPECIFICATION Spec
CONSTANTS
  Callers = {c1, c2}
  Handlers = {h1, h2}
  Buffers = {b1, b2, b3}
  Bodies = {tenants, structure}
  FwdBodies = {database, connection}
  Nil = Nil
SYMMETRY Interchangeable
INVARIANTS TypeOK AnswerIsAggregators
PROPERTIES CallsAreRestClients
