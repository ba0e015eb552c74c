\* A limit of one running task.
SPECIFICATION Spec
CONSTANTS
  t1 = t1
  t2 = t2
  c1 = c1
  c2 = c2
  w1 = w1
  w2 = w2
  Tasks = {t1, t2}
  Filled = {t1}
  Clients = {c1}
  Workers = {w1}
  PoolQueue = 1
  Limit = 1
  Wrap = 16
  MaxOut = 1
CHECK_DEADLOCK FALSE
INVARIANT NoneCountedAtEnd
