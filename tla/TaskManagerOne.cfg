\* One client, two tasks, of which one has data.
SPECIFICATION FairSpec
CONSTANTS
  t1 = t1
  t2 = t2
  c1 = c1
  c2 = c2
  w1 = w1
  w2 = w2
  Tasks = {t1, t2}
  Filled = {t1}
  Clients = {c1}
  Workers = {w1, w2}
  PoolQueue = 1
  Limit = 2
  Wrap = 16
  MaxOut = 1
INVARIANT FedOnce
INVARIANT OverMeansReceived
PROPERTY StatusMoves
PROPERTY StopReturns
CHECK_DEADLOCK FALSE
