\* A port that merges two branches, joined with a plain one.
SPECIFICATION FairSpec
CONSTANTS
  merged = merged
  plain = plain
  s1 = s1
  s2 = s2
  PortOrder <- MCPortOrder
  Streams = {s1, s2}
  Length <- MCLength
  Branches <- MCBranches
  QueueSize = 1
  MaxCache = 3
  Modes <- MCModes
INVARIANT NothingLost
INVARIANT InOrder
INVARIANT AllOrNothing
INVARIANT CountIsCache
INVARIANT BoundedCache
PROPERTY Delivers
CHECK_DEADLOCK FALSE
