\* The sensor table, with keys enough to fill it and readers that keep coming.
SPECIFICATION FairSpec
CONSTANTS
  ZeroKey = z
  Keys = {z, a, b, c}
  Vals = {v0, v1}
  ZeroVal = v0
  N = 3
  TTL = 2
  NoFrame = none
INVARIANTS
  ListsRight
  Snapshot
PROPERTIES
  SilentForgotten
