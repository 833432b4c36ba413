\* From reset to the console, with packets, resets and a USB host at any time.
\* Room for two shells: a working area that is not given back soon shows.
SPECIFICATION FairSpec
CONSTANT Heap = 2
INVARIANTS
  InitBeforeUse
  NoLostEdge
PROPERTIES
  ShellReturns
