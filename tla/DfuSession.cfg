\* An update over a lossy link, cut off at any point any number of times.
SPECIFICATION FairSession
CONSTANTS
  PAGES = 4
  WORDS = 2
  ADDRS = 5
  APP = 1
  Blocks = {0, 2, 3, 4}
  Contents <- MCContents
  StackTops <- MCStackTops
  Erased <- MCErased
  OldImage <- MCOldImage
  Image <- MCImage
  LIMIT = 2
INVARIANTS
  ManifestRunsImage
  ProgramsErased
  TornOnlyIfInterrupted
PROPERTIES
  CarriedOutOnce
  TimerSparesDownload
  UpdateEnds
