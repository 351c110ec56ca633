SPECIFICATION MCSpec
CONSTANTS
  j1 = j1  j2 = j2
  Jobs <- MCJobs
  RunOnStart <- MCRunOnStart
  Failing <- MCFailing
  WarnAt = 2
  MaxFails = 3
  Kinds = {"dataset", "prg", "mapping"}
  Rejected = {1}
  EmptyBody = {2}
  None = None
  MaxVersion = 3
  MaxFaults = 2
INVARIANTS RegistryIsTrue AnnouncedIffLong SkipIsSound
PROPERTIES ShutdownReachesAll CatchesUp
CHECK_DEADLOCK FALSE
