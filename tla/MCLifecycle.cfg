\* A save and the start of another; constructions fail while something is broken.
SPECIFICATION FairSpec
CONSTANTS
  r1 = r1
  r2 = r2
  Defaults = Defaults
  Regex = Regex
  Full = Full
  NoDetector = NoDetector
  NoRequest = NoRequest
  Requests <- MCRequests
  Configs <- MCConfigs
  EmptyConfig = Defaults
  MaxMtime = 4
INVARIANTS LifecycleIsSound NothingUninspected CurrentUnlessFailed
PROPERTY Heals
