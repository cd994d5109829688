\* The file is saved again while a retry is building from the old contents.
SPECIFICATION Spec
CONSTANTS
  r1 = r1
  r2 = r2
  Defaults = Defaults
  Regex = Regex
  Full = Full
  NoDetector = NoDetector
  NoRequest = NoRequest
  Requests <- MCRequests
  Configs <- MCConfigs
  EmptyConfig = Defaults
  MaxMtime = 5
SYMMETRY Symmetry
INVARIANT ResavingRebuilds
