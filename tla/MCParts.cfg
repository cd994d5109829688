CONSTANTS
  Absent=Absent
  Torn=Torn
  NoPage=NoPage
  Switches = {tray, api}
  Pages = {tab}
  MaxObjects = 3
  MaxSaves = 2
  MaxKills = 1
  RuleNames <- MCNames
  Rule <- MCRule
  Contexts <- MCContexts
  Day = 3
  FileRules <- MCFileRules
  Evaluators = {e1}
  MaxEvaluations = 2
  MaxRemovals = 1
  Processes = {wedge, proxy}
  Terms <- MCTerms
  Prefixes <- MCPrefixes
  Derive <- MCDerive
  Numbered <- MCNumbered
  Canonical <- MCCanonical
  Numbers <- MCNumbers
  MaxTerms = 2
  MaxFaults = 1
  Urls = {corp}
  MaxEnables = 2
  MaxDisables = 2
  MaxUserChanges = 1
  MaxDeaths = 2
  Benches <- MCB
  Scans = {"s1"}
  Samples <- MCSamples
  MaxWorkers = 2
  Inputs <- MCTexts
  OtherSpans <- MCOther
  Token = Token
  MinChars = 2
  MaxChars = 7
  Overlap = 3
  MaxValue = 2
  TextFields = {1,2}
  Detectors = {1,2}
  TextLength <- MCLen
  Results <- MCResults
  Raised = Raised
  Decides <- MCDecides
  MarkLength <- MCMark
  Mark = Mark
  Tiers = {"pii", "gliner", "semantic"}
  Requests = {r1, r2}
  MaxFailures = 1
  MaxChanges = 1
  Timeout = 2
  MaxHead = 3
  Block = 5
  MaxPieces = 8
  Plain = "plain"
  RuleOf <- MCRuleOf
  Writings <- MCWritings
  MaxMessages = 2
  MaxCompletions = 2
  Generators = {c1, c2}
  Launchers = {c1}
  NoFile = NoFile
  MaxPairs = 2
  MaxMishaps = 1
  MaxLaunches = 2
  MaxDying = 1
  MaxToggles = 1
  Presets = {"minimal", "balanced", "quality"}
  NoPreset = "none"
  ModelOf <- MCModelOf
  StackKeyOf <- MCStackKeyOf
  Resolves <- MCResolves
  NoConfig = NoConfig
  Unreadable = Unreadable
  MaxSetups = 1
  MaxBreaks = 1
  Letters <- OneLetter
  Others <- OneOther
  Known <- OneToken
  Value <- ValueOf
  MAX_TOKEN_LEN = 3
  Streams = {"content", "text"}
  ChannelOf <- OwnChannel
  BareEvents = TRUE
  MaxText = 4
  MaxEvent = 2
SPECIFICATION PartsSpec
INVARIANTS
  ConfigIsSound
  EngineIsSound
  TermsAreSound
  ProxyIsSound
  WorkIsSound
  TextsAreSound
  CallsAreSound
  TiersAreSound
  CertificatesAreSound
  LaunchIsSound
  SetupIsSound
CHECK_DEADLOCK FALSE
