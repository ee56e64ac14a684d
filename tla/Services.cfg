SPECIFICATION Spec
CONSTANTS
  MaximumBuckets = 2
  AttemptsPerWindow = 2
  Window = 2
  NoBucket = NoBucket
  Authors = {a1, a2, a3}
  Writer = a1
  Texts = {t1, t2}
  SummarySlots = 2
  ProviderReplies <- MCReplies
  NoSummary = NoSummary
  MaxInstant = 3
  Callers = {c1, c2, c3}
  NoManager = NoManager
  NoCaller = NoCaller
  BackoffMax = 2
  MaxFailures = 2
  MaxOutages = 2
  MaxCancels = 1
  CandidateProfiles <- MCProfiles
  BrokerProfiles <- MCBrokerProfiles
  Meters <- MCMeters
  GlobalRange <- MCGlobalRange
  DefaultLimits <- MCDefaultLimits
  RunJobs = {j1, j2}
  RunHandlers = {h1, h2}
  JobTtl = 1
  MaxTracked = 1
  NoRun = NoRun
  MaxRuns = 2
  MaxNow = 2
  Servers = {s1, s2}
  Browsers = {b1, b2}
  Keys = {k1}
  NoKey = NoKey
  VerificationSlots = 1
  StateLifetime = 1
  NoWindow = NoWindow
  NoCookie = NoCookie
  NoSignIn = NoSignIn
  MaxTime = 2
  MaxFlows = 2
  MaxSignInFaults = 1
  McpConfigs <- MCMcpConfigs
  ToolCalls <- MCToolCalls
  Nothing = Nothing
  MaxRevisions = 3
  MaxMinutes = 1
  MaxMcpStarts = 2
  TreeCategories = {g1, g2}
  TreeDocuments = {d1, d2}
  MaxTitle = 2
  PageSizes = {1, 2}
  NoBrowse = NoBrowse
  NoCategory = NoCategory
  MaxSites = 3
  MaxRows = 3
  ChannelDocuments <- MCChannelDocuments
  BundledDocument <- MCBundled
  RunningVersion = 2
  Unreachable = Unreachable
  NoEntry = NoEntry
  Digests = {"a", "b"}
  Uploads = {"first", "second", "third", "other"}
  DigestOf <- MCDigestOf
  NoRecord = NoRecord
INVARIANTS AnsweredReadable SlotsAccounted RunsTracked VerificationsLimited GrantsFollowOwnFlow McpFaithful BrowseFaithful
PROPERTIES SummariesAdmitted ConnectionShared LinkRecovers FooterTruthful
CHECK_DEADLOCK FALSE
