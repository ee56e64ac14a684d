CONSTANTS
  MaxDocuments = 2
  MaxRevisions = 3
  Slugs = {"a", "b"}
  CategorySlugs = {"a"}
  Root = Root
  Fold <- MCFold
  Keys = {}
  Messages = {}
  NoKey = NoKey
  NoPath = NoPath
  Settings <- MCSettings
  HandleSlugs = {"a"}
  ReferencesSlug = "references"
  FeedLimit = 1
  MaxSeries = 2
  MaxSeriesItems = 1
SPECIFICATION Spec
INVARIANTS SeriesWithinCap
CHECK_DEADLOCK FALSE
