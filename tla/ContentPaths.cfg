CONSTANTS
  MaxDocuments = 2
  MaxRevisions = 2
  Slugs = {"news", "News", "post"}
  CategorySlugs = {"news"}
  Root = Root
  Fold <- MCFold
  Keys = {}
  Messages = {}
  NoKey = NoKey
  NoPath = NoPath
  Settings <- MCSettings
  HandleSlugs = {"news", "News", "post"}
  ReferencesSlug = "references"
  FeedLimit = 1
  MaxSeries = 2
  MaxSeriesItems = 2
SPECIFICATION Spec
INVARIANTS AddressClaimsDisjoint PublicationConsistent SeriesComplete AddressesServed ViewsAgree
PROPERTIES RoutesPermanent HistoryImmutable CollectionsKept DraftsInvisible
CHECK_DEADLOCK FALSE
