CONSTANTS
  MaxDocuments = 2
  MaxRevisions = 2
  Slugs = {"news", "post", "references"}
  CategorySlugs = {"news"}
  Root = Root
  Fold <- MCFold
  Keys = {"k1", "k2"}
  Messages = {m1}
  NoKey = NoKey
  NoPath = NoPath
  Settings <- MCSettings
  HandleSlugs = {"news", "references"}
  ReferencesSlug = "references"
  FeedLimit = 1
  MaxSeries = 1
  MaxSeriesItems = 2
  Batches <- MCBatches
  FileStates <- MCFileStates
  MaxBytes = 1
  NoDigest = NoDigest
  NoPost = NoPost
  Later = Later
  ReservedRoots = {"references"}
  MaxImports = 2
  MaxDisturbed = 1
  MaxWrites = 3
SPECIFICATION ImportSpec
INVARIANTS ProposalsAudited TextOfInspectedFile
PROPERTIES ImportsComplete
CHECK_DEADLOCK FALSE
