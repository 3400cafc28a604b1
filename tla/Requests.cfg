SPECIFICATION RequestsSpec
CONSTANTS
  m1 = m1
  m2 = m2
  v1 = v1
  v2 = v2
  t1 = t1
  t2 = t2
  t3 = t3
  Managers = {m1, m2}
  Visitors = {v1, v2}
  TokenIds = {t1, t2, t3}
  Labels = {l1}
  TokenCap = 2
  LlmBudget = 1
  LastMoment = 1
  MaxUses = 1
  Rosters <- TheRosters
  Readers = {"r1", "r2"}
  Queries = {"p", "q"}
  Uncachable = {}
  MaxMisses = 1
  MissTTL = 1
  MaxTime = 3
  MaxWrites = 1
  Recalls = {"r1", "r2"}
  PrimerTTL = 2
  ContextTimeout = 1
  LastTick = 7
  Lines <- TheLines
  MaxLines = 5
  TargetMin = 4
  TargetMax = 6
  HardMax = 7
  AtomicMax = 11
  MaxChunks = 4
  Importers = {1, 2}
  Upstream <- TheUpstream
  Words = {"a", "index", "A", "T", "one", "r", "x", "y", "z", "Document"}
  ReservedNames = {"index"}
  Titles = {"T"}
  Tags <- TheTags
  Resources = {"r"}
  Texts = {"one"}
  PageSize = 2
  MaxDocs = 4
  MaxEdits = 1
  MaxImports = 3
  Requests <- TheSearches
  DocTags <- TheDocTags
  SectionOf <- TheSections
  MaxExpand = 1
  MaxVersion = 2
  MaxRows = 5
  PageLimit = 2
  Digested = {1}
  MaxKeep = 2
  BatchLimit = 2
  MaxEvents = 8
INVARIANTS
  ChannelsAdmitAlike AccessIsNotWidened AccountsAddUp CachesAreRecent ChunkingIsSound
  BundlesAreFaithful CitationsAreSound ListingsAreComplete
PROPERTY BulkOperationsAreSafe
CHECK_DEADLOCK FALSE
