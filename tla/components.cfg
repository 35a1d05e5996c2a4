\* Ten components side by side.
SPECIFICATION PartsSpec
CONSTANTS
  j1 = j1
  j2 = j2
  j3 = j3
  j4 = j4
  d1 = d1
  y = y
  \* JobRegistry
  None = None
  Jobs = {j1, j2, j3, j4}
  MAX_JOBS = 2
  JOB_TTL = 2
  MaxTime = 4
  \* CrawlBatch
  Nil = Nil
  Pages = {1, 2, 3}
  PollSec = 1
  KillSec = 1
  Concurrency = 2
  DefaultRuntime = 2
  MinRuntime = 1
  Batches <- TwoBatches
  \* SiteRoster
  Absent = Absent
  Domains = {d1, y}
  YamlDomains = {y}
  Checks = {c1}
  Finders = {f1}
  OriginOf <- Republished
  SampleSizes = {3}
  MaxPerSeed = 1
  MaxTotal = 2
  MaxAssessed = 5
  MaxRuns = 6
  \* ScoopLibrary
  Nothing = Nothing
  Urls = {1, 2}
  Versions <- FewVersions
  AlikeTitles = {}
  Window = 3
  Materials = {m1}
  Tasks = {t1, t2}
  MaxBatch = 1
  MaxTasks = 3
  \* ScoopClusters
  ItemCount = 6
  Alikes <- FourPairs
  \* ScoopScore
  Unknown = Unknown
  Configs <- TwoConfigs
  LastHour = 4
  MaxMembers = 2
  \* PackageStore
  Gone = Gone
  Posts = {p1}
  Bodies = {b1, b2}
  Hands = {h1, h2}
  Tolerated <- AfterTwoDeletes
  \* SchemaVersions
  NoOwner = NoOwner
  Owners <- TwoOwners
  Columns <- SchemaColumns
  Created <- SchemaCreated
  Migrations <- SchemaMigrations
  Indexed <- SchemaIndexes
  OldFiles <- SixFiles
  Openers = {o1, o2}
  \* SettingsFile
  SourceIds = {"a", "b"}
  HandFiles <- ThreeFiles
  Forms = {"f2"}
  BadForm = BadForm
  Requests = {r1, r2}
  MaxEdits = 3
  Scalar = Scalar
  NotAList = NotAList
  Unread = Unread
  \* LoginLight
  LoginJobs = {g1, g2}
  LightPages = {q1}
  MaxLogins = 2
  NoNote = NoNote
INVARIANTS
  WellFormed ActiveIsKept Bounded
  AnswerIsTrue CrawlsEndInTime SpiderKeepsLimits
  TiersAreEarned ScoopsAndItemsAgree CacheIsSound GossipIsTruthful
  GroupsAreComponents SchemasAreCurrent LightIsTruthful
PROPERTIES
  BatchesEnd KeepsBatchPromise TiersFollowMachine NothingIsDropped ScoresAreMonotone StoreIsSound OwnChangeOnly
CHECK_DEADLOCK FALSE
