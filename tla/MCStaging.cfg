SPECIFICATION StagingSpec
CONSTANTS
  app = app  lib = lib  git = git
  app1 = app1  app2 = app2  lib1 = lib1  lib2 = lib2  git1 = git1  git2 = git2
  x = x  y = y
  plain = plain  clash = clash  two = two
  Source <- MCSource
  GitSource = {git}
  Tree <- MCTree
  Versions <- MCVersions
  Meta <- MCMeta
  MoveName = {"App", "Lib", "Sui"}
  Canonical = {"Sui"}
  AddrName = {"app", "lib", "mylib", "sui"}
  AddrOrder <- MCAddrOrder
  Config = {plain, clash, two}
  Entries <- MCEntries
  Frameworks <- MCFrameworks
  Root = {x, y}
  Rs = Rs
  Base <- MCBase
  Leaf <- MCBase
  Gone = Gone
  Torn = Torn
  Nil = Nil
  EditAt <- AllPoints
  CrashAt <- AfterClear
  MaxEdits = 1
  MaxCrashes = 1

  None = None
  Ids <- MCIds
  IdRank <- MCIdRank
  Texts <- MCTexts
  Stem <- MCStem
  BadNames = {"y"}
  Procs = {p, q}
  Urls <- MCUrls
  RawConfigs <- MCRawConfigs
  Dirname <- MCDirname
  Default = "main"
  Branches = {"main"}
  Tags = {"v1"}
  Revs = {"c0ffee"}
  Bare = {}
  Moving = {"u1"}
  Offline = TRUE
  MaxPush = 1
  MaxDeaths = 1
  MaxRuns = 3
INVARIANTS
  TypeOK DistinctPackages ManifestComplete OverridesBindAll ListedCovered
  RewriteFindsDeps
  SourcesTypeOK CopiedIsPinned OneCommitPerPin
PROPERTY RunEnds
