SPECIFICATION PipelineSpec
CONSTANTS
  app = app  lib = lib  old = old  fw = fw
  app1 = app1  app2 = app2  lib1 = lib1
  old1 = old1  fw1 = fw1
  x = x  y = y  z = z
  workspace = workspace  alone = alone
  Source <- MCSource
  GitSource = {old, fw}
  Tree <- MCTree
  Versions <- MCVersions
  Meta <- MCMeta
  MoveName = {"App", "Lib", "Sui"}
  Canonical = {"Sui"}
  AddrName = {"app", "lib", "shim", "sui"}
  AddrOrder <- MCAddrOrder
  Config = {workspace, alone}
  Single = {alone}
  Home <- MCHome
  Entries <- MCEntries
  Frameworks <- MCFrameworks
  Root = {x, y, z}
  Rs = Rs
  Base <- MCBase
  Leaf <- MCBase
  Gone = Gone
  Torn = Torn
  Nil = Nil
  Damaged = Damaged
  EditAt = {"discover", "deps"}
  CrashAt = {"rewrite", "save"}
  EditAtGen = {"idle"}
  MaxEdits = 1
  MaxCrashes = 0
PROPERTY KeepsPromise
