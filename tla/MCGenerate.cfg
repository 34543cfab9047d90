SPECIFICATION GenerateSpec
CONSTANTS
  app = app  lib = lib  old = old  fw = fw
  app1 = app1  app2 = app2  lib1 = lib1
  old1 = old1  fw1 = fw1
  x = x  y = y  z = z
  workspace = workspace  alone = alone
  Source <- MCSource
  GitSource = {old, fw}
  Tree <- MCTree
  Versions <- MCVersions
  Meta <- MCMeta
  MoveName = {"App", "Lib", "Sui"}
  Canonical = {"Sui"}
  AddrName = {"app", "lib", "shim", "sui"}
  AddrOrder <- MCAddrOrder
  Config = {workspace, alone}
  Single = {alone}
  Home <- MCHome
  Entries <- MCEntries
  Frameworks <- MCFrameworks
  Root = {x, y, z}
  Rs = Rs
  Base <- MCBase
  Leaf <- MCBase
  Gone = Gone
  Torn = Torn
  Nil = Nil
  Damaged = Damaged
  EditAt = {"idle"}
  CrashAt = {"rewrite", "save"}
  EditAtGen <- GenPoints
  MaxEdits = 2
  MaxCrashes = 1

  Packages <- MCPackage
  Staged <- MCStaged
  Framework = {"sys"}
  MoveNameOf <- MCMoveName
  CrateOf <- MCCrateOf
  BuiltAt <- MCAddressOf
  Address = {"0x1", "0x2", "0x3", "A", "B", "C"}
  ModName = {"object", "coin", "tx_context", "auth_context", "option", "info",
             "pool", "shop", "names", "quiet", "entry", "string", "ascii"}
  TypeName <- MCTypeName
  FunName = {"open", "help", "hide", "run"}
  Lower <- MCLower
  Compiled <- MCCompiled
INVARIANTS
  GenTypeOK
  CodegenTypeOK RefsResolve TagMethodsDistinct
PROPERTIES
  KeepsPromise InstalledIsUsable GenEnds
