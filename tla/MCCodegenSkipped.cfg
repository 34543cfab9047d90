SPECIFICATION CodegenSpec
CONSTANTS
  Packages <- MCPackage
  Staged <- MCStaged
  Framework = {"sys"}
  MoveNameOf <- MCMoveName
  CrateOf <- MCCrateOf
  BuiltAt <- MCAddressOf
  Address = {"0x1", "0x2", "0x3", "A", "B", "C"}
  ModName = {"object", "coin", "tx_context", "auth_context", "option", "info",
             "pool", "shop", "names", "quiet", "entry", "string", "ascii"}
  TypeName <- MCTypeName
  FunName = {"open", "help", "hide", "run"}
  Lower <- MCLower
  Compiled <- MCCompiled
INVARIANTS
  SkippedRouted
CHECK_DEADLOCK FALSE
