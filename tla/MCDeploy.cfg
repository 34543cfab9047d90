SPECIFICATION DeploymentSpec
CONSTANTS
  a = a  b = b  c = c  d = d
  Nil = Nil
  Member = {a, b, c, d}
  MemberOrder <- MCOrder
  AddrName = {"a", "b", "c"}
  NameOf <- MCNameOf
  Pinned = {"c"}
  MaxRuns = 2
  MaxFaults = 1

  Start = 50
  Floor = 8
  Suggestion = 20
  MaxU64 = 64
  Amounts <- MCAmounts
  MaxGasFaults = 1
INVARIANTS
  DependenciesFirst CycleReported
  DeployTypeOK LinkedWithinRun OncePerRun MissingOnlyIfFiltered
  StaleOnlyAtFirst PartialIsExact
  EstimateCovers ProbeFinds
PROPERTIES
  SortEnds DeployEnds ProbeEnds
CHECK_DEADLOCK FALSE
