SPECIFICATION AnalysisFairSpec
CONSTANTS
  k1 = k1
  k2 = k2
  a = a
  b = b
  a1 = a1
  a2 = a2
  b1 = b1
  Commits = {a, b}
  Records = {a1, a2, b1}
  CommitOf <- MCCommitOf
  Histories = {{b}, {a, b}}
  Chains = {k1, k2}
  BatchSize = 2
  MaxOverlaps = 1
  MaxRefused = 1
  Faults <- AllFaults
INVARIANTS
  AnalysisTypeOK
  PartialIsJournaled
  NoRowTwice
PROPERTIES
  TableSpec
  Recovers
