SPECIFICATION Spec
CONSTANTS
  m1 = m1
  m2 = m2
  m3 = m3
  n1 = n1
  Mid = {m1, m2, m3, n1}
  Origin <- MCOrigin
  Rank <- MCRank
  Addressed = {m1, m2, m3, n1}
  Composed = {m1, m2, n1}
  MaxBlockSize = 2
  SendOnly = {"a"}
  TornWrites = TRUE
  MaxFaults = 3
INVARIANTS
  DataMatchesProposal
  StatsAgree
  NoRedundantTransfer
  RenameHasSource
