SPECIFICATION FairSpec
CONSTANTS
  m1 = m1
  m2 = m2
  m3 = m3
  n1 = n1
  Mid = {m1, m2, m3, n1}
  Origin <- MCOrigin
  Rank <- MCRank
  Addressed = {m1, m2, m3, n1}
  Composed = {m1, m2, m3, n1}
  MaxBlockSize = 2
  SendOnly = {}
  TornWrites = FALSE
  MaxFaults = 3
INVARIANTS
  TypeOK
  SentImpliesReceived
  OneTurn
  CleanEndDrains
  ErrorsHaveCause
  ExchangeInv
PROPERTIES
  ImplementsCustody
  SessionEnds
  Delivered
