SPECIFICATION FairSpec
CONSTANTS
  Word = 4
  Lifetime = 3
  ProbeBound = 4
  A = A B = B D = D
  Nobody = Nobody
  Session <- MCSession
  Addresses <- MCAddresses
  Network <- MCNetwork
  Rewritings <- MCRewritings
  Quotations <- MCQuotations
  Strangers <- MCStrangers
  Batches <- MCBatches
CHECK_DEADLOCK FALSE
INVARIANTS
  BackendTypeOK
  RepliesRecognised
PROPERTIES
  KeepsContract
  BatchReturns
