SPECIFICATION FairProcess
CONSTANTS
  Word = 4
  Lifetime = 3
  ProbeBound = 4
  A = A D = D
  Nobody = Nobody
  Session <- MCSession
  Addresses <- MCAddresses
  Network <- MCNetwork
  Rewritings <- MCRewritings
  Quotations <- MCQuotations
  Strangers <- MCStrangers
  Batches <- MCBatches
CHECK_DEADLOCK FALSE
INVARIANTS
  ExitCodeTells
  SocketsReleased
  PartialResultShown
PROPERTIES
  ProcessEnds
