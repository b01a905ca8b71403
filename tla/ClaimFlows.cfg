SPECIFICATION Spec
CONSTANTS
  MaxHops = 10
  BaselineRounds = 2
  TemporalSamples = 2
  CanaryFlows = 1
  GlobalCap = FALSE
  ChunkSize = 5
  AdaptiveBatch = 2
  TailGuard = 1
  Required = 2
  Enough = {2, 3, 4, 5, 6, 7}
  MaxProbes = 29
  TcpControl = FALSE
  A = A B = B C = C D = D
  t1 = t1 t2 = t2 t3 = t3
  None = None
  MainToken = m
  Responders <- MCResponders
  Destination = D
  Mutations <- MCMutations
  Tokens <- MCTokens
  Networks <- Straddling
CHECK_DEADLOCK FALSE
INVARIANTS
  CertifiedFlowsAreDistinct
