SPECIFICATION Spec
CONSTANTS
  MaxHops = 4
  BaselineRounds = 2
  TemporalSamples = 2
  CanaryFlows = 1
  GlobalCap = TRUE
  ChunkSize = 2
  AdaptiveBatch = 1
  TailGuard = 1
  Required = 3
  Enough = {4, 5, 6, 7, 8}
  MaxProbes = 100
  TcpControl = TRUE
  A = A B = B C = C D = D
  t1 = t1 t2 = t2 t3 = t3
  None = None
  MainToken = m
  Responders <- MCResponders
  Destination = D
  Mutations <- MCMutations
  Tokens <- MCTokens
  Networks <- GlobalNetworks
CHECK_DEADLOCK FALSE
INVARIANTS
  RegionsCompleted
  ClassesAreGrounded
PROPERTIES
  KernelControlLast
