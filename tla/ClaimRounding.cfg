SPECIFICATION Spec
CONSTANTS
  MaxHops = 5
  BaselineRounds = 2
  TemporalSamples = 3
  CanaryFlows = 1
  GlobalCap = FALSE
  ChunkSize = 2
  AdaptiveBatch = 2
  TailGuard = 1
  Required = 2
  Enough = {3, 4, 5, 6, 7, 8}
  MaxProbes = 100
  TcpControl = FALSE
  A = A B = B C = C D = D
  t1 = t1 t2 = t2 t3 = t3
  None = None
  MainToken = m
  Responders <- MCResponders
  Destination = D
  Mutations <- MCMutations
  Tokens <- MCTokens
  Networks <- OnlyBalanced
CHECK_DEADLOCK FALSE
INVARIANTS
  BoundMetOrBudgetSpent
