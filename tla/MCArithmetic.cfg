SPECIFICATION Spec
CONSTANTS
  Base = 10
  Stable = 90
  Denominator = 16
  Probabilities = {4, 8, 9, 12}
  SampleBound = 5
  Identifiers = {0, 1, 55, 99}
  Sessions = {0, 42, 99}
  Ids = {1, 9, 10, 50, 89, 98, 99}
  Ttls = {1, 2, 9}
  Sizes = {8, 9, 10, 11, 12, 13}
  Tokens = 10
  Quotes = {0, 1}
  Counts = {0, 1, 2}
  Names = {1, 4, 5}
  MostObjects = 2
CHECK_DEADLOCK FALSE
INVARIANTS
  EchoHeadersStable
  HeadersAccepted
  CertifiedFromRequired
  RareOutcomesMet
  ExtensionsRecovered
  NothingCutOff
