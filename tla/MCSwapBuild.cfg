SPECIFICATION Spec
CONSTANTS
  Req = {"r1"}
  NoHash = NoHash
  Fresh = 1
  Lag = 1
  Latency = 1
  StreamLag = 1
  Validity = 4
  MaxHeight = 4
  Token <- MCToken
  Pool <- MCPool
  MintA <- MCMintA
  MintB <- MCMintB
  ProgramOf <- MCProgramOf
  Spl = "spl"
  Zero = "none"
  ProgramA <- MCProgramA
  ProgramB <- MCProgramB
  State <- MCState
  TickOf <- MCTickOf
  Start <- MCStart
  Give <- MCGive
  Take <- MCTake
  Fails <- MCFails
  PoolsOf <- MCPoolsOf
  Paths <- MCPaths
  Shares = {10, 50, 90}
  Asked <- MCAsked
  SplitFrom = 30
  Word = 64
  MaxMoves = 1
CHECK_DEADLOCK FALSE
INVARIANTS SwapTypeOK PlanFollowsRoute PlanPaysTheQuote QuoteBoundsSwap HashIsGood
