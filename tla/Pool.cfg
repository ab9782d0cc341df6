\* Every operation of a pool and of the router's liquidity calls, near the i128 limit; a flash
\* loan's callback moves tokens and LP, and holders burn negative amounts at the LP token.
SPECIFICATION RouterSpec
CONSTANTS
  BPS = 10
  MaxI128 = 3000
  MinLiquidity = 1
  MinReserve = 2
  MinUserLp = 1
  FlashFloorBps = 1
  User = {u1, u2}
  PairAddr = pair
  TokenSupply <- NineAndSix
  BaselineFee = 1
  MaxFee = 2
  OverrideFees = {}
  ProtocolBps = {0, 10}
  MaxMintPerCall = 6
  MaxTotalSupply = 6
  SupplyBound = 4
  ProtocolFeeBound = 2
  Amounts = {3}
  LoanAmounts = {3}
  LpAmounts = {2}
  BurnAmounts <- SignedBurns
  Outs <- SignedOuts
  OneTokenAmounts = {6}
  DesiredAmounts = {2, 3}
  LeastAmounts = {0, 2}
SYMMETRY Symmetry
CHECK_DEADLOCK FALSE
INVARIANTS   PendingTotalIsSum SupplyIsSum OptimalAmountsFair KLastCurrent
PROPERTIES BackingKept StagedLpIsOwners ExitNeverDilutes FrozenPoolOnlyUnwinds PausedLpStandsStill
  KNeverFalls EntryNeverDilutes FlashLoanAllOrNothing
