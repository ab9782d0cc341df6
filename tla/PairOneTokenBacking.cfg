\* One-token deposits beside ordinary mints, trades and exits.
SPECIFICATION Spec
CONSTANTS
  BPS = 10
  MaxI128 = 100000
  MinLiquidity = 1
  MinReserve = 2
  MinUserLp = 1
  FlashFloorBps = 1
  User = {u1}
  PairAddr = pair
  TokenSupply <- NineOfEach
  BaselineFee = 1
  MaxFee = 1
  OverrideFees = {}
  ProtocolBps = {0}
  MaxMintPerCall = 6
  MaxTotalSupply = 8
  ProtocolFeeBound = 0
  Amounts = {3, 6}
  LoanAmounts = {}
  LpAmounts = {1, 2, 5}
  BurnAmounts = {1, 2}
  SupplyBound = 8
  Outs = {0, 1}
  OneTokenAmounts = {6}
  DesiredAmounts = {}
  LeastAmounts = {}
CHECK_DEADLOCK FALSE
INVARIANTS ReservesBacked
