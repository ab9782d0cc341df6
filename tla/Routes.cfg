SPECIFICATION Spec
CONSTANTS
  BPS = 10
  MaxI128 = 12000
  MinLiquidity = 1
  MinReserve = 2
  MinUserLp = 1
  FlashFloorBps = 1
  Asset = {1, 2, 3, 4}
  Pools <- Square
  Supply <- UnitsOfEach
  Fees = {1, 3}
  BaselineFee = 3
  Rates <- FeeChanges
  MaxQuotedFee = 3
  ProtocolBps = 5
  HubLists <- HubChoices
  Starts <- SquareStarts
  Amounts = {4}
  Mins = {0, 2}
  Gifts = {4}
  Deposits = {7}
  LpAmounts = {3}
  LpSupplies = {8}
  MaxSwaps = 1
  MaxMoves = 1
CHECK_DEADLOCK FALSE
INVARIANTS QuotedRouteExecutes PathInputLeast HopMinimumsImplied BestPathIsBest SplitSolvesQuadratic NewtonIsRoot
PROPERTIES NothingStranded
