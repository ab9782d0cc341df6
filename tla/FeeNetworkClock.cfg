\* The clocks of a network: timestamps are far ahead of ledger sequences.
SPECIFICATION Spec
CONSTANTS
  Scale = 40
  BPS = 10
  MaxI128 = 700
  EmaAlpha = 10
  BaselineFee = 2
  MinFee = 1
  MaxFee = 6
  RampUp = 2
  CooldownDivisor = 2
  DecayBlocks = 2
  MaxDecayPeriods = 3
  DefaultStale = 2
  Genesis = 100
  CloseTime = 5
  PriceDeltas = {0, 20, 40, 60}
  TradeSizes = {5, 20}
  TotalReserve = 20
  StaleThresholds = {0, 1, 3, 9}
  MaxStale = 5
  LastLedger = 12
CHECK_DEADLOCK FALSE
PROPERTIES IdleFeeDecays
