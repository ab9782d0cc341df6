SPECIFICATION Spec
CONSTANTS
  MAX_OBSERVATIONS = 3
  MAX_TWAP_WINDOW = 4
  HalfRange = 16
  ReservePairs <- SomeReserves
  MaxLedger = 12
CHECK_DEADLOCK FALSE
INVARIANTS TwapIsMean
PROPERTIES RingIsQueue
