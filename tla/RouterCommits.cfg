\* Two senders compete for slots; commits expire after one or two ledgers.
SPECIFICATION Spec
CONSTANTS
  Sender = {s1, s2}
  Swaps = {w1, w2}
  Nonces = {0, 1}
  DefaultMax = 1
  DefaultExpiry = 1
  MaxCommitsCap = 2
  ExpiryCap = 2
  NoSender = nobody
  LastLedger = 3
CHECK_DEADLOCK FALSE
INVARIANTS CountIsOccupied NonceExecutedOnce
PROPERTIES DelayBeforeReveal
