\* Two holders, one of them also a spender (of its own LP too), two administrators, and
\* amounts of either sign up to the limit of i128.
SPECIFICATION Spec
CONSTANTS
  Account = {h1, h2}
  Spender = {h2}
  Admins = {pair, successor}
  FirstAdmin = pair
  MaxMintPerCall = 2
  MaxTotalSupply = 3
  MaxI128 = 3
  Amounts <- SignedAmounts
  LastLedger = 2
CHECK_DEADLOCK FALSE
INVARIANTS Conservation AllowanceHonoured
PROPERTIES DeadlineHonoured PausedTokenStandsStill
