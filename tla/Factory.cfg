\* Up to three pairs of three tokens, pages of two, two or three signers, upgrades after one ledger.
SPECIFICATION Spec
CONSTANTS
  Tokens = {t1, t2, t3}
  s1 = s1
  s2 = s2
  s3 = s3
  gov = gov
  Addr = {s1, s2, s3, gov}
  SignerLists <- Lists
  Presented <- Groups
  Setters = {s1, gov}
  Hashes = {h1}
  FirstHash = h0
  MaxSigners = 3
  MaxProtocolFeeBps = 1
  MaxPairFeeBps = 1
  FeeChoices = {0, 1, 2}
  UpgradeDelay = 1
  FeeTokens = {f1}
  MaxPairs = 3
  MaxPage = 2
  MaxRecorded = 1
  None = none
  LastLedger = 2
SYMMETRY Symmetry
CHECK_DEADLOCK FALSE
INVARIANTS RegistryAgrees FreezeRelayed
PROPERTIES PagesJoin QuorumsMeet UpgradeWaited
