SPECIFICATION FairSpec
CONSTANTS
  Addr = {a1, a2}
  ZeroAddr = zero
  Token = {t1}
  Treasury = {}
  Text = {x}
  ValidText = {x}
  Action = {}
  None = None
  MinDuration = 1
  MaxDuration = 1
  MaxActive = 2
  BpsDenominator = 1
  WindowDivisor = 2
  MaxI128 = 1
  MaxU32 = 2
  MinBalances = {0}
  Cooldowns = {0}
  QuorumBps = {0}
  MaxTime = 2
  MaxProposals = 2
PROPERTIES EventuallyDecided
