SPECIFICATION Spec
CONSTANTS
  Addr = {a1, a2}
  ZeroAddr = zero
  Token = {t1, t2}
  Treasury = {}
  Text = {x, bad}
  ValidText = {x}
  Action = {}
  None = None
  MinDuration = 1
  MaxDuration = 1
  MaxActive = 2
  BpsDenominator = 1
  WindowDivisor = 2
  MaxI128 = 1
  MaxU32 = 0
  MinBalances = {0}
  Cooldowns = {0, 2}
  QuorumBps = {0}
  MaxTime = 5
  MaxProposals = 3
SYMMETRY AddrSymmetry
INVARIANTS ActiveCountExact
PROPERTIES TokenFixedWhileActive CooldownHonoured
