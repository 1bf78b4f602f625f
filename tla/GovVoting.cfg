SPECIFICATION Spec
CONSTANTS
  Addr = {a1, a2}
  ZeroAddr = zero
  Token = {t1}
  Treasury = {}
  Text = {x, y, bad}
  ValidText = {x, y}
  Action = {}
  None = None
  MinDuration = 1
  MaxDuration = 2
  MaxActive = 1
  BpsDenominator = 2
  WindowDivisor = 2
  MaxI128 = 2
  MaxU32 = 2
  MinBalances = {0}
  Cooldowns = {0}
  QuorumBps = {0}
  MaxTime = 3
  MaxProposals = 1
SYMMETRY AddrSymmetry
INVARIANTS TypeOK TallyExact DecisionMatchesBallots
PROPERTIES LifecycleRespected TextFixedUnderBallots BallotBoxImplemented
