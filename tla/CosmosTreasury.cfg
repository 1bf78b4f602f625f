SPECIFICATION CosmosSpec
CONSTANTS
  a1 = a1
  a2 = a2
  t1 = t1
  Addr = {a1}
  ZeroAddr = zero
  Token = {t1}
  Treasury = {tr}
  Text = {x}
  ValidText = {x}
  Action <- MCAction
  None = None
  MinDuration = 1
  MaxDuration = 1
  MaxActive = 2
  BpsDenominator = 1
  WindowDivisor = 2
  MaxI128 = 2
  MaxU32 = 1
  MinBalances = {0}
  Cooldowns = {0}
  QuorumBps = {0}
  MaxTime = 2
  MaxProposals = 1
  GovContract = gov
  VotingToken = t1
  Native = native
  InitialSupplies = {2}
CONSTRAINT Quiet
INVARIANTS DisbursedOnce
PROPERTIES ContractsImplemented TreasuryPaysExecutedProposals
