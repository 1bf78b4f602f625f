CONSTANTS
  Events <- MCEvents
  Subs <- MCSubs
  Wants <- MCWants
  Only <- MCOnly
  Own <- MCOwn
  EnvChannels <- MCEnvChannels
  NoProposal = 0
  PageSize = 2
  MaxLog = 3
  MaxCrashes = 1
SPECIFICATION LiveSpec
INVARIANT NoReplayOnRestart
CHECK_DEADLOCK FALSE
