CONSTANTS
  Users = {"alice", "bob"}
  NoOne = "none"
  Calls = {1, 2}
  MaxAsks = 2
  Outsiders = {"carol"}
  Delegation <- MCDelegation
  Accounts = {"alice", "bob"}
  Nobody = "nobody"
  MaxProposals = 2
  MaxVersion = 2
  Loads = {1, 2}
  VoteLoads = {1, 2}
  SimCalls = {1, 2}
  Loops = {"a", "b"}
  MaxToasts = 3
  Tabs = {"a", "b"}
  FirstTab = "a"
  BATCH_SIZE = 2
  MaxEvents = 3
  MaxPosts = 2
  MaxUpsets = 3
  ThemeTabs = {"a", "b"}
  MaxToggles = 4
  PAGE_SIZE = 2
  MaxList = 15
  Shell = {"index", "offline"}
  Pages = {"data"}
  OfflinePage = "offline"
  MaxDeploys = 3
SPECIFICATION Spec
INVARIANTS ShownForWallet RequestsHonest OneLoopInStep ToastsEnd QueueIntact  PagesRight OfflineServes
PROPERTY ListNeverGoesBack
CHECK_DEADLOCK FALSE
