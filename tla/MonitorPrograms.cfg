CONSTANTS
  AdminTopics = {"voted", "paused", "exec"}
  AdminPageSize = 2
  MaxAdminLog = 3
  Requests = {1, 2}
  Emitted <- MCEmitted
  LargeTransfer = 100
  RapidVoteBurst = 2
  AdminChangeCount = 2
  MonitorPageSize = 1
  MaxChainLog = 2
  Chains = {"a", "b"}
  MaxEvents = 2
  LIMIT = 3
  MaxCreated = 5
SPECIFICATION Spec
INVARIANTS AdminAlertsRight LogsExamined SingleLoop ListingIsRecent
PROPERTIES StopQuiesces EventuallyPosted
CHECK_DEADLOCK FALSE
