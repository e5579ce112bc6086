SPECIFICATION SessionSpec
CONSTANTS
  Depth = 3
  MaxBlocks = 3
  MaxTroubles = 1
  GraphEvery = 2
  RgsEvery = 3
  StaleThreshold = 3
  MaxBackoff = 5
  MaxGossip = 1
  LoopTroubles = 2
  Users = {1, 2, 3}
  Urls = {"a", "b", "c"}
  MaxConcurrent = 2
  Callers = {1, 2}
  Rates = {0, 3, 9000}
  Default = 5
  Floor = 2500
  Sends = {1}
  SyncNowRetries = 2
  MaxChanges = 2
  MaxAsks = 2
  MaxOffers = 1
  MaxPayments = 1
  Outbound = {1}
  Inbound = {2}
  MaxBegun = 2
  MaxFailures = 1
  Peers = {"p"}
  MaxSockets = 3
  MaxChannels = 1
  MaxSyncs = 3
  Channels = {"a"}
  MaxJobs = 3
  MaxRestarts = 1
INVARIANTS
  TypesOK QuietViewCurrent SlotsConserved OneTickPending LossExplained
  OnePaymentAtATime SuccessShownIsSent SentIsRecorded NoUntrackedPeer
  PeersOnServer RecordOnServer
PROPERTIES
  SpendReported WriteRetried EveryWriteAcked StaleOnlyAfterFailure
CHECK_DEADLOCK FALSE
