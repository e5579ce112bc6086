SPECIFICATION FairSpec
CONSTANTS
  o1 = o1
  o2 = o2
  ch = ch
  commitment = commitment
  Coins = {commitment}
  LdkTxs <- MCLdkTxs
  Outputs = {o1, o2}
  Channels = {ch}
  Fees = {1, 2}
  MaxPrimary = 1
  MaxFallback = 1
  MaxLdk = 2
  Scopes <- MCScopes
INVARIANTS
  TypeOK
  InflightExact
  NoOrphanRecord
  FundingFindsTx
PROPERTIES
  RecordKept
  OnlySweptDeleted
  SweepEnds
