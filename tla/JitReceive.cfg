SPECIFICATION FairSpec
CONSTANTS
  Lsp = lsp
  Peers = {lsp, other}
  Ids <- MCIds
  MaxPending = 1
  Amounts = {6, 9}
  Menus <- MCMenus
  MaxCalls = 2
  MaxEdits = 2
  MaxDrops = 1
  U64Max = 40
  Million = 10
INVARIANTS
  TypeOK
  SettledOnce
  PendingBounded
  InvoiceForAmount
  SpinnerHasCall
  ExpectedReceive
PROPERTIES
  AnsweredByLsp
  NegotiationEnds
