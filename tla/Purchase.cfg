SPECIFICATION FairPurchases
CONSTANTS
  ada = ada
  cleo = cleo
  bell = bell
  other = other
  Agents = {ada, cleo, bell}
  Anyone = Anyone
  TOK = TOK
  HookedTokens = {other}
  Offers <- WholeOffers
  Amounts = {0, 2, 4}
  MaxSupply = 4
  MaxTime = 1
  MaxDepth = 0
  Consumers = {ada, cleo}
  Judged = {cleo}
  Budget <- Budgets
  Unit = 2
  NoOffer = NoOffer
  MaxRounds <- Rounds
CHECK_DEADLOCK FALSE
INVARIANTS
  PurchaseTypeOK
  NoStandingAllowance
  TicketsAreKnown
PROPERTIES
  ImplementsChain
  PurchasesEnd
