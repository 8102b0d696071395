SPECIFICATION Spec
CONSTANTS
  ada = ada
  bell = bell
  hook = hook
  Agents = {ada, bell}
  Anyone = Anyone
  TOK = TOK
  HookedTokens = {hook}
  Offers <- HookedOffers
  Amounts = {1}
  MaxSupply = 1
  MaxTime = 1
  MaxDepth = 2
INVARIANTS
  TypeOK
  SoldOnce
  PaidIffMinted
PROPERTIES
  PromisesKept
