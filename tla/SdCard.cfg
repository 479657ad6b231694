SPECIFICATION SdSpec
CONSTANTS
  LastBlock = 1
  Data = {a}
  Size = 2
  SdCards <- Kinds
  Rates = {1, 7}
  Careless = FALSE
  EraseWait = 4
  MaxExchanges = 4
  Durations = {5}
INVARIANTS
  BusFree
  CardKnown

  
