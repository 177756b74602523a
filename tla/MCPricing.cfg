SPECIFICATION PricingSpec
CONSTANTS
  FilterInputs <- MCFilterInputs
  AccountInputs <- MCAccountInputs
  CardInputs <- MCCardInputs
  RateInputs <- MCRateInputs
  PriceInputs <- MCPriceInputs
  CreditInputs <- MCCreditInputs
  BatchInputs <- MCBatchInputs
  Wilds = {0, 9}
  PerSec = 10
INVARIANTS
  LongestPrefix
  CyclesTile
  PriceIsReference
  DuckParity
  CreditHolds
