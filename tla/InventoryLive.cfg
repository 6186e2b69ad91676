SPECIFICATION FairSpec
CONSTANTS
  Workers = {loop, r1, r2}
  Loop = loop
  Sales = {e1}
  Transfers = {}
  Receipts = {k1, k2}
  Counts = {n1}
  Manuals = {m1}
  rum = rum
  cola = cola
  bar = bar
  store = store
  Locations = {bar}
  NoLocation = NoLocation
  Skus = {rum, cola}
  Product = rum
  SkuOrder <- MCSkuOrder
  DbOrder <- MCDbOrder
  Mappings = {NoLocation, bar}
  Recipes <- OneRecipe
  Opening <- MCOpening
  Requests = {}
  Findings <- MCFindings
  Postings <- MCPostings
  Reversible = {"sale", "count", "manual"}
  MaxFaults = 1
  MaxClosings = 1
  MaxReversals = 1
PROPERTIES SalesAreConsumed
