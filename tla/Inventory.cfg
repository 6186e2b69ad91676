SPECIFICATION Spec
CONSTANTS
  Workers = {loop, r1, r2}
  Loop = loop
  Sales = {e1}
  Transfers = {t1}
  Receipts = {k1, k2}
  Counts = {n1}
  Manuals = {m1}
  rum = rum
  cola = cola
  bar = bar
  store = store
  Locations = {bar, store}
  NoLocation = NoLocation
  Skus = {rum, cola}
  Product = rum
  SkuOrder <- MCSkuOrder
  DbOrder <- MCDbOrder
  Mappings = {bar, store}
  Recipes <- OneRecipe
  Opening <- MCOpening
  Requests <- MCRequests
  Findings <- MCFindings
  Postings <- MCPostings
  Reversible = {"sale"}
  MaxFaults = 0
  MaxClosings = 1
  MaxReversals = 1
INVARIANTS TypeOK BookedOnceAndWhole
PROPERTIES DecidedOnTrueBalances
