SPECIFICATION Spec
CONSTANTS
  c1 = c1
  c2 = c2
  w1 = w1
  w2 = w2
  sold = sold
  paid = paid
  till = till
  bar = bar
  transfer = transfer
  alert = alert
  tally = tally
  Clients = {c1, c2}
  Writers = {w1}
  Orders = {sold, paid}
  CashOrders = {sold}
  ProviderOrders = {paid}
  ClosedBefore = {sold}
  Results = {"SUCCEEDED"}
  Total <- MCTotal
  Place <- MCPlace
  Papers = {tally}
  Transfers = {}
  Alerts = {}
  Counts = {tally}
  Adjustments <- TwoReductions
  Declarations <- CashOfTill
  Actions <- CloseReopenClose
  MaxTime = 3
SYMMETRY Symmetry
CHECK_DEADLOCK FALSE
INVARIANTS TypeOK BooksAreSound CertifiedCloseIsComplete
PROPERTIES CorrectionsStopAtClose
