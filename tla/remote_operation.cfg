SPECIFICATION FairSpec
CONSTANTS
  Ops = {o1}
  MaxIssues = 2
  MaxDrops = 1
  MaxJobs = 1
  Scopes = {wide, other}
  Granting = {wide}
  NoScope = NoScope
  MaxHistory = 1
  MaxStops = 2
INVARIANTS TypeOK ReceiptOfThisRequest
PROPERTIES ScopeBound KeepsPromise ReceiptArrives
CHECK_DEADLOCK FALSE
