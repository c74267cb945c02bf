SPECIFICATION Spec
CONSTANTS
  Requests = {r1, r2}
  Ids = {i1, i2}
  MaxSlots = 1
  MaxPending = 2
  MaxReceived = 3
  Calls = {p}
  Planning = p
  Answers = {a1, a2}
  MaxLines = 1
  MaxEvents = 1
INVARIANTS TypeOK CommandBooks PlanIsComplete
PROPERTIES AnsweredOnce EveryRequestEnds
CHECK_DEADLOCK FALSE
