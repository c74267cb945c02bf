SPECIFICATION Spec
CONSTANTS
  Callers = {c1, c2}
  None = None
  MaxTurns = 2
  MaxCrashes = 1
SYMMETRY CallerSymmetry
VIEW ApiView
INVARIANTS TypeOK OneTurnUninterrupted OutcomeAgrees DeleteWaits AnswersKept
CHECK_DEADLOCK FALSE
