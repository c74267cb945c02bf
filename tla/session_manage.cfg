SPECIFICATION Spec
CONSTANTS
  Callers = {c1, c2}
  None = None
  Offered = {"resume", "start", "steer", "interrupt", "archive", "restore", "set_binary", "delete"}
  MaxTurns = 1
  MaxConnections = 2
SYMMETRY CallerSymmetry
VIEW SessionView
INVARIANTS ReconciledIsTrue
PROPERTIES DispatchIsRecorded ArchivedWhenQuiet
CHECK_DEADLOCK FALSE
